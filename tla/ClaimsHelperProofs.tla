-------------------------- MODULE ClaimsHelperProofs --------------------------
(***************************************************************************)
(* Proofs about the pool and the helper process together, for every number *)
(* of jobs, bounties and slots: types, the books of the scheduler, one     *)
(* answer for every request, the budget of a bounty, the order in which    *)
(* its captures are reported, and that every frame fits its request.       *)
(***************************************************************************)
EXTENDS ClaimsHelper, FiniteSetTheorems, TLAPS

-----------------------------------------------------------------------------
(* Pipes.                                                                  *)

Finals == {"resolved", "attempt"}

\* The identifiers that the messages of the given types carry; those of all.
Ids(s, types) == {s[i].id : i \in {k \in DOMAIN s : s[k].type \in types}}
Named(s) == {s[i].id : i \in DOMAIN s}

\* No identifier has two messages of the given types.
Once(s, types) ==
  \A i, k \in DOMAIN s :
    s[i].type \in types /\ s[k].type \in types /\ s[i].id = s[k].id => i = k

LEMMA Appended ==
  ASSUME NEW S, NEW s \in Seq(S), NEW x \in S
  PROVE  LET t == Append(s, x) IN
         /\ t \in Seq(S) /\ Len(t) = Len(s) + 1
         /\ \A i \in DOMAIN t : (i \in DOMAIN s /\ t[i] = s[i]) \/ (i = Len(s) + 1 /\ t[i] = x)
         /\ \A i \in DOMAIN s : i \in DOMAIN t /\ t[i] = s[i]
         /\ t[Len(s) + 1] = x /\ Len(s) + 1 \in DOMAIN t
  OBVIOUS

LEMMA IdsAppended ==
  ASSUME NEW S, NEW s \in Seq(S), NEW x \in S, NEW types
  PROVE  /\ Ids(Append(s, x), types) = Ids(s, types) \cup (IF x.type \in types THEN {x.id} ELSE {})
         /\ Named(Append(s, x)) = Named(s) \cup {x.id}
         /\ Once(s, types) /\ (x.type \in types => x.id \notin Ids(s, types))
              => Once(Append(s, x), types)
<1>. DEFINE t == Append(s, x)
            n == Len(s) + 1
<1>1. /\ \A i \in DOMAIN t : (i \in DOMAIN s /\ t[i] = s[i]) \/ (i = n /\ t[i] = x)
      /\ \A i \in DOMAIN s : i \in DOMAIN t /\ t[i] = s[i]
      /\ t[n] = x /\ n \in DOMAIN t
  BY Appended
<1>. HIDE DEF t, n
<1>2. Ids(t, types) = Ids(s, types) \cup (IF x.type \in types THEN {x.id} ELSE {})
  BY <1>1 DEF Ids
<1>3. Named(t) = Named(s) \cup {x.id}
  BY <1>1 DEF Named
<1>4. Once(s, types) /\ (x.type \in types => x.id \notin Ids(s, types)) => Once(t, types)
  BY <1>1 DEF Once, Ids
<1>. QED BY <1>2, <1>3, <1>4 DEF t

LEMMA IdsTail ==
  ASSUME NEW S, NEW s \in Seq(S), s # <<>>, NEW types
  PROVE  /\ Tail(s) \in Seq(S) /\ Head(s) \in S /\ Len(Tail(s)) = Len(s) - 1
         /\ \A i \in DOMAIN Tail(s) : i + 1 \in DOMAIN s /\ Tail(s)[i] = s[i + 1]
         /\ Ids(s, types) = Ids(Tail(s), types)
                              \cup (IF Head(s).type \in types THEN {Head(s).id} ELSE {})
         /\ Named(Tail(s)) \subseteq Named(s) /\ Head(s).id \in Named(s)
         /\ Once(s, types) =>
              /\ Once(Tail(s), types)
              /\ Head(s).type \in types => Head(s).id \notin Ids(Tail(s), types)
<1>. DEFINE t == Tail(s)
<1>0. t \in Seq(S) /\ Head(s) \in S /\ Len(t) = Len(s) - 1 /\ 1 \in DOMAIN s /\ Head(s) = s[1]
  OBVIOUS
<1>1. /\ \A i \in DOMAIN t : i + 1 \in DOMAIN s /\ t[i] = s[i + 1] /\ i + 1 # 1 /\ i \in Nat
      /\ \A i \in DOMAIN s : i = 1 \/ (i - 1 \in DOMAIN t /\ s[i] = t[i - 1])
      /\ \A i, k \in DOMAIN t : i + 1 = k + 1 => i = k
  OBVIOUS
<1>. HIDE DEF t
<1>2. Ids(s, types) = Ids(t, types) \cup (IF Head(s).type \in types THEN {Head(s).id} ELSE {})
  <2>1. ASSUME NEW i \in DOMAIN s, s[i].type \in types
        PROVE  s[i].id \in Ids(t, types) \/ (Head(s).type \in types /\ s[i].id = Head(s).id)
    BY <1>0, <1>1, <2>1 DEF Ids
  <2>2. \A i \in DOMAIN t : t[i].type \in types => t[i].id \in Ids(s, types)
    BY <1>1 DEF Ids
  <2>3. Head(s).type \in types => Head(s).id \in Ids(s, types)
    BY <1>0 DEF Ids
  <2>. QED BY <2>1, <2>2, <2>3 DEF Ids
<1>3. Named(t) \subseteq Named(s) /\ Head(s).id \in Named(s)
  BY <1>0, <1>1 DEF Named
<1>4. Once(s, types) => Once(t, types) /\ (Head(s).type \in types => Head(s).id \notin Ids(t, types))
  BY <1>0, <1>1 DEF Once, Ids
<1>. QED BY <1>0, <1>1, <1>2, <1>3, <1>4 DEF t

-----------------------------------------------------------------------------
(* The queue of jobs.                                                      *)

Distinct(s) == \A i, k \in DOMAIN s : s[i] = s[k] => i = k

\* What is left when a job is removed.
LEMMA Removed ==
  ASSUME pending \in Seq(Jobs), Distinct(pending), NEW j, NEW i \in DOMAIN pending, pending[i] = j
  PROVE  /\ Without(j) \in Seq(Jobs) /\ Len(Without(j)) = Len(pending) - 1 /\ Distinct(Without(j))
         /\ \A k : (\E l \in DOMAIN Without(j) : Without(j)[l] = k)
                     <=> k # j /\ \E l \in DOMAIN pending : pending[l] = k
<1>. DEFINE n == Len(pending)
            found(m) == \E k \in 1..m : pending[k] = j
            w == [m \in 1..(n - 1) |-> pending[IF found(m) THEN m + 1 ELSE m]]
<1>1. n \in Nat \ {0} /\ DOMAIN pending = 1..n /\ i \in 1..n
  OBVIOUS
<1>2. \A m \in 0..n : found(m) <=> m >= i
  BY <1>1 DEF Distinct
<1>3. Without(j) = w
  BY <1>1, <1>2 DEF Without
<1>4. \A m \in 1..(n - 1) : w[m] = pending[IF m >= i THEN m + 1 ELSE m]
  BY <1>1, <1>2
<1>. HIDE DEF found
<1>5. w \in Seq(Jobs) /\ Len(w) = n - 1 /\ DOMAIN w = 1..(n - 1)
  <2>1. \A m \in 1..(n - 1) : w[m] \in Jobs
    BY <1>1, <1>4
  <2>. QED BY <1>1, <2>1
<1>. HIDE DEF w, n
<1>6. Distinct(w)
  <2>. SUFFICES ASSUME NEW a \in 1..(n - 1), NEW b \in 1..(n - 1), w[a] = w[b]
                PROVE  a = b
    BY <1>5 DEF Distinct
  <2>. DEFINE c == IF a >= i THEN a + 1 ELSE a
              d == IF b >= i THEN b + 1 ELSE b
  <2>1. c \in DOMAIN pending /\ d \in DOMAIN pending /\ pending[c] = pending[d]
    BY <1>1, <1>4
  <2>2. c = d
    BY <2>1 DEF Distinct
  <2>. QED BY <1>1, <2>2
<1>7. ASSUME NEW l \in DOMAIN w
      PROVE  w[l] # j /\ \E m \in DOMAIN pending : pending[m] = w[l]
  <2>. DEFINE c == IF l >= i THEN l + 1 ELSE l
  <2>1. c \in DOMAIN pending /\ c # i /\ w[l] = pending[c]
    BY <1>1, <1>4, <1>5
  <2>. QED BY <2>1 DEF Distinct
<1>8. ASSUME NEW l \in DOMAIN pending, pending[l] # j
      PROVE  \E m \in DOMAIN w : w[m] = pending[l]
  <2>1. CASE l < i
    <3>1. l \in 1..(n - 1) /\ ~(l >= i)
      BY <1>1, <2>1
    <3>. QED BY <1>4, <1>5, <3>1
  <2>2. CASE l > i
    <3>1. l - 1 \in 1..(n - 1) /\ l - 1 >= i /\ (l - 1) + 1 = l
      BY <1>1, <2>2
    <3>. QED BY <1>4, <1>5, <3>1
  <2>. QED BY <1>1, <1>8, <2>1, <2>2
<1>. QED BY <1>3, <1>5, <1>6, <1>7, <1>8 DEF n

-----------------------------------------------------------------------------
(* The inductive invariant.                                                *)

Commands == [type : {"request", "cancel"}, id : Jobs, count : 0..MaxCount]
FieldSet == [started : BOOLEAN, captured : BOOLEAN, count : 0..MaxCount]
Frames ==
  [type : {"ready", "error"}, id : {None}] \cup [type : {"started"}, id : Attempts]
    \cup [type : {"resolved"}, id : Resolves, ok : BOOLEAN]
    \cup [type : {"capture"}, id : Attempts, fields : FieldSet]
    \cup [type : {"attempt"}, id : Attempts, fields : FieldSet, cancelled : BOOLEAN, proof : BOOLEAN]

Connected == {"starting", "open", "verifying", "concluding"}

Typed ==
  /\ TypeOK
  /\ pending \in Seq(Jobs) /\ active \in [{"attempt", "resolve"} -> Nat]
  /\ commands \in Seq(Commands) /\ frames \in Seq(Frames)
  /\ \A j \in Jobs :
       /\ jobs[j].stage \in Connected => j \in Attempts
       /\ jobs[j].stage = "resolving" => j \in Resolves
       /\ jobs[j].stage = "queued" => j \notin cancelled

\* The pool and the process; a process that is not up has no state.
Phased ==
  /\ process # "up" => Fresh(jobs, cancelled, pending, active, dns, successes)
  /\ process = "up" => Listening
  /\ process = "gone" => frames = <<>> /\ commands = <<>> /\ pool \in {"none", "failed"}
  /\ pool = "none" => process = "gone"
  /\ pool \in {"none", "failed"} => Open = {}

Queued == {j \in Live : jobs[j].stage = "queued"}

\* The queue and the slots.
Books ==
  /\ Distinct(pending) /\ Len(pending) = Cardinality(Queued)
  /\ \A j : j \in Queued <=> \E i \in DOMAIN pending : pending[i] = j
  /\ \A kind \in {"attempt", "resolve"} :
       active[kind] = Cardinality(Running(kind)) /\ active[kind] <= Limit[kind]

\* A request that is on its way has no trace in the helper, and a job has one answer.
Apart ==
  /\ Once(commands, {"request"}) /\ Once(frames, Finals)
  /\ Ids(commands, {"request"}) \cap (Live \cup Named(frames)) = {}
  /\ Ids(frames, Finals) \cap Working = {}

Held == process = "up" => Open = Asked \cup Working \cup Answered

\* The connections of a bounty, and its successes, those of the engine included.
Connections(b) == {j \in Attempts : Bounty[j] = b /\ jobs[j].stage = "open"}
Spent ==
  /\ \A b \in Bounties :
       /\ successes[b] <= Enough + Concurrency /\ counts[b] <= Enough + Concurrency
       /\ Connections(b) # {} =>
            successes[b] + Cardinality(Connections(b)) <= Enough + Concurrency
  /\ \A i \in DOMAIN frames :
       frames[i].type = "capture" /\ frames[i].fields.captured =>
         /\ frames[i].fields.count <= Enough + Concurrency
         /\ process = "up" => frames[i].fields.count <= successes[Bounty[frames[i].id]]
  /\ \A i \in DOMAIN commands :
       commands[i].type = "request" /\ commands[i].id \in Attempts =>
         LET b == Bounty[commands[i].id] IN
         /\ commands[i].count <= counts[b]
         /\ process = "up" => counts[b] <= commands[i].count \/ counts[b] <= successes[b]
  /\ \A j \in Live \cap Attempts : counts[Bounty[j]] <= successes[Bounty[j]]

Inv == Typed /\ Phased /\ Books /\ Apart /\ Held /\ Spent

-----------------------------------------------------------------------------
(* Facts.                                                                  *)

LEMMA Limits ==
  /\ Concurrency \in Nat \ {0} /\ DnsLimit \in Nat \ {0} /\ Enough \in Nat \ {0}
  /\ MaxCount \in Nat \ {0} /\ MaxPipe \in Nat \ {0} /\ MaxRequests \in Nat \ {0}
BY ServiceAssumption, PoolAssumption

LEMMA JobsFinite ==
  ASSUME NEW S \in SUBSET Jobs
  PROVE  IsFiniteSet(S) /\ Cardinality(S) \in Nat
BY ServiceAssumption, FS_Subset, FS_CardinalityType

LEMMA Kinds ==
  ASSUME NEW j
  PROVE  Kind(j) \in {"attempt", "resolve"} /\ Limit[Kind(j)] \in Nat \ {0}
BY Limits DEF Kind, Limit

LEMMA Sets ==
  /\ Asked = Ids(commands, {"request"}) /\ Answered = Ids(frames, Finals)
  /\ Asked' = Ids(commands', {"request"}) /\ Answered' = Ids(frames', Finals)
BY DEF Asked, Answered, Ids, Finals

LEMMA NoIds ==
  ASSUME NEW types
  PROVE  Ids(<<>>, types) = {} /\ Named(<<>>) = {} /\ Once(<<>>, types)
BY DEF Ids, Named, Once

LEMMA FrameFacts ==
  ASSUME NEW f \in Frames
  PROVE  /\ f.type \in {"ready", "error"} => f.id = None
         /\ f.type \in {"started", "capture", "attempt"} => f.id \in Attempts
         /\ f.type = "resolved" => f.id \in Resolves
         /\ f.type \in {"capture", "attempt"} => f.fields \in FieldSet
         /\ f.type \in {"ready", "error", "started", "resolved", "capture", "attempt"}
BY DEF Frames

LEMMA Piped ==
  ASSUME Typed
  PROVE  /\ \A i \in DOMAIN commands : commands[i] \in Commands /\ commands[i].id \in Jobs
         /\ \A i \in DOMAIN frames : frames[i] \in Frames
<1>1. \A c \in Commands : c.id \in Jobs
  BY DEF Commands
<1>. HIDE DEF Commands, Frames
<1>. QED BY <1>1 DEF Typed

LEMMA FreshFacts ==
  ASSUME Fresh(jobs, cancelled, pending, active, dns, successes)
  PROVE  /\ \A j \in Jobs : jobs[j].stage = "none" 
         /\ Live = {} /\ Queued = {} /\ Working = {} /\ pending = <<>> /\ cancelled = {}
         /\ \A kind : Running(kind) = {}
         /\ \A b : Connections(b) = {}
<1>1. \A j \in Jobs : jobs[j].stage = "none"
  BY DEF Fresh, NoJob
<1>2. Attempts \subseteq Jobs
  BY DEF Jobs
<1>. QED BY <1>1, <1>2 DEF Live, Queued, Working, Running, Connections, Fresh

LEMMA FinishTyped ==
  ASSUME TypeOK, NEW S, finish(S)
  PROVE  /\ requests' \in [Jobs -> [open : BOOLEAN, started : BOOLEAN, base : 0..MaxCount,
                              capture : [captured : BOOLEAN, count : 0..MaxCount] \cup {None}]]
         /\ Open' = Open \ S /\ aborted' = aborted \ S /\ aborted' \subseteq Open'
         /\ \A j \in Jobs \ S : requests'[j] = requests[j]
<1>1. Unasked \in [open : BOOLEAN, started : BOOLEAN, base : 0..MaxCount,
                   capture : [captured : BOOLEAN, count : 0..MaxCount] \cup {None}]
      /\ ~Unasked.open
  BY Limits DEF Unasked
<1>2. \A j \in Jobs : requests'[j] = IF j \in S THEN Unasked ELSE requests[j]
  BY DEF finish
<1>3. requests' \in [Jobs -> [open : BOOLEAN, started : BOOLEAN, base : 0..MaxCount,
                              capture : [captured : BOOLEAN, count : 0..MaxCount] \cup {None}]]
  <2>. HIDE DEF Unasked
  <2>. QED BY <1>1 DEF finish, TypeOK
<1>4. Open' = Open \ S
  BY <1>1, <1>2 DEF Open
<1>. QED BY <1>2, <1>3, <1>4 DEF finish, TypeOK

-----------------------------------------------------------------------------
(* The end of a process.                                                   *)

\* Nothing remains of its jobs; what is in the pipes may.
LEMMA EndKeeps ==
  ASSUME Inv, Ends, process' \in {"dead", "gone"}, UNCHANGED counts,
         UNCHANGED <<requests, aborted>> \/ finish(Jobs),
         pool' \in {"none", "starting", "ready", "failed", "closing"},
         commands' = commands \/ commands' = <<>> \/ (commands # <<>> /\ commands' = Tail(commands)),
         \/ frames' = frames \/ frames' = <<>>
         \/ Emit([type |-> "error", id |-> None])
  PROVE  Typed' /\ Books' /\ Apart' /\ Held' /\ Spent'
<1>. DEFINE e == [type |-> "error", id |-> None]
<1>0. (Fresh(jobs, cancelled, pending, active, dns, successes))'
  BY DEF Ends, Fresh
<1>1. /\ \A j \in Jobs : jobs'[j].stage = "none" 
      /\ Live' = {} /\ Queued' = {} /\ Working' = {} /\ pending' = <<>> /\ cancelled' = {}
      /\ \A kind : Running(kind)' = {}
      /\ \A b : Connections(b)' = {}
  <2>1. \A j \in Jobs : jobs'[j].stage = "none"
    BY <1>0 DEF Fresh, NoJob
  <2>2. Attempts \subseteq Jobs
    BY DEF Jobs
  <2>. QED BY <1>0, <2>1, <2>2 DEF Live, Queued, Working, Running, Connections, Fresh
<1>2. /\ commands' \in Seq(Commands) /\ Len(commands') <= MaxPipe /\ Once(commands', {"request"})
      /\ Ids(commands', {"request"}) \subseteq Ids(commands, {"request"})
      /\ \A i \in DOMAIN commands' : \E k \in DOMAIN commands : commands'[i] = commands[k]
  <2>1. CASE commands' = commands
    BY <2>1 DEF Inv, Typed, TypeOK, ServiceTyped, Apart
  <2>2. CASE commands' = <<>>
    BY <2>2, NoIds, Limits DEF Inv, Typed
  <2>3. CASE commands # <<>> /\ commands' = Tail(commands)
    <3>1. commands \in Seq(Commands) /\ Len(commands) <= MaxPipe
      BY DEF Inv, Typed, TypeOK, ServiceTyped
    <3>. QED BY <2>3, <3>1, IdsTail, Limits DEF Inv, Apart
  <2>. QED BY <2>1, <2>2, <2>3
<1>3. /\ frames' \in Seq(Frames) /\ Len(frames') <= MaxPipe /\ Once(frames', Finals)
      /\ Named(frames') \subseteq Named(frames) \cup {None}
      /\ \A i \in DOMAIN frames' :
           (\E k \in DOMAIN frames : frames'[i] = frames[k]) \/ frames'[i] = e
  <2>1. CASE frames' = frames
    BY <2>1 DEF Inv, Typed, TypeOK, ServiceTyped, Apart
  <2>2. CASE frames' = <<>>
    BY <2>2, NoIds, Limits DEF Inv, Typed
  <2>3. CASE Emit(e)
    <3>1. frames \in Seq(Frames) /\ e \in Frames /\ e.type \notin Finals /\ e.id = None
      BY DEF Inv, Typed, Frames, Finals
    <3>2. frames' = Append(frames, e) /\ Len(frames) < MaxPipe
      BY <2>3 DEF Emit
    <3>. HIDE DEF e
    <3>3. Len(frames') <= MaxPipe /\ frames' \in Seq(Frames)
      BY <3>1, <3>2, Limits
    <3>. QED BY <3>1, <3>2, <3>3, IdsAppended, Appended DEF Inv, Apart
  <2>. QED BY <2>1, <2>2, <2>3
<1>4. Typed'
  <2>1. ServiceTyped'
    BY <1>1, <1>2, <1>3, <1>0, Limits DEF ServiceTyped, Fresh, NoJob, Stages
  <2>2. requests' \in [Jobs -> [open : BOOLEAN, started : BOOLEAN, base : 0..MaxCount,
                            capture : [captured : BOOLEAN, count : 0..MaxCount] \cup {None}]]
        /\ aborted' \subseteq Open'
    BY FinishTyped, Limits DEF Inv, Typed, TypeOK, Open
  <2>3. active' \in [{"attempt", "resolve"} -> Nat] /\ pending' \in Seq(Jobs)
    BY <1>0 DEF Fresh
  <2>. QED BY <1>1, <1>2, <1>3, <2>1, <2>2, <2>3 DEF Typed, TypeOK, Inv, Connected
<1>5. Books'
  <2>1. Distinct(pending') /\ Len(pending') = Cardinality(Queued') /\ DOMAIN pending' = {}
    BY <1>1, FS_EmptySet DEF Distinct
  <2>2. \A kind \in {"attempt", "resolve"} :
          active'[kind] = 0 /\ Cardinality(Running(kind)') = 0 /\ 0 <= Limit[kind]
    <3>. TAKE kind \in {"attempt", "resolve"}
    <3>1. active'[kind] = 0
      BY <1>0 DEF Fresh
    <3>2. Running(kind)' = {}
      BY <1>1
    <3>3. Limit[kind] \in Nat
      BY Limits DEF Limit
    <3>4. Cardinality(Running(kind)') = 0
      BY <3>2, FS_EmptySet
    <3>. QED BY <3>1, <3>3, <3>4
  <2>3. \A j : j \in Queued' <=> \E i \in DOMAIN pending' : pending'[i] = j
    BY <1>1, <2>1
  <2>. QED BY <2>1, <2>2, <2>3 DEF Books
<1>6. Apart'
  <2>1. None \notin Ids(commands, {"request"})
    <3>1. \A i \in DOMAIN commands : commands[i].id # None
      BY ServiceAssumption, Piped DEF Inv
    <3>. QED BY <3>1 DEF Ids
  <2>. QED BY <1>1, <1>2, <1>3, <2>1 DEF Apart, Inv
<1>7. Held'
  BY DEF Held
<1>8. Spent'
  <2>1. \A b \in Bounties : successes'[b] = 0
    BY <1>0 DEF Fresh
  <2>2. \A i \in DOMAIN frames' :
          frames'[i].type = "capture" /\ frames'[i].fields.captured =>
            frames'[i].fields.count <= Enough + Concurrency
    BY <1>3 DEF Spent, Inv
  <2>3. \A i \in DOMAIN commands' :
          commands'[i].type = "request" /\ commands'[i].id \in Attempts =>
            commands'[i].count <= counts[Bounty[commands'[i].id]]
    BY <1>2 DEF Spent, Inv
  <2>4. \A b \in Bounties :
          successes'[b] <= Enough + Concurrency /\ counts'[b] <= Enough + Concurrency
    BY <2>1, Limits DEF Spent, Inv
  <2>. QED BY <1>1, <2>2, <2>3, <2>4 DEF Spent
<1>. QED BY <1>4, <1>5, <1>6, <1>7, <1>8

-----------------------------------------------------------------------------
(* Threads.                                                                *)

JobSet == [stage : Stages, started : BOOLEAN, captured : BOOLEAN,
           count : 0..MaxCount \cup {None}, proof : BOOLEAN]

LEMMA JobTyped ==
  ASSUME Typed, NEW j \in Jobs
  PROVE  /\ jobs \in [Jobs -> JobSet] /\ jobs[j] \in JobSet
         /\ jobs[j].started \in BOOLEAN /\ jobs[j].captured \in BOOLEAN /\ jobs[j].proof \in BOOLEAN
         /\ jobs[j].count \in 0..MaxCount \cup {None} /\ jobs[j].stage \in Stages
BY DEF Typed, TypeOK, ServiceTyped, JobSet

LEMMA AdvanceTyped ==
  ASSUME Typed, NEW j \in Jobs, NEW stage \in Stages, Advance(j, stage)
  PROVE  /\ jobs' \in [Jobs -> JobSet] /\ jobs'[j].stage = stage
         /\ \A k \in Jobs \ {j} : jobs'[k] = jobs[k]
BY JobTyped DEF Advance, JobSet

LEMMA FieldsTyped ==
  ASSUME Typed, NEW j \in Attempts, NEW job,
         job.started \in BOOLEAN, job.captured \in BOOLEAN, job.count \in 0..MaxCount \cup {None}
  PROVE  Fields(j, job) \in FieldSet
<1>1. successes[Bounty[j]] \in 0..MaxCount
  BY ServiceAssumption DEF Typed, TypeOK, ServiceTyped
<1>2. job.count # None => job.count \in 0..MaxCount
  OBVIOUS
<1>. QED BY <1>1, <1>2 DEF Fields, FieldSet

LEMMA FramesTyped ==
  /\ \A j \in Attempts : Started(j) \in Frames /\ Started(j).type = "started" /\ Started(j).id = j
  /\ \A j \in Resolves, ok \in BOOLEAN :
       Resolved(j, ok) \in Frames /\ Resolved(j, ok).type = "resolved" /\ Resolved(j, ok).id = j
  /\ \A j \in Attempts : \A job : Fields(j, job) \in FieldSet =>
       /\ Capture(j, job) \in Frames /\ Capture(j, job).type = "capture" /\ Capture(j, job).id = j
       /\ Capture(j, job).fields = Fields(j, job)
       /\ \A proof \in BOOLEAN :
            /\ Attempt(j, job, proof) \in Frames /\ Attempt(j, job, proof).type = "attempt"
            /\ Attempt(j, job, proof).id = j
<1>1. \A j \in Attempts : Started(j) \in Frames /\ Started(j).type = "started" /\ Started(j).id = j
  BY DEF Started, Frames
<1>2. \A j \in Resolves, ok \in BOOLEAN :
        Resolved(j, ok) \in Frames /\ Resolved(j, ok).type = "resolved" /\ Resolved(j, ok).id = j
  BY DEF Resolved, Frames
<1>3. ASSUME NEW j \in Attempts, NEW job, Fields(j, job) \in FieldSet
      PROVE  /\ Capture(j, job) \in Frames /\ Capture(j, job).type = "capture"
             /\ Capture(j, job).id = j /\ Capture(j, job).fields = Fields(j, job)
  BY <1>3 DEF Capture, Frames
<1>4. ASSUME NEW j \in Attempts, NEW job, Fields(j, job) \in FieldSet, NEW proof \in BOOLEAN
      PROVE  /\ Attempt(j, job, proof) \in Frames /\ Attempt(j, job, proof).type = "attempt"
             /\ Attempt(j, job, proof).id = j
  <2>1. (j \in cancelled) \in BOOLEAN
    OBVIOUS
  <2>. QED BY <1>4, <2>1 DEF Attempt, Frames
<1>. QED BY <1>1, <1>2, <1>3, <1>4

\* A job that runs goes on to another stage, with a frame or without one.
Moves(j) ==
  /\ UNCHANGED <<process, cancelled, pending, active, commands, poolVars>>
  /\ jobs[j].stage \notin {"none", "queued", "leaving"}
  /\ jobs' \in [Jobs -> JobSet] /\ \A k \in Jobs \ {j} : jobs'[k] = jobs[k]
  /\ jobs'[j].stage \notin {"none", "queued"}
  /\ jobs'[j].stage \in Connected => j \in Attempts
  /\ jobs'[j].stage = "resolving" => j \in Resolves
  /\ dns' \subseteq Domains /\ successes' \in [Bounties -> 0..MaxCount]
  /\ \/ jobs'[j].stage # "leaving" /\ UNCHANGED frames
     \/ \E f \in Frames :
          Emit(f) /\ f.id = j /\ (f.type \in Finals <=> jobs'[j].stage = "leaving")

LEMMA CountedTyped ==
  ASSUME Typed, NEW b \in Bounties
  PROVE  Counted(b) \in 0..MaxCount /\ successes[b] \in 0..MaxCount
         /\ Counted(b) <= successes[b] + 1 /\ successes[b] <= Counted(b)
BY Limits DEF Counted, Typed, TypeOK, ServiceTyped

LEMMA ThreadMoves ==
  ASSUME Inv, NEW j \in Jobs, UNCHANGED poolVars, Thread(j), ~leave(j)
  PROVE  Moves(j)
<1>. USE DEF Stages, Connected
<1>0. Typed /\ dns \subseteq Domains /\ successes \in [Bounties -> 0..MaxCount] /\ jobs[j] \in JobSet
      /\ Attempts \cap Resolves = {} /\ Jobs = Attempts \cup Resolves
  BY JobTyped, ServiceAssumption DEF Inv, Typed, TypeOK, ServiceTyped, Jobs
<1>1. CASE lookUp(j)
  <2>1. j \in Resolves /\ (j \notin cancelled) \in BOOLEAN
    BY <1>1 DEF lookUp
  <2>2. Resolved(j, j \notin cancelled) \in Frames /\ Resolved(j, j \notin cancelled).id = j
        /\ Resolved(j, j \notin cancelled).type \in Finals
    BY <2>1, FramesTyped DEF Finals
  <2>3. CASE j \in cancelled \/ Domain[j] \in dns
    <3>1. Advance(j, "leaving") /\ Emit(Resolved(j, j \notin cancelled))
      BY <1>1, <2>3 DEF lookUp
    <3>. QED BY <1>0, <1>1, <2>2, <3>1, AdvanceTyped DEF Moves, lookUp
  <2>4. CASE ~(j \in cancelled \/ Domain[j] \in dns)
    <3>1. Advance(j, "resolving") /\ UNCHANGED frames
      BY <1>1, <2>4 DEF lookUp
    <3>. QED BY <1>0, <1>1, <2>1, <3>1, AdvanceTyped DEF Moves, lookUp
  <2>. QED BY <2>3, <2>4
<1>2. CASE resolved(j)
  <2>1. j \in Resolves
    BY <1>0, <1>2 DEF resolved, Typed
  <2>2. PICK found \in SUBSET {Domain[j]} :
          /\ dns' = (dns \ {Domain[j]}) \cup found
          /\ Emit(Resolved(j, found # {} /\ j \notin cancelled))
    BY <1>2 DEF resolved
  <2>3. (found # {} /\ j \notin cancelled) \in BOOLEAN
    OBVIOUS
  <2>. DEFINE f == Resolved(j, found # {} /\ j \notin cancelled)
  <2>4. f \in Frames /\ f.id = j /\ f.type \in Finals
    BY <2>1, <2>3, FramesTyped DEF Finals
  <2>5. dns' \subseteq Domains
    BY <1>0, <2>2, ServiceAssumption
  <2>. HIDE DEF f
  <2>. QED BY <1>0, <1>2, <2>2, <2>4, <2>5, AdvanceTyped DEF Moves, resolved, f
<1>3. CASE begin(j)
  BY <1>0, <1>3, AdvanceTyped DEF Moves, begin, AttemptStep
<1>4. CASE started(j)
  <2>1. j \in Attempts
    BY <1>0, <1>4 DEF started, Typed
  <2>2. CASE Advance(j, "concluding") /\ UNCHANGED frames
    BY <1>0, <1>4, <2>1, <2>2, AdvanceTyped DEF Moves, started, AttemptStep
  <2>3. CASE /\ jobs' = [jobs EXCEPT ![j].stage = "open", ![j].started = TRUE]
             /\ Emit(Started(j))
    <3>1. /\ jobs' \in [Jobs -> JobSet] /\ jobs'[j].stage = "open"
          /\ \A k \in Jobs \ {j} : jobs'[k] = jobs[k]
      BY <1>0, <2>3, JobTyped DEF JobSet
    <3>2. Started(j) \in Frames /\ Started(j).id = j /\ Started(j).type \notin Finals
      BY <2>1, FramesTyped DEF Finals
    <3>. QED BY <1>0, <1>4, <2>1, <2>3, <3>1, <3>2 DEF Moves, started, AttemptStep
  <2>. QED BY <1>4, <2>2, <2>3 DEF started
<1>5. CASE capture(j)
  <2>1. j \in Attempts /\ Bounty[j] \in Bounties
    BY <1>0, <1>5, ServiceAssumption DEF capture, Typed
  <2>2. PICK captured \in BOOLEAN :
          LET n   == IF captured THEN Counted(Bounty[j]) ELSE successes[Bounty[j]]
              job == [jobs[j] EXCEPT !.captured = captured, !.count = n,
                                     !.stage = IF captured THEN "verifying" ELSE "concluding"]
          IN  /\ successes' = [successes EXCEPT ![Bounty[j]] = n]
              /\ jobs' = [jobs EXCEPT ![j] = job]
              /\ Emit(Capture(j, job))
    BY <1>5 DEF capture
  <2>. DEFINE n   == IF captured THEN Counted(Bounty[j]) ELSE successes[Bounty[j]]
              job == [jobs[j] EXCEPT !.captured = captured, !.count = n,
                                     !.stage = IF captured THEN "verifying" ELSE "concluding"]
  <2>3. n \in 0..MaxCount
    BY <1>0, <2>1, CountedTyped
  <2>4. job \in JobSet /\ job.stage \in {"verifying", "concluding"} /\ job.count = n
        /\ job.started = jobs[j].started /\ job.captured = captured
    <3>. HIDE DEF n
    <3>. QED BY <1>0, <2>3 DEF JobSet
  <2>5. successes' \in [Bounties -> 0..MaxCount] /\ jobs' \in [Jobs -> JobSet]
        /\ jobs'[j] = job /\ \A k \in Jobs \ {j} : jobs'[k] = jobs[k]
    <3>. HIDE DEF n, job
    <3>. QED BY <1>0, <2>1, <2>2, <2>3, <2>4, JobTyped DEF n, job
  <2>6. Capture(j, job) \in Frames /\ Capture(j, job).id = j /\ Capture(j, job).type \notin Finals
    <3>1. Fields(j, job) \in FieldSet
      <4>. HIDE DEF n, job
      <4>. QED BY <1>0, <2>1, <2>3, <2>4, JobTyped, FieldsTyped
    <3>. QED BY <2>1, <3>1, FramesTyped DEF Finals
  <2>. HIDE DEF n, job
  <2>7. Emit(Capture(j, job))
    BY <2>2 DEF n, job
  <2>. QED BY <1>0, <1>5, <2>1, <2>4, <2>5, <2>6, <2>7 DEF Moves, capture, AttemptStep
<1>6. CASE verify(j)
  <2>1. j \in Attempts
    BY <1>0, <1>6 DEF verify, Typed
  <2>2. /\ jobs' \in [Jobs -> JobSet] /\ jobs'[j].stage = "concluding"
        /\ \A k \in Jobs \ {j} : jobs'[k] = jobs[k]
    <3>1. PICK proof \in BOOLEAN :
            jobs' = [jobs EXCEPT ![j].stage = "concluding", ![j].proof = proof]
      BY <1>6 DEF verify
    <3>. QED BY <1>0, <3>1, JobTyped DEF JobSet
  <2>. QED BY <1>0, <1>6, <2>1, <2>2 DEF Moves, verify, AttemptStep
<1>7. CASE conclude(j)
  <2>1. j \in Attempts
    BY <1>0, <1>7 DEF conclude, Typed
  <2>. DEFINE p == jobs[j].proof /\ j \notin cancelled
              f == Attempt(j, jobs[j], p)
  <2>2. p \in BOOLEAN
    OBVIOUS
  <2>. HIDE DEF p
  <2>3. f \in Frames /\ f.id = j /\ f.type \in Finals
    <3>1. Fields(j, jobs[j]) \in FieldSet
      BY <1>0, <2>1, JobTyped, FieldsTyped
    <3>. QED BY <2>1, <2>2, <3>1, FramesTyped DEF Finals
  <2>4. Emit(f) /\ Advance(j, "leaving")
    BY <1>7 DEF conclude, p
  <2>. HIDE DEF f
  <2>. QED BY <1>0, <1>7, <2>3, <2>4, AdvanceTyped DEF Moves, conclude, AttemptStep
<1>. QED BY <1>1, <1>2, <1>3, <1>4, <1>5, <1>6, <1>7 DEF Thread

\* A job that is somewhere tells that the process is up.
LEMMA Lives ==
  ASSUME Inv, NEW j \in Jobs, jobs[j].stage # "none"
  PROVE  process = "up" /\ Listening
BY FreshFacts DEF Inv, Phased

LEMMA MovesKeep ==
  ASSUME Inv, NEW j \in Jobs, Moves(j)
  PROVE  Typed' /\ Phased' /\ Books' /\ Apart' /\ Held'
<1>0. jobs[j].stage \notin {"none", "queued", "leaving"} /\ jobs'[j].stage \notin {"none", "queued"}
      /\ \A k \in Jobs \ {j} : jobs'[k] = jobs[k]
  BY DEF Moves
<1>1. /\ Live' = Live /\ Queued' = Queued /\ j \in Live
      /\ \A kind : Running(kind)' = Running(kind)
      /\ j \in Working
      /\ Working' = IF jobs'[j].stage = "leaving" THEN Working \ {j} ELSE Working
  <2>1. Live' = Live /\ Queued' = Queued /\ j \in Live
    BY <1>0 DEF Live, Queued
  <2>2. \A kind : Running(kind)' = Running(kind)
    BY <1>0 DEF Live, Running
  <2>3. /\ j \in Working
        /\ Working' = IF jobs'[j].stage = "leaving" THEN Working \ {j} ELSE Working
    BY <1>0 DEF Live, Working
  <2>. QED BY <2>1, <2>2, <2>3
<1>2. frames \in Seq(Frames) /\ Len(frames) <= MaxPipe /\ MaxPipe \in Nat
  BY Limits DEF Inv, Typed, TypeOK, ServiceTyped
<1>3. /\ frames' \in Seq(Frames) /\ Len(frames') <= MaxPipe
      /\ Ids(frames', Finals) = IF jobs'[j].stage = "leaving" THEN Ids(frames, Finals) \cup {j}
                                                             ELSE Ids(frames, Finals)
      /\ Named(frames') \subseteq Named(frames) \cup {j}
      /\ Once(frames', Finals)
  <2>1. CASE jobs'[j].stage # "leaving" /\ UNCHANGED frames
    BY <1>2, <2>1 DEF Inv, Apart
  <2>2. CASE \E f \in Frames :
               Emit(f) /\ f.id = j /\ (f.type \in Finals <=> jobs'[j].stage = "leaving")
    <3>1. PICK f \in Frames :
            Emit(f) /\ f.id = j /\ (f.type \in Finals <=> jobs'[j].stage = "leaving")
      BY <2>2
    <3>2. frames' = Append(frames, f) /\ Len(frames) < MaxPipe
      BY <3>1 DEF Emit
    <3>3. j \notin Ids(frames, Finals) /\ Once(frames, Finals)
      BY <1>1 DEF Inv, Apart
    <3>4. Len(frames') <= MaxPipe /\ frames' \in Seq(Frames)
      BY <1>2, <3>2
    <3>. HIDE DEF Frames, Finals
    <3>5. /\ Ids(frames', Finals) = Ids(frames, Finals) \cup (IF f.type \in Finals THEN {f.id} ELSE {})
          /\ Named(frames') = Named(frames) \cup {f.id}
          /\ (f.type \in Finals => f.id \notin Ids(frames, Finals)) => Once(frames', Finals)
      BY <1>2, <3>2, <3>3, IdsAppended
    <3>. QED BY <3>1, <3>3, <3>4, <3>5
  <2>. QED BY <2>1, <2>2 DEF Moves
<1>4. Typed'
  <2>1. ServiceTyped'
    BY <1>1, <1>3 DEF Moves, Inv, Typed, TypeOK, ServiceTyped, JobSet
  <2>2. \A k \in Jobs :
          /\ jobs'[k].stage \in Connected => k \in Attempts
          /\ jobs'[k].stage = "resolving" => k \in Resolves
          /\ jobs'[k].stage = "queued" => k \notin cancelled'
    BY <1>0 DEF Moves, Inv, Typed
  <2>. QED BY <1>3, <2>1, <2>2 DEF Moves, poolVars, Inv, Typed, TypeOK, Open
<1>5. Phased'
  <2>1. process = "up"
    BY <1>0, Lives
  <2>. QED BY <2>1 DEF Moves, poolVars, Inv, Phased, Listening, Open
<1>6. Books'
  BY <1>1 DEF Moves, Inv, Books
<1>7. Apart'
  BY <1>1, <1>3 DEF Moves, Inv, Apart
<1>8. Held'
  BY <1>1, <1>3, Sets DEF Moves, poolVars, Inv, Held, Open
<1>. QED BY <1>4, <1>5, <1>6, <1>7, <1>8

-----------------------------------------------------------------------------
(* The budgets.                                                            *)

LEMMA ConnectionsFinite ==
  ASSUME NEW b
  PROVE  Connections(b) \in SUBSET Jobs /\ IsFiniteSet(Connections(b))
         /\ Cardinality(Connections(b)) \in Nat
BY JobsFinite DEF Connections, Jobs

LEMMA Fewer ==
  ASSUME NEW S \in SUBSET Jobs, NEW R \in SUBSET S
  PROVE  Cardinality(R) <= Cardinality(S) /\ Cardinality(R) \in Nat /\ Cardinality(S) \in Nat
BY JobsFinite, FS_Subset

\* Steps that count nothing and open no connection.
LEMMA SpentIdle ==
  ASSUME Inv, UNCHANGED <<process, successes, counts>>,
         \A j \in Jobs : jobs'[j].stage = "open" => jobs[j].stage = "open",
         \A j \in Jobs : jobs'[j].stage # "none" => jobs[j].stage # "none",
         \A i \in DOMAIN frames' :
           \/ \E k \in DOMAIN frames : frames'[i] = frames[k]
           \/ ~(frames'[i].type = "capture" /\ frames'[i].fields.captured),
         \A i \in DOMAIN commands' :
           (\E k \in DOMAIN commands : commands'[i] = commands[k]) \/ commands'[i].type # "request"
  PROVE  Spent'
<1>1. Attempts \subseteq Jobs
  BY DEF Jobs
<1>2. ASSUME NEW b \in Bounties
      PROVE  /\ successes'[b] <= Enough + Concurrency /\ counts'[b] <= Enough + Concurrency
             /\ Connections(b)' # {} =>
                  successes'[b] + Cardinality(Connections(b)') <= Enough + Concurrency
  <2>1. Connections(b)' \subseteq Connections(b)
    BY <1>1 DEF Connections
  <2>2. Cardinality(Connections(b)') <= Cardinality(Connections(b))
        /\ Cardinality(Connections(b)') \in Nat /\ Cardinality(Connections(b)) \in Nat
    BY <2>1, Fewer, ConnectionsFinite
  <2>3. successes[b] \in Nat
    BY Limits DEF Inv, Typed, TypeOK, ServiceTyped
  <2>4. Connections(b)' # {} => Connections(b) # {}
    BY <2>1
  <2>. QED BY <2>2, <2>3, <2>4, Limits DEF Inv, Spent
<1>3. \A i \in DOMAIN frames' :
        frames'[i].type = "capture" /\ frames'[i].fields.captured =>
          /\ frames'[i].fields.count <= Enough + Concurrency
          /\ process' = "up" => frames'[i].fields.count <= successes'[Bounty[frames'[i].id]]
  BY DEF Inv, Spent
<1>4. \A i \in DOMAIN commands' :
        commands'[i].type = "request" /\ commands'[i].id \in Attempts =>
          LET b == Bounty[commands'[i].id] IN
          /\ commands'[i].count <= counts'[b]
          /\ process' = "up" => counts'[b] <= commands'[i].count \/ counts'[b] <= successes'[b]
  BY DEF Inv, Spent
<1>5. \A j \in Live' \cap Attempts : counts'[Bounty[j]] <= successes'[Bounty[j]]
  BY <1>1 DEF Inv, Spent, Live
<1>. QED BY <1>2, <1>3, <1>4, <1>5 DEF Spent

\* What a thread appends is the last frame.
LEMMA Emitted ==
  ASSUME Typed, NEW f \in Frames, Emit(f)
  PROVE  \A i \in DOMAIN frames' :
           (\E k \in DOMAIN frames : frames'[i] = frames[k]) \/ frames'[i] = f
BY Appended DEF Typed, Emit

LEMMA StartedSpent ==
  ASSUME Inv, NEW j \in Jobs, started(j), Moves(j)
  PROVE  Spent'
<1>0. Typed /\ Attempts \subseteq Jobs /\ UNCHANGED <<process, successes, counts, commands>>
  BY DEF Inv, Jobs, started, AttemptStep, Moves, poolVars
<1>1. CASE Advance(j, "concluding") /\ UNCHANGED frames
  <2>1. jobs'[j].stage = "concluding"
    BY <1>0, <1>1, AdvanceTyped DEF Stages
  <2>. QED BY <1>0, <1>1, <2>1, SpentIdle DEF Moves
<1>2. CASE /\ ~Exhausted(Bounty[j])
           /\ jobs' = [jobs EXCEPT ![j].stage = "open", ![j].started = TRUE]
           /\ Emit(Started(j))
  <2>. DEFINE b == Bounty[j]
  <2>1. j \in Attempts /\ b \in Bounties /\ jobs[j].stage = "starting" /\ jobs'[j].stage = "open"
    <3>1. jobs[j].stage = "starting" /\ j \in Attempts
      BY <1>0 DEF started, Typed, Connected
    <3>2. jobs'[j].stage = "open"
      BY <1>0, <1>2, JobTyped DEF JobSet
    <3>. QED BY <3>1, <3>2, ServiceAssumption
  <2>2. successes[b] <= Enough /\ successes[b] \in Nat
    BY <1>0, <1>2, <2>1, Limits DEF Exhausted, Typed, TypeOK, ServiceTyped
  <2>3. Cardinality(Connections(b)') <= Concurrency /\ Cardinality(Connections(b)') \in Nat
    <3>1. Connections(b)' \subseteq Running("attempt")
      BY <1>0, <2>1, ServiceAssumption DEF Connections, Running, Live, Kind, Moves
    <3>2. Cardinality(Running("attempt")) <= Concurrency
      BY DEF Inv, Books, Limit
    <3>3. Running("attempt") \in SUBSET Jobs
      BY DEF Running, Live
    <3>. QED BY <3>1, <3>2, <3>3, Fewer, Limits
  <2>4. \A c \in Bounties \ {b} : Connections(c)' = Connections(c)
    BY <1>0, <2>1 DEF Connections, Moves
  <2>5. \A c \in Bounties :
          /\ successes'[c] <= Enough + Concurrency /\ counts'[c] <= Enough + Concurrency
          /\ Connections(c)' # {} =>
               successes'[c] + Cardinality(Connections(c)') <= Enough + Concurrency
    <3>. TAKE c \in Bounties
    <3>1. CASE c = b
      BY <1>0, <2>2, <2>3, <3>1, Limits DEF Inv, Spent
    <3>2. CASE c # b
      BY <1>0, <2>4, <3>2 DEF Inv, Spent
    <3>. QED BY <3>1, <3>2
  <2>6. \A i \in DOMAIN frames' :
          (\E k \in DOMAIN frames : frames'[i] = frames[k]) \/ frames'[i].type # "capture"
    <3>1. Started(j) \in Frames /\ Started(j).type = "started"
      BY <2>1, FramesTyped
    <3>. QED BY <1>0, <1>2, <3>1, Emitted
  <2>7. Live' = Live
    BY <1>0, <2>1 DEF Live, Moves
  <2>. HIDE DEF b
  <2>. QED BY <1>0, <2>5, <2>6, <2>7 DEF Inv, Spent
<1>. QED BY <1>1, <1>2 DEF started

LEMMA CaptureSpent ==
  ASSUME Inv, NEW j \in Jobs, capture(j), Moves(j)
  PROVE  Spent'
<1>. DEFINE b == Bounty[j]
<1>0. Typed /\ Attempts \subseteq Jobs /\ UNCHANGED <<process, counts, commands>> /\ process = "up"
  BY Lives DEF Inv, Jobs, capture, AttemptStep, Moves, poolVars
<1>1. j \in Attempts /\ b \in Bounties /\ jobs[j].stage = "open"
  BY <1>0, ServiceAssumption DEF capture, Typed, Connected
<1>2. PICK captured \in BOOLEAN :
        LET n   == IF captured THEN Counted(Bounty[j]) ELSE successes[Bounty[j]]
            job == [jobs[j] EXCEPT !.captured = captured, !.count = n,
                                   !.stage = IF captured THEN "verifying" ELSE "concluding"]
        IN  /\ successes' = [successes EXCEPT ![Bounty[j]] = n]
            /\ jobs' = [jobs EXCEPT ![j] = job]
            /\ Emit(Capture(j, job))
  BY DEF capture
<1>. DEFINE n   == IF captured THEN Counted(b) ELSE successes[b]
            job == [jobs[j] EXCEPT !.captured = captured, !.count = n,
                                   !.stage = IF captured THEN "verifying" ELSE "concluding"]
<1>3. /\ n \in 0..MaxCount /\ n <= successes[b] + 1 /\ successes[b] <= n
      /\ successes \in [Bounties -> 0..MaxCount]
  BY <1>0, <1>1, CountedTyped DEF Typed, TypeOK, ServiceTyped
<1>4. job.stage \in {"verifying", "concluding"} /\ job.count = n
      /\ job.started \in BOOLEAN /\ job.captured \in BOOLEAN
  <2>. HIDE DEF n
  <2>. QED BY <1>0, JobTyped DEF JobSet
<1>5. /\ successes' = [successes EXCEPT ![b] = n] /\ jobs' = [jobs EXCEPT ![j] = job]
      /\ Emit(Capture(j, job))
  BY <1>2
<1>. HIDE DEF n, job
<1>6. Capture(j, job) \in Frames /\ Capture(j, job).id = j
      /\ Capture(j, job).fields.count = n
  <2>1. Fields(j, job) \in FieldSet
    BY <1>0, <1>1, <1>3, <1>4, FieldsTyped
  <2>2. Fields(j, job).count = n
    <3>1. n # None
      BY <1>3, ServiceAssumption
    <3>. QED BY <1>4, <3>1 DEF Fields
  <2>. QED BY <1>1, <2>1, <2>2, FramesTyped
<1>7. jobs'[j].stage \in {"verifying", "concluding"} /\ \A k \in Jobs \ {j} : jobs'[k] = jobs[k]
  BY <1>0, <1>4, <1>5, JobTyped
<1>8. Connections(b)' = Connections(b) \ {j} /\ j \in Connections(b)
      /\ \A c \in Bounties \ {b} : Connections(c)' = Connections(c)
  <2>1. Connections(b)' = Connections(b) \ {j} /\ j \in Connections(b)
    BY <1>0, <1>1, <1>7 DEF Connections
  <2>2. \A c \in Bounties \ {b} : Connections(c)' = Connections(c)
    BY <1>0, <1>1, <1>7 DEF Connections
  <2>. QED BY <2>1, <2>2
<1>9. Cardinality(Connections(b)') = Cardinality(Connections(b)) - 1
      /\ Cardinality(Connections(b)) \in Nat \ {0}
  <2>1. IsFiniteSet(Connections(b)) /\ Cardinality(Connections(b)) \in Nat
    BY ConnectionsFinite
  <2>2. Cardinality(Connections(b) \ {j}) = Cardinality(Connections(b)) - 1
    BY <1>8, <2>1, FS_RemoveElement
  <2>3. Cardinality(Connections(b)) # 0
    BY <1>8, <2>1, FS_EmptySet
  <2>. QED BY <1>8, <2>1, <2>2, <2>3
<1>10. n <= Enough + Concurrency
  BY <1>1, <1>3, <1>8, <1>9, Limits DEF Inv, Spent
<1>11. \A c \in Bounties :
         /\ successes'[c] <= Enough + Concurrency /\ counts'[c] <= Enough + Concurrency
         /\ Connections(c)' # {} =>
              successes'[c] + Cardinality(Connections(c)') <= Enough + Concurrency
  <2>. TAKE c \in Bounties
  <2>1. CASE c = b
    <3>1. successes'[b] = n
      BY <1>1, <1>3, <1>5
    <3>2. successes[b] + Cardinality(Connections(b)) <= Enough + Concurrency
      BY <1>1, <1>8 DEF Inv, Spent
    <3>. QED BY <1>0, <1>1, <1>3, <1>9, <1>10, <2>1, <3>1, <3>2, Limits DEF Inv, Spent
  <2>2. CASE c # b
    BY <1>0, <1>3, <1>5, <1>8, <2>2 DEF Inv, Spent
  <2>. QED BY <2>1, <2>2
<1>12. \A c \in Bounties : successes[c] <= successes'[c] /\ successes'[b] = n /\ successes'[c] \in Nat
  BY <1>1, <1>3, <1>5
<1>13. \A i \in DOMAIN frames' :
         frames'[i].type = "capture" /\ frames'[i].fields.captured =>
           /\ frames'[i].fields.count <= Enough + Concurrency
           /\ process' = "up" => frames'[i].fields.count <= successes'[Bounty[frames'[i].id]]
  <2>. TAKE i \in DOMAIN frames'
  <2>1. CASE frames'[i] = Capture(j, job)
    <3>1. n <= n
      BY <1>3
    <3>. QED BY <1>1, <1>6, <1>10, <1>12, <2>1, <3>1
  <2>2. CASE \E k \in DOMAIN frames : frames'[i] = frames[k]
    <3>1. PICK k \in DOMAIN frames : frames'[i] = frames[k]
      BY <2>2
    <3>2. HAVE frames'[i].type = "capture" /\ frames'[i].fields.captured
    <3>3. frames[k] \in Frames
      BY <1>0, Piped
    <3>4. Bounty[frames[k].id] \in Bounties /\ frames[k].fields.count \in Nat
      <4>1. frames[k].id \in Attempts /\ frames[k].fields \in FieldSet
        BY <3>1, <3>2, <3>3, FrameFacts
      <4>. QED BY <4>1, ServiceAssumption, Limits DEF FieldSet
    <3>5. frames[k].fields.count <= Enough + Concurrency
          /\ frames[k].fields.count <= successes[Bounty[frames[k].id]]
      BY <1>0, <3>1, <3>2 DEF Inv, Spent
    <3>6. successes[Bounty[frames[k].id]] \in Nat
      BY <1>3, <3>4
    <3>. QED BY <1>12, <3>1, <3>4, <3>5, <3>6
  <2>. QED BY <1>0, <1>5, <1>6, <2>1, <2>2, Emitted
<1>14. \A c \in Bounties : counts[c] \in Nat /\ successes[c] \in Nat
  BY <1>0, <1>3 DEF Typed, TypeOK
<1>15. \A i \in DOMAIN commands' :
         commands'[i].type = "request" /\ commands'[i].id \in Attempts =>
           LET c == Bounty[commands'[i].id] IN
           /\ commands'[i].count <= counts'[c]
           /\ process' = "up" => counts'[c] <= commands'[i].count \/ counts'[c] <= successes'[c]
  <2>. TAKE i \in DOMAIN commands'
  <2>. HAVE commands'[i].type = "request" /\ commands'[i].id \in Attempts
  <2>. DEFINE c == Bounty[commands[i].id]
  <2>1. c \in Bounties /\ commands' = commands
    BY <1>0, ServiceAssumption
  <2>2. commands[i].count <= counts[c] /\ (counts[c] <= commands[i].count \/ counts[c] <= successes[c])
    BY <1>0, <2>1 DEF Inv, Spent
  <2>. HIDE DEF c
  <2>3. counts[c] <= commands[i].count \/ counts[c] <= successes'[c]
    BY <1>12, <1>14, <2>1, <2>2
  <2>. QED BY <1>0, <2>1, <2>2, <2>3 DEF c
<1>16. \A k \in Live' \cap Attempts : counts'[Bounty[k]] <= successes'[Bounty[k]]
  <2>. TAKE k \in Live' \cap Attempts
  <2>1. k \in Live /\ Bounty[k] \in Bounties
    BY <1>0, <1>1, <1>7, ServiceAssumption DEF Live
  <2>2. counts[Bounty[k]] <= successes[Bounty[k]]
    BY <2>1 DEF Inv, Spent
  <2>. QED BY <1>0, <1>12, <1>14, <2>1, <2>2
<1>. HIDE DEF b
<1>. QED BY <1>11, <1>13, <1>15, <1>16 DEF Spent

-----------------------------------------------------------------------------
(* Steps of the process.                                                   *)

LEMMA NoPause ==
  /\ NoJob \in JobSet /\ NoJob.stage = "none"
BY DEF NoJob, JobSet, Stages

LEMMA LeaveKeeps ==
  ASSUME Inv, NEW j \in Jobs, leave(j), UNCHANGED poolVars
  PROVE  Inv'
<1>0. /\ jobs[j].stage = "leaving" /\ jobs' = [jobs EXCEPT ![j] = NoJob] /\ cancelled' = cancelled \ {j}
      /\ active' = [active EXCEPT ![Kind(j)] = @ - 1]
      /\ UNCHANGED <<process, pending, dns, successes, commands, frames, pool, requests, aborted, counts>>
  BY DEF leave, poolVars
<1>1. jobs \in [Jobs -> JobSet] /\ jobs' \in [Jobs -> JobSet] /\ jobs'[j].stage = "none"
      /\ \A k \in Jobs \ {j} : jobs'[k] = jobs[k]
  BY <1>0, NoPause, JobTyped DEF Inv
<1>2. Live' = Live \ {j} /\ j \in Live /\ Queued' = Queued /\ Working' = Working
  BY <1>0, <1>1 DEF Live, Queued, Working
<1>3. /\ Running(Kind(j))' = Running(Kind(j)) \ {j} /\ j \in Running(Kind(j))
      /\ \A kind : kind # Kind(j) => Running(kind)' = Running(kind)
  BY <1>0, <1>1 DEF Running, Live, Kind
<1>4. active'[Kind(j)] = active[Kind(j)] - 1 /\ active'[Kind(j)] = Cardinality(Running(Kind(j))')
      /\ active'[Kind(j)] \in Nat
      /\ \A kind \in {"attempt", "resolve"} : kind # Kind(j) => active'[kind] = active[kind]
  <2>1. Running(Kind(j)) \in SUBSET Jobs
    BY DEF Running, Live
  <2>2. IsFiniteSet(Running(Kind(j))) /\ IsFiniteSet(Running(Kind(j)) \ {j})
        /\ Cardinality(Running(Kind(j)) \ {j}) = Cardinality(Running(Kind(j))) - 1
        /\ Cardinality(Running(Kind(j)) \ {j}) \in Nat
    BY <1>3, <2>1, JobsFinite, FS_RemoveElement
  <2>3. active[Kind(j)] = Cardinality(Running(Kind(j))) /\ active \in [{"attempt", "resolve"} -> Nat]
    BY Kinds DEF Inv, Books, Typed
  <2>. QED BY <1>0, <1>3, <2>2, <2>3, Kinds
<1>5. active' \in [{"attempt", "resolve"} -> Nat]
  BY <1>0, <1>4, Kinds DEF Inv, Typed
<1>6. Typed'
  <2>1. ServiceTyped'
    BY <1>0, <1>1, <1>2 DEF Inv, Typed, TypeOK, ServiceTyped, JobSet
  <2>. QED BY <1>0, <1>1, <1>5, <2>1 DEF Inv, Typed, TypeOK, Open, Connected
<1>7. Phased'
  <2>1. process = "up"
    BY <1>0, Lives
  <2>. QED BY <1>0, <2>1 DEF Inv, Phased, Listening, Open
<1>8. Books'
  <2>1. \A kind \in {"attempt", "resolve"} :
          active'[kind] = Cardinality(Running(kind)') /\ active'[kind] <= Limit[kind]
    <3>. TAKE kind \in {"attempt", "resolve"}
    <3>1. active[kind] = Cardinality(Running(kind)) /\ active[kind] <= Limit[kind] /\ active[kind] \in Nat
          /\ Limit[kind] \in Nat
      BY Limits DEF Inv, Books, Typed, Limit
    <3>2. CASE kind = Kind(j)
      BY <1>4, <3>1, <3>2
    <3>3. CASE kind # Kind(j)
      BY <1>3, <1>4, <3>1, <3>3
    <3>. QED BY <3>2, <3>3
  <2>. QED BY <1>0, <1>2, <2>1 DEF Inv, Books
<1>9. Apart'
  BY <1>0, <1>2 DEF Inv, Apart
<1>10. Held'
  BY <1>0, <1>2, Sets DEF Inv, Held, Open
<1>11. Spent'
  BY <1>0, <1>1, SpentIdle
<1>. QED BY <1>6, <1>7, <1>8, <1>9, <1>10, <1>11 DEF Inv

LEMMA ThreadKeeps ==
  ASSUME Inv, NEW j \in Jobs, Thread(j), UNCHANGED poolVars
  PROVE  Inv'
<1>1. CASE leave(j)
  BY <1>1, LeaveKeeps
<1>2. CASE ~leave(j)
  <2>1. Moves(j)
    BY <1>2, ThreadMoves
  <2>2. Typed' /\ Phased' /\ Books' /\ Apart' /\ Held'
    BY <2>1, MovesKeep
  <2>3. Spent'
    <3>1. CASE started(j)
      BY <2>1, <3>1, StartedSpent
    <3>2. CASE capture(j)
      BY <2>1, <3>2, CaptureSpent
    <3>3. CASE lookUp(j) \/ resolved(j) \/ begin(j) \/ verify(j) \/ conclude(j)
      <4>0. Typed /\ UNCHANGED <<process, successes, counts, commands>>
        BY <3>3, <2>1
           DEF Inv, lookUp, resolved, begin, verify, conclude, AttemptStep, Moves, poolVars
      <4>1. jobs'[j].stage # "open"
        <5>1. CASE lookUp(j) \/ resolved(j) \/ begin(j) \/ conclude(j)
          BY <4>0, <5>1, AdvanceTyped DEF lookUp, resolved, begin, conclude, Stages
        <5>2. CASE verify(j)
          <6>1. PICK proof \in BOOLEAN :
                  jobs' = [jobs EXCEPT ![j].stage = "concluding", ![j].proof = proof]
            BY <5>2 DEF verify
          <6>. QED BY <4>0, <6>1, JobTyped DEF JobSet
        <5>. QED BY <3>3, <5>1, <5>2
      <4>2. \A i \in DOMAIN frames' :
              (\E k \in DOMAIN frames : frames'[i] = frames[k]) \/ frames'[i].type # "capture"
        <5>1. CASE UNCHANGED frames
          BY <5>1
        <5>2. CASE jobs'[j].stage = "leaving"
          <6>1. PICK f \in Frames : Emit(f) /\ f.type \in Finals
            BY <2>1, <5>2 DEF Moves
          <6>. QED BY <4>0, <6>1, Emitted DEF Finals
        <5>3. CASE lookUp(j) \/ resolved(j) \/ conclude(j)
          <6>1. jobs'[j].stage = "leaving" \/ UNCHANGED frames
            BY <4>0, <5>3, AdvanceTyped DEF lookUp, resolved, conclude, Stages
          <6>. QED BY <5>1, <5>2, <6>1
        <5>4. CASE begin(j) \/ verify(j)
          BY <5>1, <5>4 DEF begin, verify
        <5>. QED BY <3>3, <5>3, <5>4
      <4>. QED BY <2>1, <4>0, <4>1, <4>2, SpentIdle DEF Moves
    <3>. QED BY <1>2, <3>1, <3>2, <3>3 DEF Thread
  <2>. QED BY <2>2, <2>3 DEF Inv
<1>. QED BY <1>1, <1>2

LEMMA ExpiresKeeps ==
  ASSUME Inv, NEW d \in Domains, expires(d), UNCHANGED poolVars
  PROVE  Inv'
<1>0. /\ UNCHANGED <<process, jobs, cancelled, pending, active, successes, commands, frames,
                     pool, requests, aborted, counts>>
      /\ dns' \subseteq dns /\ dns # {}
  BY DEF expires, poolVars
<1>1. Spent'
  BY <1>0, SpentIdle
<1>2. process = "up"
  BY <1>0 DEF Inv, Phased, Fresh
<1>3. Typed' /\ Phased'
  BY <1>0, <1>2 DEF Inv, Typed, TypeOK, ServiceTyped, Phased, Open, Listening, Live
<1>4. Books' /\ Apart' /\ Held'
  <2>1. Live' = Live /\ Queued' = Queued /\ Working' = Working /\ \A kind : Running(kind)' = Running(kind)
    BY <1>0 DEF Live, Queued, Working, Running
  <2>. QED BY <1>0, <2>1, Sets DEF Inv, Books, Apart, Held, Open
<1>. QED BY <1>1, <1>3, <1>4 DEF Inv

LEMMA QueuedFinite == Queued \in SUBSET Jobs /\ IsFiniteSet(Queued) /\ Cardinality(Queued) \in Nat
BY JobsFinite DEF Queued, Live

\* The queue without a job that waits.
LEMMA Dequeued ==
  ASSUME Inv, NEW j \in Queued
  PROVE  /\ Without(j) \in Seq(Jobs) /\ Distinct(Without(j))
         /\ Len(Without(j)) = Cardinality(Queued \ {j})
         /\ \A k : k \in Queued \ {j} <=> \E i \in DOMAIN Without(j) : Without(j)[i] = k
<1>1. pending \in Seq(Jobs) /\ Distinct(pending) /\ Len(pending) = Cardinality(Queued)
      /\ \A k : k \in Queued <=> \E i \in DOMAIN pending : pending[i] = k
  BY DEF Inv, Typed, Books
<1>2. PICK i \in DOMAIN pending : pending[i] = j
  BY <1>1
<1>3. Cardinality(Queued \ {j}) = Cardinality(Queued) - 1
  BY QueuedFinite, FS_RemoveElement
<1>4. /\ Without(j) \in Seq(Jobs) /\ Len(Without(j)) = Len(pending) - 1 /\ Distinct(Without(j))
      /\ \A k : (\E l \in DOMAIN Without(j) : Without(j)[l] = k)
                  <=> k # j /\ \E l \in DOMAIN pending : pending[l] = k
  BY <1>1, <1>2, Removed
<1>. QED BY <1>1, <1>3, <1>4

LEMMA ScheduleKeeps ==
  ASSUME Inv, NEW j \in Jobs, schedule(j), UNCHANGED poolVars
  PROVE  Inv'
<1>0. /\ pending' = Without(j) /\ Advance(j, "running") /\ Free(j)
      /\ active' = [active EXCEPT ![Kind(j)] = @ + 1]
      /\ UNCHANGED <<process, cancelled, dns, successes, commands, frames, pool, requests, aborted, counts>>
      /\ j \in Queued
  BY DEF schedule, poolVars, Inv, Books
<1>1. jobs' \in [Jobs -> JobSet] /\ jobs'[j].stage = "running" /\ jobs[j].stage = "queued"
      /\ \A k \in Jobs \ {j} : jobs'[k] = jobs[k]
  BY <1>0, AdvanceTyped DEF Inv, Stages, Queued
<1>2. Live' = Live /\ j \in Live /\ Queued' = Queued \ {j} /\ Working' = Working
  BY <1>0, <1>1 DEF Live, Queued, Working
<1>3. /\ Running(Kind(j))' = Running(Kind(j)) \cup {j} /\ j \notin Running(Kind(j))
      /\ \A kind : kind # Kind(j) => Running(kind)' = Running(kind)
  BY <1>0, <1>1 DEF Running, Live, Kind
<1>4. active'[Kind(j)] = active[Kind(j)] + 1 /\ active'[Kind(j)] = Cardinality(Running(Kind(j))')
      /\ active'[Kind(j)] \in Nat /\ active'[Kind(j)] <= Limit[Kind(j)]
      /\ \A kind \in {"attempt", "resolve"} : kind # Kind(j) => active'[kind] = active[kind]
  <2>1. Running(Kind(j)) \in SUBSET Jobs
    BY DEF Running, Live
  <2>2. Cardinality(Running(Kind(j)) \cup {j}) = Cardinality(Running(Kind(j))) + 1
    BY <1>3, <2>1, JobsFinite, FS_AddElement
  <2>3. active[Kind(j)] = Cardinality(Running(Kind(j))) /\ active \in [{"attempt", "resolve"} -> Nat]
    BY Kinds DEF Inv, Books, Typed
  <2>. QED BY <1>0, <1>3, <2>2, <2>3, Kinds DEF Free
<1>5. active' \in [{"attempt", "resolve"} -> Nat]
  BY <1>0, <1>4, Kinds DEF Inv, Typed
<1>6. Typed'
  <2>1. ServiceTyped'
    BY <1>0, <1>1, <1>2 DEF Inv, Typed, TypeOK, ServiceTyped, JobSet
  <2>2. pending' \in Seq(Jobs)
    BY <1>0, Dequeued
  <2>. QED BY <1>0, <1>1, <1>5, <2>1, <2>2 DEF Inv, Typed, TypeOK, Open, Connected
<1>7. Phased'
  <2>1. process = "up"
    BY DEF schedule
  <2>. QED BY <1>0, <2>1 DEF Inv, Phased, Listening, Open
<1>8. Books'
  <2>1. \A kind \in {"attempt", "resolve"} :
          active'[kind] = Cardinality(Running(kind)') /\ active'[kind] <= Limit[kind]
    BY <1>3, <1>4 DEF Inv, Books
  <2>. QED BY <1>0, <1>2, <2>1, Dequeued DEF Books
<1>9. Apart'
  BY <1>0, <1>2 DEF Inv, Apart
<1>10. Held'
  BY <1>0, <1>2, Sets DEF Inv, Held, Open
<1>11. Spent'
  BY <1>0, <1>1, SpentIdle
<1>. QED BY <1>6, <1>7, <1>8, <1>9, <1>10, <1>11 DEF Inv

\* What is left of the commands when the first one is read.
LEMMA CommandRead ==
  ASSUME Inv, commands # <<>>, commands' = Tail(commands)
  PROVE  /\ Head(commands) \in Commands /\ Head(commands).id \in Jobs
         /\ commands' \in Seq(Commands) /\ Len(commands') <= MaxPipe /\ Once(commands', {"request"})
         /\ Head(commands).type = "request" =>
              /\ Ids(commands', {"request"}) = Ids(commands, {"request"}) \ {Head(commands).id}
              /\ Head(commands).id \in Ids(commands, {"request"})
         /\ Head(commands).type # "request" =>
              Ids(commands', {"request"}) = Ids(commands, {"request"})
         /\ \A i \in DOMAIN commands' : \E k \in DOMAIN commands : commands'[i] = commands[k]
         /\ \E k \in DOMAIN commands : commands[k] = Head(commands)
<1>1. commands \in Seq(Commands) /\ Len(commands) <= MaxPipe /\ Once(commands, {"request"})
      /\ Len(commands) \in Nat /\ MaxPipe \in Nat
  BY Limits DEF Inv, Typed, TypeOK, ServiceTyped, Apart
<1>2. /\ Ids(commands, {"request"}) = Ids(Tail(commands), {"request"})
                              \cup (IF Head(commands).type \in {"request"} THEN {Head(commands).id} ELSE {})
      /\ Once(Tail(commands), {"request"})
      /\ Head(commands).type \in {"request"} => Head(commands).id \notin Ids(Tail(commands), {"request"})
  BY <1>1, IdsTail
<1>3. Tail(commands) \in Seq(Commands) /\ Head(commands) \in Commands
      /\ Len(Tail(commands)) = Len(commands) - 1
      /\ \A i \in DOMAIN Tail(commands) : i + 1 \in DOMAIN commands /\ Tail(commands)[i] = commands[i + 1]
  BY <1>1, IdsTail
<1>4. Head(commands).id \in Jobs
  BY <1>3 DEF Commands
<1>5. 1 \in DOMAIN commands /\ commands[1] = Head(commands)
  BY <1>1
<1>6. Len(commands') <= MaxPipe
  BY <1>1, <1>3
<1>. QED BY <1>2, <1>3, <1>4, <1>5, <1>6

LEMMA AcceptKeeps ==
  ASSUME Inv, accept, UNCHANGED poolVars
  PROVE  Inv'
<1>. DEFINE j == Head(commands).id
            n == Head(commands).count
<1>0. /\ process = "up" /\ commands # <<>> /\ Head(commands).type = "request"
      /\ commands' = Tail(commands) /\ UNCHANGED <<pool, requests, aborted, counts>>
  BY DEF accept, poolVars
<1>1. CASE process' = "dead" /\ Ends /\ Emit([type |-> "error", id |-> None])
  <2>1. pool' \in {"none", "starting", "ready", "failed", "closing"}
    BY <1>0 DEF Inv, Typed, TypeOK
  <2>2. Typed' /\ Books' /\ Apart' /\ Held' /\ Spent'
    BY <1>0, <1>1, <2>1, EndKeeps
  <2>3. Phased'
    BY <1>0, <1>1 DEF Inv, Phased, Ends, Fresh, Listening, Open
  <2>. QED BY <2>2, <2>3 DEF Inv
<1>2. CASE /\ jobs' = [jobs EXCEPT ![j].stage = "queued"]
           /\ pending' = Append(pending, j)
           /\ successes' = IF j \in Attempts /\ n > successes[Bounty[j]]
                           THEN [successes EXCEPT ![Bounty[j]] = n] ELSE successes
           /\ UNCHANGED <<process, cancelled, active, dns, frames>>
  <2>1. /\ Head(commands) \in Commands /\ j \in Jobs /\ j \in Ids(commands, {"request"})
        /\ commands' \in Seq(Commands) /\ Len(commands') <= MaxPipe /\ Once(commands', {"request"})
        /\ Ids(commands', {"request"}) = Ids(commands, {"request"}) \ {j}
        /\ \A i \in DOMAIN commands' : \E k \in DOMAIN commands : commands'[i] = commands[k]
        /\ \E k \in DOMAIN commands : commands[k] = Head(commands)
    BY <1>0, CommandRead
  <2>2. n \in 0..MaxCount
    BY <2>1 DEF Commands
  <2>. HIDE DEF j, n
  <2>3. jobs[j].stage = "none" /\ j \notin Named(frames) /\ j \notin Live /\ j \notin Working
    <3>1. j \notin Live /\ j \notin Named(frames)
      BY <2>1 DEF Inv, Apart
    <3>. QED BY <2>1, <3>1 DEF Live, Working
  <2>4. jobs' \in [Jobs -> JobSet] /\ jobs'[j].stage = "queued"
        /\ \A k \in Jobs \ {j} : jobs'[k] = jobs[k]
    BY <1>2, <2>1, JobTyped DEF Inv, JobSet, Stages
  <2>5. /\ Live' = Live \cup {j} /\ Queued' = Queued \cup {j} /\ j \notin Queued
        /\ Working' = Working \cup {j}
        /\ \A kind : Running(kind)' = Running(kind)
    <3>1. Live' = Live \cup {j} /\ Queued' = Queued \cup {j} /\ j \notin Queued
      BY <2>1, <2>3, <2>4 DEF Live, Queued
    <3>2. Working' = Working \cup {j}
      BY <2>1, <2>3, <2>4 DEF Live, Working
    <3>3. \A kind : Running(kind)' = Running(kind)
      BY <2>1, <2>3, <2>4 DEF Live, Running
    <3>. QED BY <3>1, <3>2, <3>3
  <2>6. /\ pending' \in Seq(Jobs) /\ Len(pending') = Len(pending) + 1 /\ Distinct(pending')
        /\ \A k : k \in Queued' <=> \E i \in DOMAIN pending' : pending'[i] = k
    <3>1. pending \in Seq(Jobs) /\ Distinct(pending)
          /\ \A k : k \in Queued <=> \E i \in DOMAIN pending : pending[i] = k
      BY DEF Inv, Typed, Books
    <3>2. /\ pending' \in Seq(Jobs) /\ Len(pending') = Len(pending) + 1
          /\ \A i \in DOMAIN pending' :
               (i \in DOMAIN pending /\ pending'[i] = pending[i])
                 \/ (i = Len(pending) + 1 /\ pending'[i] = j)
          /\ \A i \in DOMAIN pending : i \in DOMAIN pending' /\ pending'[i] = pending[i]
          /\ pending'[Len(pending) + 1] = j /\ Len(pending) + 1 \in DOMAIN pending'
      BY <1>2, <2>1, <3>1, Appended
    <3>3. \A i \in DOMAIN pending : pending[i] # j
      BY <2>5, <3>1
    <3>4. Distinct(pending')
      BY <3>1, <3>2, <3>3 DEF Distinct
    <3>. QED BY <2>5, <3>1, <3>2, <3>4
  <2>7. /\ successes' \in [Bounties -> 0..MaxCount]
        /\ \A b \in Bounties : successes[b] <= successes'[b]
        /\ j \in Attempts => Bounty[j] \in Bounties /\ n <= successes'[Bounty[j]]
        /\ \A b \in Bounties : successes'[b] = successes[b]
                                 \/ (j \in Attempts /\ b = Bounty[j] /\ successes'[b] = n)
        /\ successes \in [Bounties -> 0..MaxCount]
    <3>1. successes \in [Bounties -> 0..MaxCount] /\ (j \in Attempts => Bounty[j] \in Bounties)
      BY ServiceAssumption DEF Inv, Typed, TypeOK, ServiceTyped
    <3>2. CASE j \in Attempts /\ n > successes[Bounty[j]]
      <4>1. successes' = [successes EXCEPT ![Bounty[j]] = n]
        BY <1>2, <3>2
      <4>. QED BY <2>2, <3>1, <3>2, <4>1
    <3>3. CASE ~(j \in Attempts /\ n > successes[Bounty[j]])
      <4>1. successes' = successes
        BY <1>2, <3>3
      <4>2. j \in Attempts => n <= successes[Bounty[j]]
        BY <2>2, <3>1, <3>3
      <4>. QED BY <2>2, <3>1, <4>1, <4>2
    <3>. QED BY <3>2, <3>3
  <2>8. Typed'
    <3>1. ServiceTyped'
      BY <1>2, <2>1, <2>4, <2>5, <2>7 DEF Inv, Typed, TypeOK, ServiceTyped, JobSet
    <3>2. j \notin cancelled
      BY <2>3 DEF Inv, Typed, TypeOK, ServiceTyped
    <3>. QED BY <1>0, <1>2, <2>1, <2>4, <2>6, <3>1, <3>2 DEF Inv, Typed, TypeOK, Open, Connected
  <2>9. Phased'
    BY <1>0, <1>2 DEF Inv, Phased, Listening, Open
  <2>10. Books'
    <3>1. Cardinality(Queued') = Cardinality(Queued) + 1
      BY <2>5, QueuedFinite, FS_AddElement
    <3>. QED BY <1>2, <2>5, <2>6, <3>1 DEF Inv, Books
  <2>11. Apart'
    <3>1. Ids(frames, Finals) \subseteq Named(frames)
      BY DEF Ids, Named
    <3>. QED BY <1>2, <2>1, <2>3, <2>5, <3>1 DEF Inv, Apart
  <2>12. Held'
    BY <1>0, <1>2, <2>1, <2>5, Sets DEF Inv, Held, Open
  <2>13. Spent'
    <3>0. Typed /\ Attempts \subseteq Jobs /\ counts \in [Bounties -> 0..MaxCount]
      BY DEF Inv, Jobs, Typed, TypeOK
    <3>1. j \in Attempts =>
            /\ n <= counts[Bounty[j]] /\ n <= Enough + Concurrency
            /\ counts[Bounty[j]] <= n \/ counts[Bounty[j]] <= successes[Bounty[j]]
      <4>1. j \in Attempts => n <= counts[Bounty[j]]
                            /\ (counts[Bounty[j]] <= n \/ counts[Bounty[j]] <= successes[Bounty[j]])
        BY <1>0, <2>1 DEF Inv, Spent, j, n
      <4>. QED BY <2>2, <2>7, <3>0, <4>1, Limits DEF Inv, Spent
    <3>2. \A b \in Bounties : Connections(b)' = Connections(b)
      BY <2>3, <2>4, <3>0 DEF Connections
    <3>3. \A b \in Bounties :
            /\ successes'[b] <= Enough + Concurrency /\ counts'[b] <= Enough + Concurrency
            /\ Connections(b)' # {} =>
                 successes'[b] + Cardinality(Connections(b)') <= Enough + Concurrency
      <4>. TAKE b \in Bounties
      <4>1. CASE successes'[b] = successes[b]
        BY <1>0, <3>2, <4>1 DEF Inv, Spent
      <4>2. CASE j \in Attempts /\ b = Bounty[j] /\ successes'[b] = n /\ successes[b] # n
        <5>1. Connections(b) # {} => counts[b] <= successes[b]
          BY <3>0 DEF Inv, Spent, Connections, Live
        <5>2. Connections(b) = {}
          BY <2>2, <2>7, <3>0, <3>1, <4>2, <5>1
        <5>. QED BY <1>0, <3>1, <3>2, <4>2, <5>2 DEF Inv, Spent
      <4>. QED BY <2>7, <4>1, <4>2
    <3>4. \A i \in DOMAIN frames' :
            frames'[i].type = "capture" /\ frames'[i].fields.captured =>
              /\ frames'[i].fields.count <= Enough + Concurrency
              /\ process' = "up" => frames'[i].fields.count <= successes'[Bounty[frames'[i].id]]
      <4>. TAKE i \in DOMAIN frames'
      <4>. HAVE frames'[i].type = "capture" /\ frames'[i].fields.captured
      <4>1. frames' = frames /\ process = "up"
        BY <1>0, <1>2
      <4>2. Bounty[frames[i].id] \in Bounties /\ frames[i].fields.count \in Nat
        <5>1. frames[i].id \in Attempts /\ frames[i].fields \in FieldSet
          BY <3>0, <4>1, Piped, FrameFacts
        <5>. QED BY <5>1, ServiceAssumption, Limits DEF FieldSet
      <4>3. frames[i].fields.count <= Enough + Concurrency
            /\ frames[i].fields.count <= successes[Bounty[frames[i].id]]
        BY <4>1 DEF Inv, Spent
      <4>. QED BY <2>7, <4>1, <4>2, <4>3
    <3>5. \A i \in DOMAIN commands' :
            commands'[i].type = "request" /\ commands'[i].id \in Attempts =>
              LET b == Bounty[commands'[i].id] IN
              /\ commands'[i].count <= counts'[b]
              /\ process' = "up" => counts'[b] <= commands'[i].count \/ counts'[b] <= successes'[b]
      <4>. TAKE i \in DOMAIN commands'
      <4>. HAVE commands'[i].type = "request" /\ commands'[i].id \in Attempts
      <4>1. PICK k \in DOMAIN commands : commands'[i] = commands[k]
        BY <2>1
      <4>. DEFINE b == Bounty[commands[k].id]
      <4>2. b \in Bounties
        BY <4>1, ServiceAssumption
      <4>3. commands[k].count <= counts[b] /\ (counts[b] <= commands[k].count \/ counts[b] <= successes[b])
        BY <1>0, <4>1 DEF Inv, Spent
      <4>. HIDE DEF b
      <4>4. counts[b] <= commands[k].count \/ counts[b] <= successes'[b]
        BY <2>7, <3>0, <4>2, <4>3
      <4>. QED BY <1>0, <4>1, <4>3, <4>4 DEF b
    <3>6. \A k \in Live' \cap Attempts : counts'[Bounty[k]] <= successes'[Bounty[k]]
      <4>. TAKE k \in Live' \cap Attempts
      <4>1. Bounty[k] \in Bounties
        BY ServiceAssumption
      <4>2. CASE k = j
        <5>1. n <= successes'[Bounty[j]] /\ successes[Bounty[j]] <= successes'[Bounty[j]]
          BY <2>7, <4>1, <4>2
        <5>. QED BY <1>0, <2>2, <2>7, <3>0, <3>1, <4>1, <4>2, <5>1
      <4>3. CASE k # j
        <5>1. counts[Bounty[k]] <= successes[Bounty[k]]
          BY <2>5, <4>3 DEF Inv, Spent
        <5>. QED BY <1>0, <2>7, <3>0, <4>1, <5>1
      <4>. QED BY <4>2, <4>3
    <3>. QED BY <3>3, <3>4, <3>5, <3>6 DEF Spent
  <2>. QED BY <2>8, <2>9, <2>10, <2>11, <2>12, <2>13 DEF Inv
<1>. QED BY <1>1, <1>2 DEF accept

LEMMA WithdrawnTyped ==
  ASSUME Typed, NEW j \in Jobs
  PROVE  Withdrawn(j) \in Frames /\ Withdrawn(j).id = j /\ Withdrawn(j).type \in Finals
<1>1. CASE j \in Attempts
  <2>1. Fields(j, jobs[j]) \in FieldSet
    BY <1>1, JobTyped, FieldsTyped
  <2>. QED BY <1>1, <2>1, FramesTyped DEF Withdrawn, Finals
<1>2. CASE j \notin Attempts
  BY <1>2, FramesTyped DEF Withdrawn, Finals, Jobs
<1>. QED BY <1>1, <1>2

LEMMA CancelKeeps ==
  ASSUME Inv, cancel, UNCHANGED poolVars
  PROVE  Inv'
<1>. DEFINE j == Head(commands).id
<1>0. /\ process = "up" /\ commands # <<>> /\ Head(commands).type = "cancel"
      /\ commands' = Tail(commands)
      /\ UNCHANGED <<process, active, dns, successes, pool, requests, aborted, counts>>
  BY DEF cancel, poolVars
<1>1. /\ j \in Jobs /\ commands' \in Seq(Commands) /\ Len(commands') <= MaxPipe
      /\ Once(commands', {"request"}) /\ Ids(commands', {"request"}) = Ids(commands, {"request"})
      /\ \A i \in DOMAIN commands' : \E k \in DOMAIN commands : commands'[i] = commands[k]
  BY <1>0, CommandRead
<1>2. Phased'
  BY <1>0 DEF Inv, Phased, Listening, Open
<1>3. CASE /\ jobs[j].stage = "queued" /\ jobs' = [jobs EXCEPT ![j] = NoJob]
           /\ pending' = Without(j) /\ Emit(Withdrawn(j)) /\ UNCHANGED cancelled
  <2>. HIDE DEF j
  <2>1. jobs' \in [Jobs -> JobSet] /\ jobs'[j].stage = "none" /\ \A k \in Jobs \ {j} : jobs'[k] = jobs[k]
    BY <1>1, <1>3, NoPause, JobTyped DEF Inv
  <2>2. /\ Live' = Live \ {j} /\ Queued' = Queued \ {j} /\ j \in Queued /\ Working' = Working \ {j}
        /\ j \in Working /\ \A kind : Running(kind)' = Running(kind)
    <3>1. Live' = Live \ {j} /\ Queued' = Queued \ {j} /\ j \in Queued
      BY <1>1, <1>3, <2>1 DEF Live, Queued
    <3>2. Working' = Working \ {j} /\ j \in Working
      BY <1>1, <1>3, <2>1 DEF Live, Working
    <3>3. \A kind : Running(kind)' = Running(kind)
      BY <1>1, <1>3, <2>1 DEF Live, Running
    <3>. QED BY <3>1, <3>2, <3>3
  <2>. DEFINE f == Withdrawn(j)
  <2>3. f \in Frames /\ f.id = j /\ f.type \in Finals
    BY <1>1, WithdrawnTyped DEF Inv
  <2>4. frames' = Append(frames, f) /\ Len(frames) < MaxPipe /\ Emit(f)
    BY <1>3 DEF Emit
  <2>. HIDE DEF f, Finals, Frames
  <2>5. /\ frames' \in Seq(Frames) /\ Len(frames') <= MaxPipe
        /\ Ids(frames', Finals) = Ids(frames, Finals) \cup {j} /\ Named(frames') = Named(frames) \cup {j}
        /\ Once(frames', Finals)
    <3>1. frames \in Seq(Frames) /\ j \notin Ids(frames, Finals) /\ Once(frames, Finals)
          /\ Len(frames) \in Nat /\ MaxPipe \in Nat
      BY <2>2, Limits DEF Inv, Typed, Apart
    <3>2. /\ Ids(frames', Finals) = Ids(frames, Finals) \cup (IF f.type \in Finals THEN {f.id} ELSE {})
          /\ Named(frames') = Named(frames) \cup {f.id}
          /\ (f.type \in Finals => f.id \notin Ids(frames, Finals)) => Once(frames', Finals)
      BY <2>3, <2>4, <3>1, IdsAppended
    <3>3. frames' \in Seq(Frames) /\ Len(frames') = Len(frames) + 1
      BY <2>3, <2>4, <3>1
    <3>. QED BY <2>3, <2>4, <3>1, <3>2, <3>3
  <2>6. Typed'
    <3>1. j \notin cancelled
      BY <1>1, <1>3 DEF Inv, Typed
    <3>2. ServiceTyped'
      BY <1>0, <1>1, <1>3, <2>1, <2>2, <2>5, <3>1 DEF Inv, Typed, TypeOK, ServiceTyped, JobSet
    <3>3. pending' \in Seq(Jobs)
      BY <1>3, <2>2, Dequeued
    <3>. QED BY <1>0, <1>1, <1>3, <2>1, <2>5, <3>2, <3>3 DEF Inv, Typed, TypeOK, Open, Connected
  <2>7. Books'
    BY <1>0, <1>3, <2>2, Dequeued DEF Inv, Books
  <2>8. Apart'
    <3>1. /\ Ids(commands, {"request"}) \cap (Live \cup Named(frames)) = {}
          /\ Ids(frames, Finals) \cap Working = {} /\ j \in Live
      BY <2>2 DEF Inv, Apart, Queued
    <3>2. Ids(commands', {"request"}) \cap (Live' \cup Named(frames')) = {}
      BY <1>1, <2>2, <2>5, <3>1
    <3>3. Ids(frames', Finals) \cap Working' = {}
      BY <2>2, <2>5, <3>1
    <3>. QED BY <1>1, <2>5, <3>2, <3>3 DEF Apart
  <2>9. Held'
    BY <1>0, <1>1, <2>2, <2>5, Sets DEF Inv, Held, Open
  <2>10. Spent'
    <3>1. f.type # "capture"
      BY <2>3 DEF Finals
    <3>2. \A i \in DOMAIN frames' :
            (\E k \in DOMAIN frames : frames'[i] = frames[k]) \/ frames'[i].type # "capture"
      BY <2>3, <2>4, <3>1, Emitted DEF Inv
    <3>. QED BY <1>0, <1>1, <2>1, <3>2, SpentIdle
  <2>. QED BY <1>2, <2>6, <2>7, <2>8, <2>9, <2>10 DEF Inv
<1>4. CASE /\ jobs[j].stage # "queued" /\ cancelled' = cancelled \cup ({j} \cap Live)
           /\ UNCHANGED <<jobs, pending, frames>>
  <2>. HIDE DEF j
  <2>1. /\ Live' = Live /\ Queued' = Queued /\ Working' = Working
        /\ \A kind : Running(kind)' = Running(kind)
    BY <1>4 DEF Live, Queued, Working, Running
  <2>2. Typed'
    <3>1. ServiceTyped'
      BY <1>0, <1>1, <1>4, <2>1 DEF Inv, Typed, TypeOK, ServiceTyped
    <3>. QED BY <1>0, <1>1, <1>4, <3>1 DEF Inv, Typed, TypeOK, Open
  <2>3. Books' /\ Apart' /\ Held'
    BY <1>0, <1>1, <1>4, <2>1, Sets DEF Inv, Books, Apart, Held, Open
  <2>4. Spent'
    BY <1>0, <1>1, <1>4, SpentIdle
  <2>. QED BY <1>2, <2>2, <2>3, <2>4 DEF Inv
<1>. QED BY <1>3, <1>4 DEF cancel

-----------------------------------------------------------------------------
(* Steps of the pool.                                                      *)

\* What does not change with the process.
LEMMA SameProcess ==
  ASSUME Inv, UNCHANGED serviceVars
  PROVE  /\ Live' = Live /\ Queued' = Queued /\ Working' = Working
         /\ \A kind : Running(kind)' = Running(kind)
         /\ Books'
<1>1. /\ Live' = Live /\ Queued' = Queued /\ Working' = Working
      /\ \A kind : Running(kind)' = Running(kind)
  BY DEF serviceVars, Live, Queued, Working, Running
<1>. QED BY <1>1 DEF Inv, Books, serviceVars

LEMMA CommandSent ==
  ASSUME Inv, NEW c \in Commands, Len(commands) < MaxPipe, commands' = Append(commands, c)
  PROVE  /\ commands' \in Seq(Commands) /\ Len(commands') <= MaxPipe
         /\ Ids(commands', {"request"}) = Ids(commands, {"request"})
                                            \cup (IF c.type = "request" THEN {c.id} ELSE {})
         /\ (c.type = "request" => c.id \notin Ids(commands, {"request"})) => Once(commands', {"request"})
         /\ \A i \in DOMAIN commands' :
              (\E k \in DOMAIN commands : commands'[i] = commands[k]) \/ commands'[i] = c
<1>1. commands \in Seq(Commands) /\ Once(commands, {"request"}) /\ Len(commands) \in Nat /\ MaxPipe \in Nat
  BY Limits DEF Inv, Typed, Apart
<1>. HIDE DEF Commands
<1>2. /\ Ids(commands', {"request"}) = Ids(commands, {"request"})
                                         \cup (IF c.type \in {"request"} THEN {c.id} ELSE {})
      /\ Once(commands, {"request"}) /\ (c.type \in {"request"} => c.id \notin Ids(commands, {"request"}))
           => Once(commands', {"request"})
  BY <1>1, IdsAppended
<1>3. commands' \in Seq(Commands) /\ Len(commands') = Len(commands) + 1
      /\ \A i \in DOMAIN commands' :
           (i \in DOMAIN commands /\ commands'[i] = commands[i]) \/ (i = Len(commands) + 1 /\ commands'[i] = c)
  BY <1>1, Appended
<1>. QED BY <1>1, <1>2, <1>3

LEMMA RequestKeeps ==
  ASSUME Inv, NEW j \in Jobs, request(j)
  PROVE  Inv'
<1>. DEFINE n == IF j \in Attempts THEN counts[Bounty[j]] ELSE 0
            c == [type |-> "request", id |-> j, count |-> n]
<1>0. /\ pool = "ready" /\ j \notin Open /\ ~Traces(j) /\ Len(commands) < MaxPipe
      /\ requests' = [requests EXCEPT ![j] = [Unasked EXCEPT !.open = TRUE, !.base = n]]
      /\ commands' = Append(commands, c)
      /\ UNCHANGED <<process, serviceVars, frames, pool, aborted, counts>>
  BY DEF request
<1>1. n \in 0..MaxCount /\ (j \in Attempts => n = counts[Bounty[j]] /\ Bounty[j] \in Bounties)
  BY ServiceAssumption, Limits DEF Inv, Typed, TypeOK
<1>2. c \in Commands /\ c.type = "request" /\ c.id = j /\ c.count = n
  <2>. HIDE DEF n
  <2>. QED BY <1>1 DEF Commands
<1>. HIDE DEF n, c
<1>3. j \notin Live /\ j \notin Named(frames) /\ j \notin Ids(commands, {"request"})
  BY <1>0 DEF Traces, Live, Named, Ids
<1>4. /\ commands' \in Seq(Commands) /\ Len(commands') <= MaxPipe /\ Once(commands', {"request"})
      /\ Ids(commands', {"request"}) = Ids(commands, {"request"}) \cup {j}
      /\ \A i \in DOMAIN commands' :
           (\E k \in DOMAIN commands : commands'[i] = commands[k]) \/ commands'[i] = c
  BY <1>0, <1>2, <1>3, CommandSent
<1>5. /\ Live' = Live /\ Queued' = Queued /\ Working' = Working /\ Books'
      /\ \A kind : Running(kind)' = Running(kind)
  BY <1>0, SameProcess
<1>6. /\ requests' \in [Jobs -> [open : BOOLEAN, started : BOOLEAN, base : 0..MaxCount,
                                 capture : [captured : BOOLEAN, count : 0..MaxCount] \cup {None}]]
      /\ Open' = Open \cup {j}
  <2>1. [Unasked EXCEPT !.open = TRUE, !.base = n]
          \in [open : BOOLEAN, started : BOOLEAN, base : 0..MaxCount,
               capture : [captured : BOOLEAN, count : 0..MaxCount] \cup {None}]
        /\ [Unasked EXCEPT !.open = TRUE, !.base = n].open = TRUE
    BY <1>1 DEF Unasked
  <2>. DEFINE q == [Unasked EXCEPT !.open = TRUE, !.base = n]
  <2>. HIDE DEF q
  <2>2. requests' = [requests EXCEPT ![j] = q]
    BY <1>0 DEF q
  <2>3. q.open = TRUE /\ q \in [open : BOOLEAN, started : BOOLEAN, base : 0..MaxCount,
               capture : [captured : BOOLEAN, count : 0..MaxCount] \cup {None}]
    BY <2>1 DEF q
  <2>. QED BY <2>2, <2>3 DEF Inv, Typed, TypeOK, Open
<1>7. Typed'
  <2>1. ServiceTyped'
    BY <1>0, <1>4, <1>5 DEF serviceVars, Inv, Typed, TypeOK, ServiceTyped
  <2>. QED BY <1>0, <1>4, <1>6, <2>1 DEF serviceVars, Inv, Typed, TypeOK
<1>8. Phased'
  BY <1>0 DEF serviceVars, Inv, Phased, Listening
<1>9. Apart'
  BY <1>0, <1>3, <1>4, <1>5 DEF Inv, Apart
<1>10. Held'
  BY <1>0, <1>4, <1>5, <1>6, Sets DEF Inv, Held
<1>11. Spent'
  <2>0. Attempts \subseteq Jobs /\ \A b : Connections(b)' = Connections(b)
    BY <1>0 DEF Jobs, serviceVars, Connections
  <2>1. \A i \in DOMAIN commands' :
          commands'[i].type = "request" /\ commands'[i].id \in Attempts =>
            LET b == Bounty[commands'[i].id] IN
            /\ commands'[i].count <= counts'[b]
            /\ process' = "up" => counts'[b] <= commands'[i].count \/ counts'[b] <= successes'[b]
    <3>. TAKE i \in DOMAIN commands'
    <3>. HAVE commands'[i].type = "request" /\ commands'[i].id \in Attempts
    <3>1. CASE commands'[i] = c
      <4>1. j \in Attempts /\ n = counts[Bounty[j]] /\ n \in Nat
        BY <1>1, <1>2, <3>1, Limits
      <4>2. n <= n
        BY <4>1
      <4>. QED BY <1>0, <1>2, <3>1, <4>1, <4>2
    <3>2. CASE \E k \in DOMAIN commands : commands'[i] = commands[k]
      BY <1>0, <3>2 DEF serviceVars, Inv, Spent
    <3>. QED BY <1>4, <3>1, <3>2
  <2>. QED BY <1>0, <1>5, <2>0, <2>1 DEF serviceVars, Inv, Spent
<1>. QED BY <1>5, <1>7, <1>8, <1>9, <1>10, <1>11 DEF Inv

LEMMA AbortKeeps ==
  ASSUME Inv, NEW j \in Jobs, abort(j)
  PROVE  Inv'
<1>. DEFINE c == [type |-> "cancel", id |-> j, count |-> 0]
<1>0. /\ j \in Open /\ Len(commands) < MaxPipe /\ aborted' = aborted \cup {j}
      /\ commands' = Append(commands, c)
      /\ UNCHANGED <<process, serviceVars, frames, pool, requests, counts>> /\ pool = "ready"
  BY DEF abort
<1>1. c \in Commands /\ c.type = "cancel"
  BY Limits DEF Commands
<1>. HIDE DEF c
<1>2. /\ commands' \in Seq(Commands) /\ Len(commands') <= MaxPipe /\ Once(commands', {"request"})
      /\ Ids(commands', {"request"}) = Ids(commands, {"request"})
      /\ \A i \in DOMAIN commands' :
           (\E k \in DOMAIN commands : commands'[i] = commands[k]) \/ commands'[i] = c
  BY <1>0, <1>1, CommandSent
<1>3. /\ Live' = Live /\ Queued' = Queued /\ Working' = Working /\ Books' /\ Open' = Open
  BY <1>0, SameProcess DEF Open
<1>4. Typed'
  <2>1. ServiceTyped'
    BY <1>0, <1>2, <1>3 DEF serviceVars, Inv, Typed, TypeOK, ServiceTyped
  <2>. QED BY <1>0, <1>2, <1>3, <2>1 DEF serviceVars, Inv, Typed, TypeOK
<1>5. Phased'
  BY <1>0, <1>3 DEF serviceVars, Inv, Phased, Listening
<1>6. Apart' /\ Held'
  BY <1>0, <1>2, <1>3, Sets DEF Inv, Apart, Held
<1>7. Spent'
  BY <1>0, <1>1, <1>2, SpentIdle DEF serviceVars
<1>. QED BY <1>3, <1>4, <1>5, <1>6, <1>7 DEF Inv

LEMMA StartKeeps ==
  ASSUME Inv, start
  PROVE  Inv'
<1>. DEFINE f == [type |-> "ready", id |-> None]
<1>0. /\ pool = "none" /\ process = "gone" /\ pool' = "starting" /\ process' = "up"
      /\ frames' = <<f>> /\ UNCHANGED <<serviceVars, commands, requests, aborted, counts>>
  BY DEF start
<1>1. commands = <<>> /\ Open = {} /\ Fresh(jobs, cancelled, pending, active, dns, successes)
  BY <1>0 DEF Inv, Phased
<1>2. /\ Live' = {} /\ Working' = {} /\ Books' /\ Open' = {} /\ cancelled' = {}
      /\ \A b : Connections(b)' = {}
      /\ \A j \in Jobs : jobs'[j].stage = "none"
  <2>1. /\ \A j \in Jobs : jobs[j].stage = "none"
        /\ Live = {} /\ Working = {} /\ cancelled = {} /\ \A b : Connections(b) = {}
    BY <1>1, FreshFacts
  <2>2. \A b : Connections(b)' = Connections(b)
    BY <1>0 DEF serviceVars, Connections
  <2>. QED BY <1>0, <1>1, <2>1, <2>2, SameProcess DEF serviceVars, Open
<1>3. f \in Frames /\ f.type = "ready" /\ f.id = None
  BY DEF Frames
<1>. HIDE DEF f
<1>4. /\ frames' \in Seq(Frames) /\ Len(frames') <= MaxPipe /\ Once(frames', Finals)
      /\ Ids(frames', Finals) = {} /\ \A i \in DOMAIN frames' : frames'[i] = f
  <2>1. frames' \in Seq(Frames) /\ Len(frames') = 1 /\ DOMAIN frames' = {1} /\ frames'[1] = f
    <3>. HIDE DEF Frames
    <3>. QED BY <1>0, <1>3
  <2>. QED BY <1>3, <2>1, Limits DEF Once, Ids, Finals
<1>5. Typed'
  <2>1. ServiceTyped'
    BY <1>0, <1>1, <1>2, <1>4 DEF serviceVars, Inv, Typed, TypeOK, ServiceTyped
  <2>. QED BY <1>0, <1>1, <1>2, <1>4, <2>1 DEF serviceVars, Inv, Typed, TypeOK, Connected, Open
<1>6. Phased'
  BY <1>0 DEF Phased, Listening
<1>7. Apart' /\ Held'
  <2>1. Ids(commands', {"request"}) = {} /\ Once(commands', {"request"})
    BY <1>0, <1>1, NoIds
  <2>. QED BY <1>2, <1>4, <2>1, Sets DEF Apart, Held
<1>8. Spent'
  <2>1. DOMAIN commands' = {} /\ \A i \in DOMAIN frames' : frames'[i].type # "capture"
    BY <1>0, <1>1, <1>3, <1>4
  <2>. QED BY <1>0, <1>2, <2>1 DEF serviceVars, Inv, Spent
<1>. QED BY <1>2, <1>5, <1>6, <1>7, <1>8 DEF Inv

\* What is left of the frames when the first one is read.
LEMMA FrameRead ==
  ASSUME Inv, frames # <<>>, frames' = Tail(frames)
  PROVE  /\ Head(frames) \in Frames
         /\ frames' \in Seq(Frames) /\ Len(frames') <= MaxPipe /\ Once(frames', Finals)
         /\ Head(frames).type \in Finals =>
              /\ Ids(frames', Finals) = Ids(frames, Finals) \ {Head(frames).id}
              /\ Head(frames).id \in Ids(frames, Finals)
         /\ Head(frames).type \notin Finals => Ids(frames', Finals) = Ids(frames, Finals)
         /\ Named(frames') \subseteq Named(frames) /\ Head(frames).id \in Named(frames)
         /\ \A i \in DOMAIN frames' : \E k \in DOMAIN frames : frames'[i] = frames[k]
         /\ \E k \in DOMAIN frames : frames[k] = Head(frames)
<1>1. frames \in Seq(Frames) /\ Len(frames) <= MaxPipe /\ Once(frames, Finals)
      /\ Len(frames) \in Nat /\ MaxPipe \in Nat
  BY Limits DEF Inv, Typed, TypeOK, ServiceTyped, Apart
<1>. HIDE DEF Frames, Finals
<1>2. /\ Ids(frames, Finals) = Ids(Tail(frames), Finals)
                                 \cup (IF Head(frames).type \in Finals THEN {Head(frames).id} ELSE {})
      /\ Named(Tail(frames)) \subseteq Named(frames) /\ Head(frames).id \in Named(frames)
      /\ Once(Tail(frames), Finals)
      /\ Head(frames).type \in Finals => Head(frames).id \notin Ids(Tail(frames), Finals)
  BY <1>1, IdsTail
<1>3. Tail(frames) \in Seq(Frames) /\ Head(frames) \in Frames
      /\ Len(Tail(frames)) = Len(frames) - 1
      /\ \A i \in DOMAIN Tail(frames) : i + 1 \in DOMAIN frames /\ Tail(frames)[i] = frames[i + 1]
  BY <1>1, IdsTail
<1>4. 1 \in DOMAIN frames /\ frames[1] = Head(frames)
  BY <1>1
<1>5. Len(frames') <= MaxPipe
  BY <1>1, <1>3
<1>. QED BY <1>2, <1>3, <1>4, <1>5

LEMMA FailKeeps ==
  ASSUME Inv, fail, UNCHANGED counts
  PROVE  Inv'
<1>1. Typed' /\ Books' /\ Apart' /\ Held' /\ Spent'
  BY EndKeeps DEF fail, Inv, Typed, TypeOK, ServiceTyped
<1>2. Open' = {}
  <2>1. Open' = Open \ Jobs
    BY FinishTyped DEF fail, Inv, Typed
  <2>. QED BY <2>1 DEF Open
<1>3. Phased'
  BY <1>2 DEF fail, Inv, Phased, Ends, Fresh, Typed, TypeOK, ServiceTyped
<1>. QED BY <1>1, <1>3 DEF Inv

\* A capture is written to the engine's books.
LEMMA ObservedSpent ==
  ASSUME Inv, UNCHANGED <<process, serviceVars, commands>>, frames # <<>>, frames' = Tail(frames),
         Head(frames).type = "capture", counts' = Observed(Head(frames))
  PROVE  counts' \in [Bounties -> 0..MaxCount] /\ Spent'
<1>. DEFINE f == Head(frames)
            b == Bounty[f.id]
            n == f.fields.count
<1>1. f.id \in Attempts /\ f.fields \in FieldSet /\ b \in Bounties
  <2>1. f \in Frames
    BY FrameRead
  <2>. QED BY <2>1, FrameFacts, ServiceAssumption
<1>2. n \in 0..MaxCount /\ counts \in [Bounties -> 0..MaxCount] /\ successes \in [Bounties -> 0..MaxCount]
  BY <1>1 DEF FieldSet, Inv, Typed, TypeOK, ServiceTyped
<1>3. f.fields.captured => n <= Enough + Concurrency /\ (process = "up" => n <= successes[b])
  <2>1. PICK k \in DOMAIN frames : frames[k] = f
    BY FrameRead
  <2>. QED BY <2>1 DEF Inv, Spent
<1>4. /\ counts' \in [Bounties -> 0..MaxCount]
      /\ \A c \in Bounties : counts'[c] = counts[c]
           \/ (c = b /\ f.fields.captured /\ n > counts[b] /\ counts'[c] = n)
  <2>. HIDE DEF f
  <2>. QED BY <1>1, <1>2 DEF Observed, f
<1>. HIDE DEF f, b, n
<1>5. \A c \in Bounties :
        /\ counts[c] <= counts'[c] /\ counts'[c] <= Enough + Concurrency
        /\ process = "up" => counts'[c] = counts[c] \/ counts'[c] <= successes[c]
  <2>. TAKE c \in Bounties
  <2>1. CASE counts'[c] = counts[c]
    BY <1>2, <2>1 DEF Inv, Spent
  <2>2. CASE c = b /\ f.fields.captured /\ n > counts[b] /\ counts'[c] = n
    BY <1>1, <1>2, <1>3, <2>2
  <2>. QED BY <1>4, <2>1, <2>2
<1>6. /\ \A c \in Bounties : counts[c] \in Nat /\ counts'[c] \in Nat /\ successes[c] \in Nat
      /\ \A c : Connections(c)' = Connections(c) /\ Live' = Live
  <2>1. \A c \in Bounties : counts[c] \in Nat /\ counts'[c] \in Nat /\ successes[c] \in Nat
    BY <1>2, <1>4
  <2>2. \A c : Connections(c)' = Connections(c)
    BY DEF serviceVars, Connections
  <2>3. Live' = Live
    BY DEF serviceVars, Live
  <2>. QED BY <2>1, <2>2, <2>3
<1>7. \A c \in Bounties :
        /\ successes'[c] <= Enough + Concurrency /\ counts'[c] <= Enough + Concurrency
        /\ Connections(c)' # {} =>
             successes'[c] + Cardinality(Connections(c)') <= Enough + Concurrency
  BY <1>5, <1>6 DEF serviceVars, Inv, Spent
<1>8. \A i \in DOMAIN frames' :
        frames'[i].type = "capture" /\ frames'[i].fields.captured =>
          /\ frames'[i].fields.count <= Enough + Concurrency
          /\ process' = "up" => frames'[i].fields.count <= successes'[Bounty[frames'[i].id]]
  <2>1. \A i \in DOMAIN frames' : \E k \in DOMAIN frames : frames'[i] = frames[k]
    BY FrameRead
  <2>. QED BY <2>1 DEF serviceVars, Inv, Spent
<1>9. \A i \in DOMAIN commands' :
        commands'[i].type = "request" /\ commands'[i].id \in Attempts =>
          LET c == Bounty[commands'[i].id] IN
          /\ commands'[i].count <= counts'[c]
          /\ process' = "up" => counts'[c] <= commands'[i].count \/ counts'[c] <= successes'[c]
  <2>. TAKE i \in DOMAIN commands'
  <2>. HAVE commands'[i].type = "request" /\ commands'[i].id \in Attempts
  <2>. DEFINE c == Bounty[commands[i].id]
              m == commands[i].count
  <2>0. commands' = commands /\ successes' = successes
    BY DEF serviceVars
  <2>1. c \in Bounties /\ m \in Nat
    <3>1. commands[i] \in Commands /\ commands[i].id \in Attempts
      BY <2>0, Piped DEF Inv
    <3>. QED BY <3>1, ServiceAssumption, Limits DEF Commands
  <2>2. m <= counts[c] /\ (process = "up" => counts[c] <= m \/ counts[c] <= successes[c])
    BY <2>0 DEF Inv, Spent
  <2>. HIDE DEF c, m
  <2>3. m <= counts'[c] /\ (process = "up" => counts'[c] <= m \/ counts'[c] <= successes[c])
    BY <1>5, <1>6, <2>1, <2>2
  <2>. QED BY <2>0, <2>3 DEF c, m
<1>10. \A k \in Live' \cap Attempts : counts'[Bounty[k]] <= successes'[Bounty[k]]
  <2>. TAKE k \in Live' \cap Attempts
  <2>1. Bounty[k] \in Bounties /\ k \in Live /\ process = "up"
    <3>1. k \in Live /\ k \in Jobs
      BY <1>6 DEF Jobs
    <3>. QED BY <3>1, Lives, ServiceAssumption DEF Live
  <2>2. counts[Bounty[k]] <= successes[Bounty[k]]
    BY <2>1 DEF Inv, Spent
  <2>. QED BY <1>5, <1>6, <2>1, <2>2 DEF serviceVars
<1>. QED BY <1>4, <1>7, <1>8, <1>9, <1>10 DEF Spent

LEMMA TakeKeeps ==
  ASSUME Inv, Listening, frames # <<>>, Fits(Head(frames)), Take(Head(frames))
  PROVE  Inv'
<1>. DEFINE f == Head(frames)
            j == f.id
<1>0. /\ pool' = "ready" /\ frames' = Tail(frames) /\ UNCHANGED <<process, serviceVars, commands>>
  BY DEF Take
<1>1. /\ f \in Frames
      /\ frames' \in Seq(Frames) /\ Len(frames') <= MaxPipe /\ Once(frames', Finals)
      /\ f.type \in Finals => Ids(frames', Finals) = Ids(frames, Finals) \ {j}
                              /\ j \in Ids(frames, Finals)
      /\ f.type \notin Finals => Ids(frames', Finals) = Ids(frames, Finals)
      /\ Named(frames') \subseteq Named(frames) /\ j \in Named(frames)
      /\ \A i \in DOMAIN frames' : \E k \in DOMAIN frames : frames'[i] = frames[k]
  BY <1>0, FrameRead
<1>2. /\ Live' = Live /\ Queued' = Queued /\ Working' = Working /\ Books'
  BY <1>0, SameProcess
<1>3. f.type = "ready" \/ (j \in Open /\ j \in Jobs /\ f.type \in {"resolved", "started", "capture", "attempt"})
  BY DEF Fits, Open
<1>. HIDE DEF f
<1>4. /\ requests' \in [Jobs -> [open : BOOLEAN, started : BOOLEAN, base : 0..MaxCount,
                                 capture : [captured : BOOLEAN, count : 0..MaxCount] \cup {None}]]
      /\ aborted' \subseteq Open'
      /\ Open' = IF f.type \in Finals THEN Open \ {j} ELSE Open
  <2>1. CASE f.type \in Finals
    <3>1. finish({j})
      BY <2>1 DEF Take, f, Finals
    <3>. QED BY <2>1, <3>1, FinishTyped DEF Inv, Typed
  <2>2. CASE f.type = "ready"
    <3>1. UNCHANGED <<requests, aborted>>
      BY <2>2 DEF Take, f
    <3>. QED BY <2>2, <3>1 DEF Inv, Typed, TypeOK, Open, Finals
  <2>3. CASE f.type = "started"
    <3>1. requests' = [requests EXCEPT ![j].started = TRUE] /\ UNCHANGED aborted
      BY <2>3 DEF Take, f
    <3>. QED BY <1>3, <2>3, <3>1 DEF Inv, Typed, TypeOK, Open, Finals
  <2>4. CASE f.type = "capture"
    <3>. DEFINE r == [captured |-> f.fields.captured, count |-> f.fields.count]
    <3>1. requests' = [requests EXCEPT ![j].capture = r] /\ UNCHANGED aborted
      BY <2>4 DEF Take, f
    <3>2. r \in [captured : BOOLEAN, count : 0..MaxCount]
      <4>1. f.fields \in FieldSet
        BY <1>1, <2>4, FrameFacts
      <4>. QED BY <4>1 DEF FieldSet
    <3>. HIDE DEF r
    <3>. QED BY <1>3, <2>4, <3>1, <3>2 DEF Inv, Typed, TypeOK, Open, Finals
  <2>. QED BY <1>3, <2>1, <2>2, <2>3, <2>4 DEF Finals
<1>5. counts' \in [Bounties -> 0..MaxCount] /\ Spent'
  <2>1. CASE f.type = "capture"
    BY <1>0, <2>1, ObservedSpent DEF Take, f
  <2>2. CASE f.type # "capture"
    <3>1. counts' = counts
      BY <2>2 DEF Take, f
    <3>. QED BY <1>0, <1>1, <3>1, SpentIdle DEF serviceVars, Inv, Typed, TypeOK
  <2>. QED BY <2>1, <2>2
<1>6. Typed'
  <2>1. ServiceTyped'
    BY <1>0, <1>1, <1>2 DEF serviceVars, Inv, Typed, TypeOK, ServiceTyped
  <2>. QED BY <1>0, <1>1, <1>4, <1>5, <2>1 DEF serviceVars, Inv, Typed, TypeOK
<1>7. Phased'
  BY <1>0 DEF serviceVars, Inv, Phased, Listening
<1>8. Apart'
  BY <1>0, <1>1, <1>2 DEF Inv, Apart
<1>9. Held'
  <2>1. Ids(commands, {"request"}) \cap Ids(frames, Finals) = {}
    BY DEF Inv, Apart, Ids, Named
  <2>. QED BY <1>0, <1>1, <1>2, <1>4, <2>1, Sets DEF Inv, Held, Apart
<1>. QED BY <1>2, <1>5, <1>6, <1>7, <1>8, <1>9 DEF Inv

LEMMA CloseKeeps ==
  ASSUME Inv, close
  PROVE  Inv'
<1>1. Typed' /\ Books' /\ Apart' /\ Held' /\ Spent'
  BY EndKeeps DEF close
<1>2. Phased'
  BY DEF close, Inv, Phased, Ends, Fresh, Open, Listening
<1>. QED BY <1>1, <1>2 DEF Inv

LEMMA CrashKeeps ==
  ASSUME Inv, crash
  PROVE  Inv'
<1>1. Typed' /\ Books' /\ Apart' /\ Held' /\ Spent'
  BY EndKeeps DEF crash, poolVars, Inv, Typed, TypeOK
<1>2. Phased'
  BY DEF crash, poolVars, Inv, Phased, Ends, Fresh, Open, Listening
<1>. QED BY <1>1, <1>2 DEF Inv

LEMMA ClosedKeeps ==
  ASSUME Inv, closed
  PROVE  Inv'
<1>0. /\ process = "dead" /\ process' = "gone" /\ frames = <<>> /\ frames' = <<>> /\ commands' = <<>>
      /\ UNCHANGED <<serviceVars, counts>>
      /\ Ends
  BY DEF closed, serviceVars, Inv, Phased, Ends, Fresh
<1>1. \/ pool = "closing" /\ pool' = "none" /\ finish(Jobs)
      \/ Listening /\ pool' = "failed" /\ finish(Jobs)
      \/ pool = "failed" /\ pool' = "failed" /\ UNCHANGED <<requests, aborted>>
  BY DEF closed, Inv, Phased, Typed, TypeOK, Listening
<1>2. Typed' /\ Books' /\ Apart' /\ Held' /\ Spent'
  BY <1>0, <1>1, EndKeeps
<1>3. Open' = {}
  <2>1. CASE finish(Jobs)
    <3>1. Open' = Open \ Jobs
      BY <2>1, FinishTyped DEF Inv, Typed
    <3>. QED BY <3>1 DEF Open
  <2>2. CASE pool = "failed" /\ UNCHANGED requests
    BY <2>2 DEF Inv, Phased, Open
  <2>. QED BY <1>1, <2>1, <2>2
<1>4. Phased'
  BY <1>0, <1>1, <1>3 DEF Phased, Ends, Fresh
<1>. QED BY <1>2, <1>4 DEF Inv

-----------------------------------------------------------------------------
(* The theorems.                                                           *)

LEMMA StutterKeeps ==
  ASSUME Inv, UNCHANGED vars
  PROVE  Inv'
<1>1. /\ UNCHANGED <<process, jobs, cancelled, pending, active, dns, successes, commands, frames,
                     pool, requests, aborted, counts>>
      /\ UNCHANGED serviceVars
  BY DEF vars, poolVars, serviceVars
<1>2. Live' = Live /\ Working' = Working /\ Books' /\ Open' = Open
  BY <1>1, SameProcess DEF Open
<1>3. Spent'
  BY <1>1, SpentIdle
<1>4. Typed' /\ Phased'
  BY <1>1, <1>2 DEF Inv, Typed, TypeOK, ServiceTyped, Phased, Listening
<1>5. Apart' /\ Held'
  BY <1>1, <1>2, Sets DEF Inv, Apart, Held
<1>. QED BY <1>2, <1>3, <1>4, <1>5 DEF Inv

LEMMA InvStep ==
  ASSUME Inv, [Next]_vars
  PROVE  Inv'
<1>1. CASE UNCHANGED vars
  BY <1>1, StutterKeeps
<1>2. CASE Service /\ UNCHANGED poolVars
  BY <1>2, AcceptKeeps, CancelKeeps, ScheduleKeeps, ThreadKeeps, ExpiresKeeps DEF Service
<1>3. CASE \E j \in Jobs : request(j) \/ abort(j)
  BY <1>3, RequestKeeps, AbortKeeps
<1>4. CASE start \/ close \/ crash \/ closed
  BY <1>4, StartKeeps, CloseKeeps, CrashKeeps, ClosedKeeps
<1>5. CASE receive
  BY <1>5, TakeKeeps, FailKeeps DEF receive
<1>6. CASE deadline \/ inputFails
  BY <1>6, FailKeeps DEF deadline, inputFails
<1>. QED BY <1>1, <1>2, <1>3, <1>4, <1>5, <1>6 DEF Next

LEMMA InvInit ==
  ASSUME Init
  PROVE  Inv
<1>0. /\ Fresh(jobs, cancelled, pending, active, dns, successes) /\ process = "gone"
      /\ commands = <<>> /\ frames = <<>> /\ pool = "none" /\ requests = [j \in Jobs |-> Unasked]
      /\ aborted = {} /\ counts = [b \in Bounties |-> 0]
  BY DEF Init, ServiceInit
<1>1. /\ \A j \in Jobs : jobs[j].stage = "none"
      /\ Live = {} /\ Queued = {} /\ Working = {} /\ pending = <<>> /\ cancelled = {}
      /\ \A kind : Running(kind) = {}
      /\ \A b : Connections(b) = {}
  BY <1>0, FreshFacts
<1>2. /\ Open = {}
      /\ requests \in [Jobs -> [open : BOOLEAN, started : BOOLEAN, base : 0..MaxCount,
                                capture : [captured : BOOLEAN, count : 0..MaxCount] \cup {None}]]
  BY <1>0, Limits DEF Open, Unasked
<1>3. Typed
  <2>1. ServiceTyped
    BY <1>0, <1>1, Limits DEF ServiceTyped, Fresh, NoJob, Stages
  <2>2. commands \in Seq(Commands) /\ frames \in Seq(Frames) /\ pending \in Seq(Jobs)
    BY <1>0, <1>1
  <2>. QED BY <1>0, <1>1, <1>2, <2>1, <2>2, Limits DEF Typed, TypeOK, Fresh, Connected
<1>4. Phased
  BY <1>0, <1>2 DEF Phased
<1>5. Books
  <2>1. Distinct(pending) /\ Len(pending) = Cardinality(Queued) /\ DOMAIN pending = {}
    BY <1>1, FS_EmptySet DEF Distinct
  <2>2. \A kind \in {"attempt", "resolve"} :
          active[kind] = Cardinality(Running(kind)) /\ active[kind] <= Limit[kind]
    <3>. TAKE kind \in {"attempt", "resolve"}
    <3>1. active[kind] = 0 /\ Running(kind) = {} /\ Limit[kind] \in Nat
      BY <1>0, <1>1, Limits DEF Fresh, Limit
    <3>. QED BY <3>1, FS_EmptySet
  <2>. QED BY <1>1, <2>1, <2>2 DEF Books
<1>6. Apart /\ Held
  BY <1>0, <1>1, NoIds DEF Apart, Held
<1>7. Spent
  BY <1>0, <1>1, Limits DEF Spent, Fresh
<1>. QED BY <1>3, <1>4, <1>5, <1>6, <1>7 DEF Inv

LEMMA HelperInv == Spec => []Inv
<1>1. Init => Inv
  BY InvInit
<1>2. Inv /\ [Next]_vars => Inv'
  BY InvStep
<1>. QED BY <1>1, <1>2, PTL DEF Spec

\* Types of the helper and of the pool; an aborted request is open, and a cancelled
\* job is alive (claim-pool.mjs:83-103, claims_service.py:342-358).
THEOREM HelperTypes == Spec => []TypeOK
<1>1. Inv => TypeOK
  BY DEF Inv, Typed
<1>. QED BY <1>1, HelperInv, PTL

\* The queue holds each waiting job once, and the slots in use are those of the jobs
\* that run (claims_service.py:184-213, 342-358).
THEOREM HelperBooks == Spec => []BooksKept
<1>1. Inv => BooksKept
  <2>. SUFFICES ASSUME Inv PROVE BooksKept
    OBVIOUS
  <2>1. DOMAIN active = {"attempt", "resolve"}
    BY DEF Inv, Typed
  <2>2. \A j \in Live : jobs[j].stage = "queued" => \E i \in DOMAIN pending : pending[i] = j
    BY DEF Inv, Books, Queued
  <2>. QED BY <2>1, <2>2 DEF Inv, Books, BooksKept, Queued
<1>. QED BY <1>1, HelperInv, PTL

\* While the helper lives, an open request has exactly one of its command, its job
\* and its answer on the way (claims_service.py:342-358, claim-pool.mjs:83-147).
THEOREM HelperCarries == Spec => []Carried
<1>1. Inv => Carried
  <2>1. Inv => Ids(frames, Finals) \subseteq Named(frames) /\ Working \subseteq Live
    BY DEF Ids, Named, Working
  <2>. QED BY <2>1, Sets DEF Inv, Apart, Held, Carried
<1>. QED BY <1>1, HelperInv, PTL

\* A bounty is given up in time: when it has had enough successes, only connections
\* that are open may add to them, in whatever process and from whatever count of
\* the engine it began (claims_service.py:240-266, 296-309).
THEOREM HelperBudgets == Spec => []BudgetKept
<1>1. Inv => BudgetKept
  BY DEF Inv, Spent, BudgetKept
<1>. QED BY <1>1, HelperInv, PTL

-----------------------------------------------------------------------------
(* The captures of a bounty.                                               *)

\* CapturesInOrder, whether the pool still listens or not, and the count of the helper,
\* which is the last one it reported; before it reports any, the pool may know more of it.
Ordered ==
  \A b \in Bounties, i \in DOMAIN frames : Captures(i, b) =>
    \E n \in 0..MaxCount : Known(i, b, n) /\ frames[i].fields.count = OneMore(n)
Silent(b) == \A k \in DOMAIN frames : ~Captures(k, b)
Latest ==
  process = "up" =>
    \A b \in Bounties :
      /\ Silent(b) => successes[b] <= counts[b]
      /\ ~Silent(b) => counts[b] <= successes[b] /\ Known(Len(frames) + 1, b, successes[b])

LEMMA Placed ==
  ASSUME NEW S, NEW s \in Seq(S), NEW x \in S
  PROVE  LET t == Append(s, x) IN
         /\ DOMAIN t = 1..(Len(s) + 1) /\ Len(t) = Len(s) + 1 /\ t[Len(s) + 1] = x
         /\ \A i \in DOMAIN s : t[i] = s[i]
OBVIOUS

\* Before the first report, the pool knows its own count.
LEMMA KnownFirst ==
  ASSUME NEW b, NEW i \in Nat, \A k \in 1..(i - 1) : ~Captures(k, b), NEW n
  PROVE  Known(i, b, n) <=> n = counts[b]
BY DEF Known

\* What does not concern the reports of a bounty.
LEMMA OrderKept ==
  ASSUME Inv, Ordered, Latest, UNCHANGED counts,
         process' = "up" =>
           /\ process = "up"
           /\ \A b \in Bounties : successes'[b] # successes[b] =>
                successes[b] < counts[b] /\ successes'[b] <= counts[b],
         \/ UNCHANGED frames
         \/ \E f \in Frames : Emit(f) /\ (f.type = "capture" => ~f.fields.captured)
  PROVE  Ordered' /\ Latest'
<1>0. PICK end \in Nat : end = Len(frames) + 1 /\ end - 1 = Len(frames) /\ frames \in Seq(Frames)
                       /\ DOMAIN frames = 1..(end - 1)
  BY DEF Inv, Typed
<1>3. \A b \in Bounties : successes[b] \in Nat /\ counts[b] \in Nat
  BY Limits DEF Inv, Typed, TypeOK, ServiceTyped
<1>1. CASE UNCHANGED frames
  <2>1. \A i, b : Captures(i, b)' <=> Captures(i, b)
    BY <1>1 DEF Captures
  <2>2. \A i, b, n : Known(i, b, n)' <=> Known(i, b, n)
    BY <1>1, <2>1 DEF Known
  <2>3. Ordered'
    BY <1>1, <2>1, <2>2 DEF Ordered
  <2>4. Latest'
    <3>1. \A b : Silent(b)' <=> Silent(b)
      BY <1>1, <2>1 DEF Silent
    <3>. QED BY <1>1, <1>3, <2>2, <3>1 DEF Latest
  <2>. QED BY <2>3, <2>4
<1>2. CASE \E f \in Frames : Emit(f) /\ (f.type = "capture" => ~f.fields.captured)
  <2>1. PICK f \in Frames : Emit(f) /\ (f.type = "capture" => ~f.fields.captured)
    BY <1>2
  <2>2. /\ DOMAIN frames' = 1..end /\ Len(frames') = end /\ frames'[end] = f
        /\ \A i \in DOMAIN frames : frames'[i] = frames[i]
    <3>1. frames' = Append(frames, f)
      BY <2>1 DEF Emit
    <3>2. /\ DOMAIN Append(frames, f) = 1..end /\ Len(Append(frames, f)) = end
          /\ Append(frames, f)[end] = f /\ \A i \in DOMAIN frames : Append(frames, f)[i] = frames[i]
      BY <1>0, Placed
    <3>. QED BY <3>1, <3>2
  <2>3. /\ \A b : ~Captures(end, b)'
        /\ \A b : \A i \in DOMAIN frames : Captures(i, b)' <=> Captures(i, b)
    BY <1>0, <2>1, <2>2 DEF Captures
  <2>4. /\ \A b, n : \A i \in 1..end : Known(i, b, n)' <=> Known(i, b, n)
        /\ \A b, n : Known(end + 1, b, n)' <=> Known(end, b, n)
    <3>1. ASSUME NEW b, NEW i \in 1..end, NEW n
          PROVE  Known(i, b, n)' <=> Known(i, b, n)
      BY <1>0, <2>2, <2>3 DEF Known
    <3>2. ASSUME NEW b, NEW n
          PROVE  Known(end + 1, b, n)' <=> Known(end, b, n)
      BY <1>0, <2>2, <2>3 DEF Known
    <3>. QED BY <3>1, <3>2
  <2>5. Ordered'
    BY <1>0, <2>2, <2>3, <2>4 DEF Ordered
  <2>6. Latest'
    <3>1. \A b : Silent(b)' <=> Silent(b)
      BY <1>0, <2>2, <2>3 DEF Silent
    <3>. QED BY <1>0, <1>3, <2>2, <2>4, <3>1 DEF Latest
  <2>. QED BY <2>5, <2>6
<1>. QED BY <1>1, <1>2

\* A capture is counted and reported in one step.
LEMMA CaptureOrder ==
  ASSUME Inv, Ordered, Latest, NEW j \in Jobs, capture(j), UNCHANGED poolVars
  PROVE  Ordered' /\ Latest'
<1>. DEFINE b == Bounty[j]
<1>0. /\ Typed /\ Attempts \subseteq Jobs /\ UNCHANGED <<process, counts>> /\ process = "up"
      /\ j \in Attempts /\ b \in Bounties /\ j \in Live
  <2>1. Attempts \subseteq Jobs /\ jobs[j].stage = "open" /\ j \in Attempts
    BY DEF Inv, Typed, Jobs, capture, Connected
  <2>. QED BY <2>1, Lives, ServiceAssumption DEF Inv, capture, AttemptStep, poolVars, Live
<1>1. PICK end \in Nat : end = Len(frames) + 1 /\ end - 1 = Len(frames) /\ frames \in Seq(Frames)
                       /\ DOMAIN frames = 1..(end - 1)
  BY DEF Inv, Typed
<1>2. PICK captured \in BOOLEAN :
        LET n   == IF captured THEN Counted(Bounty[j]) ELSE successes[Bounty[j]]
            job == [jobs[j] EXCEPT !.captured = captured, !.count = n,
                                   !.stage = IF captured THEN "verifying" ELSE "concluding"]
        IN  /\ successes' = [successes EXCEPT ![Bounty[j]] = n]
            /\ jobs' = [jobs EXCEPT ![j] = job]
            /\ Emit(Capture(j, job))
  BY DEF capture
<1>. DEFINE n   == IF captured THEN Counted(b) ELSE successes[b]
            job == [jobs[j] EXCEPT !.captured = captured, !.count = n,
                                   !.stage = IF captured THEN "verifying" ELSE "concluding"]
            f   == Capture(j, job)
<1>3. /\ n \in 0..MaxCount /\ successes[b] <= n /\ (captured => n = OneMore(successes[b]))
      /\ successes \in [Bounties -> 0..MaxCount] /\ counts \in [Bounties -> 0..MaxCount]
  BY <1>0, CountedTyped DEF Typed, TypeOK, ServiceTyped, Counted, OneMore
<1>4. successes' = [successes EXCEPT ![b] = n] /\ Emit(f)
  BY <1>2
<1>. HIDE DEF n
<1>5. job.count = n /\ job.captured = captured /\ job.started \in BOOLEAN
  BY <1>0, JobTyped DEF JobSet
<1>. HIDE DEF job
<1>6. f \in Frames /\ f.type = "capture" /\ f.id = j /\ f.fields.count = n /\ f.fields.captured = captured
  <2>1. Fields(j, job) \in FieldSet
    BY <1>0, <1>3, <1>5, FieldsTyped
  <2>2. Fields(j, job).count = n /\ Fields(j, job).captured = captured
    <3>1. n # None
      BY <1>3, ServiceAssumption
    <3>. QED BY <1>5, <3>1 DEF Fields
  <2>. QED BY <1>0, <2>1, <2>2, FramesTyped
<1>. HIDE DEF f
<1>7. /\ DOMAIN frames' = 1..end /\ Len(frames') = end /\ frames'[end] = f
      /\ \A i \in DOMAIN frames : frames'[i] = frames[i]
  <2>1. frames' = Append(frames, f)
    BY <1>4 DEF Emit
  <2>2. /\ DOMAIN Append(frames, f) = 1..end /\ Len(Append(frames, f)) = end
        /\ Append(frames, f)[end] = f /\ \A i \in DOMAIN frames : Append(frames, f)[i] = frames[i]
    BY <1>1, <1>6, Placed
  <2>. QED BY <2>1, <2>2
<1>8. /\ \A c : Captures(end, c)' <=> captured /\ c = b
      /\ \A c : \A i \in DOMAIN frames : Captures(i, c)' <=> Captures(i, c)
  <2>1. \A c : Captures(end, c)' <=> captured /\ c = b
    BY <1>6, <1>7 DEF Captures
  <2>2. \A c : \A i \in DOMAIN frames : Captures(i, c)' <=> Captures(i, c)
    BY <1>7 DEF Captures
  <2>. QED BY <2>1, <2>2
<1>9. \A c, m : \A i \in 1..end : Known(i, c, m)' <=> Known(i, c, m)
  <2>. SUFFICES ASSUME NEW c, NEW m, NEW i \in 1..end
                PROVE  Known(i, c, m)' <=> Known(i, c, m)
    OBVIOUS
  <2>. QED BY <1>0, <1>1, <1>7, <1>8 DEF Known
<1>10. Known(end, b, successes[b])
  <2>1. counts[b] <= successes[b]
    BY <1>0 DEF Inv, Spent
  <2>2. CASE Silent(b)
    <3>1. successes[b] = counts[b]
      BY <1>0, <1>3, <2>1, <2>2 DEF Latest
    <3>2. \A k \in 1..(end - 1) : ~Captures(k, b)
      BY <1>1, <2>2 DEF Silent
    <3>. QED BY <3>1, <3>2, KnownFirst
  <2>3. CASE ~Silent(b)
    BY <1>0, <1>1, <2>3 DEF Latest
  <2>. QED BY <2>2, <2>3
<1>11. Ordered'
  <2>. SUFFICES ASSUME NEW c \in Bounties, NEW i \in 1..end, Captures(i, c)'
                PROVE  \E m \in 0..MaxCount : Known(i, c, m)' /\ frames'[i].fields.count = OneMore(m)
    BY <1>7 DEF Ordered
  <2>1. CASE i = end
    <3>1. captured /\ c = b
      BY <1>8, <2>1
    <3>2. successes[b] \in 0..MaxCount /\ n = OneMore(successes[b])
      BY <1>0, <1>3, <3>1
    <3>. QED BY <1>6, <1>7, <1>9, <1>10, <2>1, <3>1, <3>2
  <2>2. CASE i \in DOMAIN frames
    <3>1. Captures(i, c)
      BY <1>8, <2>2
    <3>2. PICK m \in 0..MaxCount : Known(i, c, m) /\ frames[i].fields.count = OneMore(m)
      BY <2>2, <3>1 DEF Ordered
    <3>. QED BY <1>7, <1>9, <2>2, <3>2
  <2>. QED BY <1>1, <2>1, <2>2
<1>12. Latest'
  <2>. SUFFICES ASSUME NEW c \in Bounties
                PROVE  /\ Silent(c)' => successes'[c] <= counts[c]
                       /\ ~Silent(c)' => counts[c] <= successes'[c]
                       /\ ~Silent(c)' => \A m : m = successes'[c] => Known(end + 1, c, m)'
    BY <1>0, <1>7 DEF Latest
  <2>1. CASE captured /\ c = b
    <3>1. ~Silent(c)'
      BY <1>1, <1>7, <1>8, <2>1 DEF Silent
    <3>2. successes'[b] = n /\ counts[b] <= successes[b] /\ counts[b] \in Nat /\ successes[b] \in Nat
      BY <1>0, <1>3, <1>4, Limits DEF Inv, Spent
    <3>3. ASSUME NEW m, m = n
          PROVE  Known(end + 1, c, m)'
      BY <1>1, <1>6, <1>7, <1>8, <2>1, <3>3 DEF Known
    <3>. QED BY <1>3, <2>1, <3>1, <3>2, <3>3
  <2>2. CASE ~(captured /\ c = b)
    <3>1. successes'[c] = successes[c]
      BY <1>0, <1>3, <1>4, <2>2 DEF n
    <3>2. (Silent(c)' <=> Silent(c)) /\ ~Captures(end, c)'
      BY <1>1, <1>7, <1>8, <2>2 DEF Silent
    <3>3. ASSUME NEW m
          PROVE  Known(end + 1, c, m)' <=> Known(end, c, m)
      BY <1>0, <1>1, <1>7, <1>8, <3>2 DEF Known
    <3>. QED BY <1>0, <1>1, <3>1, <3>2, <3>3 DEF Latest
  <2>. QED BY <2>1, <2>2
<1>. QED BY <1>11, <1>12

\* The pool reads a frame, and writes what it says to its books.
LEMMA TakeOrder ==
  ASSUME Inv, Ordered, Latest, Listening, frames # <<>>, Fits(Head(frames)), Take(Head(frames))
  PROVE  Ordered' /\ Latest'
<1>0. PICK end \in Nat \ {0} : end = Len(frames) /\ frames \in Seq(Frames) /\ DOMAIN frames = 1..end
  BY DEF Inv, Typed
<1>1. /\ DOMAIN frames' = 1..(end - 1) /\ Len(frames') = end - 1 /\ Head(frames) = frames[1]
      /\ \A i \in 1..(end - 1) : frames'[i] = frames[i + 1]
      /\ UNCHANGED <<process, successes>>
  BY <1>0 DEF Take, serviceVars
<1>2. \A c : \A i \in 1..(end - 1) : Captures(i, c)' <=> Captures(i + 1, c)
  BY <1>1 DEF Captures
<1>3. ASSUME NEW c \in Bounties
      PROVE  /\ counts'[c] = IF Captures(1, c) THEN frames[1].fields.count ELSE counts[c]
             /\ Captures(1, c) /\ process = "up" => frames[1].fields.count <= successes[c]
             /\ counts[c] \in 0..MaxCount /\ successes[c] \in 0..MaxCount
  <2>1. counts \in [Bounties -> 0..MaxCount] /\ successes \in [Bounties -> 0..MaxCount]
    BY DEF Inv, Typed, TypeOK, ServiceTyped
  <2>2. CASE Captures(1, c)
    <3>1. PICK n \in 0..MaxCount : Known(1, c, n) /\ frames[1].fields.count = OneMore(n)
      BY <1>0, <2>2 DEF Ordered
    <3>2. n = counts[c]
      <4>1. 1..(1 - 1) = {}
        OBVIOUS
      <4>. QED BY <3>1, <4>1 DEF Known
    <3>3. counts' = Observed(frames[1]) /\ Bounty[frames[1].id] = c /\ frames[1].fields.captured
      BY <1>1, <2>2 DEF Captures, Take
    <3>4. counts'[c] = IF frames[1].fields.count > counts[c] THEN frames[1].fields.count ELSE counts[c]
      BY <2>1, <3>3 DEF Observed
    <3>5. frames[1].fields.count = counts[c] \/ frames[1].fields.count > counts[c]
      BY <2>1, <3>1, <3>2, Limits DEF OneMore
    <3>6. process = "up" => frames[1].fields.count <= successes[c]
      BY <1>0, <2>2 DEF Captures, Inv, Spent
    <3>. QED BY <2>1, <2>2, <3>4, <3>5, <3>6
  <2>3. CASE ~Captures(1, c)
    <3>1. CASE frames[1].type = "capture"
      <4>1. counts' = Observed(frames[1])
        BY <1>1, <3>1 DEF Take
      <4>2. Bounty[frames[1].id] = c => ~frames[1].fields.captured
        BY <2>3, <3>1 DEF Captures
      <4>. QED BY <2>1, <2>3, <4>1, <4>2 DEF Observed
    <3>2. CASE frames[1].type # "capture"
      BY <1>1, <2>1, <2>3, <3>2 DEF Take
    <3>. QED BY <3>1, <3>2
  <2>. QED BY <2>2, <2>3
<1>4. ASSUME NEW c \in Bounties, NEW i \in 1..end, NEW m, Known(i + 1, c, m)
      PROVE  Known(i, c, m)'
  <2>1. CASE \A k \in 1..i : ~Captures(k, c)
    <3>1. m = counts[c] /\ counts'[c] = counts[c]
      BY <1>3, <1>4, <2>1 DEF Known
    <3>2. \A k \in 1..(i - 1) : ~Captures(k, c)'
      BY <1>0, <1>2, <2>1
    <3>. QED BY <3>1, <3>2 DEF Known
  <2>2. CASE ~\A k \in 1..i : ~Captures(k, c)
    <3>1. PICK k \in 1..i : /\ Captures(k, c) /\ m = frames[k].fields.count
                            /\ \A l \in 1..i : Captures(l, c) => l <= k
      BY <1>4, <2>2 DEF Known
    <3>2. CASE k = 1
      <4>1. \A l \in 1..(i - 1) : ~Captures(l, c)'
        BY <1>2, <3>1, <3>2
      <4>2. m = counts'[c]
        BY <1>3, <3>1, <3>2
      <4>. QED BY <4>1, <4>2 DEF Known
    <3>3. CASE k # 1
      <4>1. /\ k - 1 \in 1..(i - 1) /\ Captures(k - 1, c)' /\ m = frames'[k - 1].fields.count
        BY <1>1, <1>2, <3>1, <3>3
      <4>2. \A l \in 1..(i - 1) : Captures(l, c)' => l <= k - 1
        BY <1>2, <3>1
      <4>. QED BY <4>1, <4>2 DEF Known
    <3>. QED BY <3>2, <3>3
  <2>. QED BY <2>1, <2>2
<1>5. Ordered'
  <2>. SUFFICES ASSUME NEW c \in Bounties, NEW i \in 1..(end - 1), Captures(i, c)'
                PROVE  \E m \in 0..MaxCount : Known(i, c, m)' /\ frames'[i].fields.count = OneMore(m)
    BY <1>1 DEF Ordered
  <2>1. i + 1 \in DOMAIN frames /\ Captures(i + 1, c) /\ i \in 1..end
    BY <1>0, <1>2
  <2>2. PICK m \in 0..MaxCount : Known(i + 1, c, m) /\ frames[i + 1].fields.count = OneMore(m)
    BY <2>1 DEF Ordered
  <2>. QED BY <1>1, <1>4, <2>1, <2>2
<1>6. Latest'
  <2>. SUFFICES ASSUME NEW c \in Bounties, process = "up"
                PROVE  /\ Silent(c)' => successes[c] <= counts'[c]
                       /\ ~Silent(c)' => counts'[c] <= successes[c]
                       /\ ~Silent(c)' => \A m : m = successes[c] => Known(end, c, m)'
    BY <1>0, <1>1 DEF Latest
  <2>1. CASE Silent(c)
    <3>1. Silent(c)' /\ ~Captures(1, c)
      BY <1>0, <1>1, <1>2, <2>1 DEF Silent
    <3>. QED BY <1>3, <2>1, <3>1 DEF Latest
  <2>2. CASE ~Silent(c)
    <3>1. counts[c] <= successes[c] /\ Known(end + 1, c, successes[c])
      BY <1>0, <2>2 DEF Latest
    <3>2. \A m : m = successes[c] => Known(end, c, m)'
      BY <1>0, <1>4, <3>1
    <3>3. counts'[c] <= successes[c]
      BY <1>3, <3>1
    <3>4. ASSUME Silent(c)'
          PROVE  successes[c] <= counts'[c]
      <4>1. \A k \in 1..(end - 1) : ~Captures(k, c)'
        BY <1>1, <3>4 DEF Silent
      <4>2. successes[c] = counts'[c]
        <5>1. ASSUME NEW m, Known(end, c, m)'
              PROVE  m = counts'[c]
          BY <4>1, <5>1 DEF Known
        <5>. QED BY <3>2, <5>1
      <4>. QED BY <1>3, <4>2
    <3>. QED BY <3>2, <3>3, <3>4
  <2>. QED BY <2>1, <2>2
<1>. QED BY <1>5, <1>6

\* A process without frames.
LEMMA NoneOrder ==
  ASSUME Inv, \/ frames' = <<>> /\ process' # "up"
              \/ start
  PROVE  Ordered' /\ Latest'
<1>1. CASE frames' = <<>> /\ process' # "up"
  BY <1>1 DEF Ordered, Latest
<1>2. CASE start
  <2>1. /\ DOMAIN frames' = {1} /\ frames'[1].type = "ready" /\ UNCHANGED <<successes, counts>>
        /\ process = "gone"
    BY <1>2 DEF start, serviceVars
  <2>2. \A c : ~Captures(1, c)'
    BY <2>1 DEF Captures
  <2>3. \A c \in Bounties : successes[c] = 0 /\ counts[c] \in Nat
    BY <2>1, Limits DEF Inv, Phased, Fresh, Typed, TypeOK
  <2>4. Ordered'
    BY <2>1, <2>2 DEF Ordered
  <2>5. Latest'
    BY <2>1, <2>2, <2>3 DEF Latest, Silent
  <2>. QED BY <2>4, <2>5
<1>. QED BY <1>1, <1>2

LEMMA OrderStep ==
  ASSUME Inv, Ordered, Latest, [Next]_vars
  PROVE  Ordered' /\ Latest'
<1>1. CASE UNCHANGED vars
  BY <1>1, OrderKept DEF vars, serviceVars, poolVars
<1>2. CASE accept /\ UNCHANGED poolVars
  <2>. DEFINE j == Head(commands).id
              n == Head(commands).count
  <2>1. CASE process' = "dead" /\ Emit([type |-> "error", id |-> None])
    <3>1. [type |-> "error", id |-> None] \in Frames
      BY DEF Frames
    <3>. QED BY <1>2, <2>1, <3>1, OrderKept DEF poolVars
  <2>2. CASE /\ successes' = IF j \in Attempts /\ n > successes[Bounty[j]]
                             THEN [successes EXCEPT ![Bounty[j]] = n] ELSE successes
             /\ UNCHANGED <<process, frames>>
    <3>1. PICK k \in DOMAIN commands : commands[k] = Head(commands)
      <4>1. commands # <<>> /\ commands' = Tail(commands)
        BY <1>2 DEF accept
      <4>. QED BY <4>1, CommandRead
    <3>2. j \in Attempts => n <= counts[Bounty[j]] /\ Bounty[j] \in Bounties
      BY <1>2, <3>1, ServiceAssumption DEF accept, Inv, Spent
    <3>3. successes \in [Bounties -> Nat] /\ counts \in [Bounties -> Nat] /\ n \in Nat
      <4>1. commands[k] \in Commands
        BY Piped DEF Inv
      <4>. QED BY <3>1, <4>1, Limits DEF Commands, Inv, Typed, TypeOK, ServiceTyped
    <3>. HIDE DEF j, n
    <3>4. \A c \in Bounties : successes'[c] # successes[c] =>
            successes[c] < counts[c] /\ successes'[c] <= counts[c]
      BY <2>2, <3>2, <3>3 DEF j, n
    <3>5. process = "up" /\ UNCHANGED counts
      BY <1>2 DEF accept, poolVars
    <3>. QED BY <2>2, <3>4, <3>5, OrderKept
  <2>. QED BY <1>2, <2>1, <2>2 DEF accept
<1>3. CASE cancel /\ UNCHANGED poolVars
  <2>1. CASE UNCHANGED frames
    BY <1>3, <2>1, OrderKept DEF cancel, poolVars
  <2>2. CASE Emit(Withdrawn(Head(commands).id))
    <3>1. commands # <<>> /\ commands' = Tail(commands)
      BY <1>3 DEF cancel
    <3>2. Withdrawn(Head(commands).id) \in Frames /\ Withdrawn(Head(commands).id).type # "capture"
      BY <3>1, CommandRead, WithdrawnTyped DEF Inv, Finals
    <3>. QED BY <1>3, <2>2, <3>2, OrderKept DEF cancel, poolVars
  <2>. QED BY <1>3, <2>1, <2>2 DEF cancel
<1>4. ASSUME NEW j \in Jobs, schedule(j) \/ Thread(j), UNCHANGED poolVars
      PROVE  Ordered' /\ Latest'
  <2>1. CASE capture(j)
    BY <1>4, <2>1, CaptureOrder
  <2>2. CASE schedule(j) \/ leave(j)
    BY <1>4, <2>2, OrderKept DEF schedule, leave, poolVars
  <2>3. CASE lookUp(j) \/ resolved(j) \/ begin(j) \/ started(j) \/ verify(j) \/ conclude(j)
    <3>1. UNCHANGED <<process, successes, counts>>
      BY <1>4, <2>3 DEF lookUp, resolved, begin, started, verify, conclude, AttemptStep, poolVars
    <3>2. Moves(j)
      <4>1. ~leave(j)
        BY <2>3 DEF lookUp, resolved, begin, started, verify, conclude, leave
      <4>. QED BY <1>4, <2>3, <4>1, ThreadMoves DEF Thread
    <3>3. \/ UNCHANGED frames
          \/ \E f \in Frames : Emit(f) /\ (f.type = "capture" => ~f.fields.captured)
      <4>1. CASE started(j)
        <5>1. j \in Attempts
          BY <4>1 DEF started, Inv, Typed, Connected
        <5>2. Started(j) \in Frames /\ Started(j).type = "started"
          BY <5>1, FramesTyped
        <5>. QED BY <4>1, <5>2 DEF started
      <4>2. CASE begin(j) \/ verify(j)
        BY <4>2 DEF begin, verify
      <4>3. CASE lookUp(j) \/ resolved(j) \/ conclude(j)
        <5>1. jobs'[j].stage = "leaving" \/ UNCHANGED frames
          BY <4>3, AdvanceTyped DEF lookUp, resolved, conclude, Stages, Inv
        <5>. QED BY <3>2, <5>1 DEF Moves, Finals
      <4>. QED BY <2>3, <4>1, <4>2, <4>3
    <3>. QED BY <3>1, <3>3, OrderKept
  <2>. QED BY <1>4, <2>1, <2>2, <2>3 DEF Thread
<1>5. ASSUME NEW d \in Domains, expires(d), UNCHANGED poolVars
      PROVE  Ordered' /\ Latest'
  BY <1>5, OrderKept DEF expires, poolVars
<1>6. CASE \E j \in Jobs : request(j) \/ abort(j)
  BY <1>6, OrderKept DEF request, abort, serviceVars
<1>7. CASE start \/ close \/ closed
  BY <1>7, NoneOrder DEF close, closed, Inv, Typed, TypeOK, ServiceTyped
<1>8. CASE receive
  <2>1. CASE Fits(Head(frames))
    BY <1>8, <2>1, TakeOrder DEF receive
  <2>2. CASE fail
    BY <2>2, NoneOrder DEF fail
  <2>. QED BY <1>8, <2>1, <2>2 DEF receive
<1>9. CASE deadline \/ inputFails
  BY <1>9, NoneOrder DEF deadline, inputFails, fail
<1>10. CASE crash
  BY <1>10, OrderKept DEF crash, poolVars
<1>11. CASE Service /\ UNCHANGED poolVars
  BY <1>2, <1>3, <1>4, <1>5, <1>11 DEF Service
<1>. QED BY <1>1, <1>6, <1>7, <1>8, <1>9, <1>10, <1>11 DEF Next

\* Whatever threads report captures of one bounty, the pool is told of them in the order
\* they are counted, and none twice: its count of successes grows by one with each
\* (claims_service.py:301-309, claims-engine.mjs:436-450).
THEOREM HelperReports == Spec => []CapturesInOrder
<1>1. Init => Inv /\ Ordered /\ Latest
  <2>1. Init => Ordered /\ Latest
    BY DEF Init, Ordered, Latest
  <2>. QED BY <2>1, InvInit
<1>2. Inv /\ Ordered /\ Latest /\ [Next]_vars => (Inv /\ Ordered /\ Latest)'
  BY InvStep, OrderStep
<1>3. Ordered => CapturesInOrder
  BY DEF Ordered, CapturesInOrder
<1>. QED BY <1>1, <1>2, <1>3, PTL DEF Spec

-----------------------------------------------------------------------------
(* The frames of one attempt: started, capture and attempt, in this order. *)

Reports == [captured : BOOLEAN, count : 0..MaxCount]
Report(fields) == [captured |-> fields.captured, count |-> fields.count]

\* What a pool with the requests rs knows of attempt j when it has read the frames of fs
\* before the i-th: that it started, and the report of its capture.
StartedBy(rs, fs, j, i) ==
  \/ rs[j].started
  \/ \E k \in 1..(i - 1) : fs[k].type = "started" /\ fs[k].id = j
ReportedBy(rs, fs, j, i, r) ==
  \/ rs[j].capture = r
  \/ \E k \in 1..(i - 1) : fs[k].type = "capture" /\ fs[k].id = j /\ Report(fs[k].fields) = r

\* The least count of successes the pool takes.
Least(base, captured) ==
  LET least == base + (IF captured THEN 1 ELSE 0)
  IN  IF least > MaxCount THEN MaxCount ELSE least

\* What receive asks of the frame f, when it reads it as the i-th of fs.
Tells(rs, fs, f, i) ==
  LET j == f.id
      began == StartedBy(rs, fs, j, i)
      Reported(r) == ReportedBy(rs, fs, j, i, r)
  IN
  /\ f.type # "error"
  /\ f.type # "ready" => rs[j].open
  /\ f.type = "started" => ~began /\ \A r \in Reports : ~Reported(r)
  /\ f.type = "capture" =>
       /\ f.fields.started /\ began /\ \A r \in Reports : ~Reported(r)
       /\ f.fields.count >= Least(rs[j].base, f.fields.captured)
  /\ f.type = "attempt" =>
       /\ (f.fields.started <=> began) /\ (f.fields.captured => f.fields.started)
       /\ \A r \in Reports : Reported(r) <=> f.fields.started /\ r = Report(f.fields)
       /\ f.fields.count >= Least(rs[j].base, f.fields.captured)
       /\ f.proof => f.fields.captured /\ ~f.cancelled

FramesTold ==
  \A i \in DOMAIN frames :
    /\ Tells(requests, frames, frames[i], i)
    /\ frames[i].type = "ready" => i = 1 /\ pool = "starting"
    /\ frames[i].type \in Finals => \A k \in DOMAIN frames : k > i => frames[k].id # frames[i].id

\* What an attempt that works has told, and what it knows; total counts its bounty.
Story(rs, fs, j, job, total) ==
  LET end == Len(fs) + 1 IN
  /\ job.started <=> StartedBy(rs, fs, j, end)
  /\ \A r \in Reports : ReportedBy(rs, fs, j, end, r) <=> job.count # None /\ r = Report(job)
  /\ job.captured => job.count # None
  /\ job.count # None => job.started /\ job.count >= Least(rs[j].base, job.captured)
  /\ job.proof => job.captured
  /\ job.stage \in {"queued", "running", "starting"} => ~job.started
  /\ job.stage = "open" => job.started /\ job.count = None
  /\ job.stage = "verifying" => job.captured
  /\ job.stage = "concluding" /\ job.started => job.count # None
  /\ rs[j].base <= total

JobsTold == \A j \in Attempts \cap Working :
              Story(requests, frames, j, jobs[j], successes[Bounty[j]])

\* An attempt whose command is on its way has told nothing.
CommandsTold ==
  \A i \in DOMAIN commands : commands[i].type = "request" =>
    LET q == requests[commands[i].id] IN
    ~q.started /\ q.capture = None /\ q.base = commands[i].count

Idle == \A j \in Jobs : jobs[j].stage = "none" => jobs[j] = NoJob

Told == FramesTold /\ JobsTold /\ CommandsTold /\ Idle /\ Cardinality(Open) <= MaxRequests

-----------------------------------------------------------------------------
(* What is known after one more frame, and after one less.                 *)

LEMMA Said ==
  ASSUME NEW rs, NEW S, NEW s \in Seq(S), NEW f \in S, NEW j
  PROVE  LET t == Append(s, f)
             end == Len(s) + 1
         IN
         /\ \A i \in 1..end : /\ StartedBy(rs, t, j, i) <=> StartedBy(rs, s, j, i)
                              /\ \A r : ReportedBy(rs, t, j, i, r) <=> ReportedBy(rs, s, j, i, r)
         /\ StartedBy(rs, t, j, end + 1) <=>
              StartedBy(rs, s, j, end) \/ (f.type = "started" /\ f.id = j)
         /\ \A r : ReportedBy(rs, t, j, end + 1, r) <=>
              \/ ReportedBy(rs, s, j, end, r)
              \/ f.type = "capture" /\ f.id = j /\ Report(f.fields) = r
<1>. DEFINE t == Append(s, f)
            end == Len(s) + 1
<1>1. /\ DOMAIN t = 1..end /\ t[end] = f /\ \A i \in 1..(end - 1) : t[i] = s[i]
      /\ end \in Nat /\ end \in 1..end /\ (end + 1) - 1 = end
      /\ \A k \in 1..end : k = end \/ k \in 1..(end - 1)
      /\ \A k \in 1..(end - 1) : k \in 1..end
  BY Placed
<1>. HIDE DEF t, end
<1>2. ASSUME NEW i \in 1..end
      PROVE  /\ StartedBy(rs, t, j, i) <=> StartedBy(rs, s, j, i)
             /\ \A r : ReportedBy(rs, t, j, i, r) <=> ReportedBy(rs, s, j, i, r)
  <2>1. \A k \in 1..(i - 1) : t[k] = s[k]
    BY <1>1
  <2>. QED BY <2>1 DEF StartedBy, ReportedBy
<1>3. StartedBy(rs, t, j, end + 1) <=>
        StartedBy(rs, s, j, end) \/ (f.type = "started" /\ f.id = j)
  BY <1>1 DEF StartedBy
<1>4. ASSUME NEW r
      PROVE  ReportedBy(rs, t, j, end + 1, r) <=>
               \/ ReportedBy(rs, s, j, end, r)
               \/ f.type = "capture" /\ f.id = j /\ Report(f.fields) = r
  BY <1>1 DEF ReportedBy
<1>. QED BY <1>2, <1>3, <1>4 DEF t, end

LEMMA Heard ==
  ASSUME NEW rs, NEW qs, NEW S, NEW s \in Seq(S), s # <<>>, NEW j,
         qs[j].started <=> rs[j].started \/ (Head(s).type = "started" /\ Head(s).id = j),
         \A r \in Reports : qs[j].capture = r <=>
           rs[j].capture = r \/ (Head(s).type = "capture" /\ Head(s).id = j /\ Report(Head(s).fields) = r)
  PROVE  \A i \in 1..Len(s) :
           /\ StartedBy(qs, Tail(s), j, i) <=> StartedBy(rs, s, j, i + 1)
           /\ \A r \in Reports : ReportedBy(qs, Tail(s), j, i, r) <=> ReportedBy(rs, s, j, i + 1, r)
<1>. DEFINE t == Tail(s)
<1>1. /\ Len(s) \in Nat \ {0} /\ Head(s) = s[1] /\ \A i \in 1..(Len(s) - 1) : t[i] = s[i + 1]
  OBVIOUS
<1>. HIDE DEF t
<1>2. ASSUME NEW i \in 1..Len(s)
      PROVE  StartedBy(qs, t, j, i) <=> StartedBy(rs, s, j, i + 1)
  <2>1. ASSUME NEW k \in 1..i, s[k].type = "started", s[k].id = j
        PROVE  StartedBy(qs, t, j, i)
    <3>1. CASE k = 1
      BY <1>1, <2>1, <3>1 DEF StartedBy
    <3>2. CASE k # 1
      <4>1. k - 1 \in 1..(i - 1) /\ t[k - 1] = s[k]
        BY <1>1, <3>2
      <4>. QED BY <2>1, <4>1 DEF StartedBy
    <3>. QED BY <3>1, <3>2
  <2>2. ASSUME NEW k \in 1..(i - 1), t[k].type = "started", t[k].id = j
        PROVE  StartedBy(rs, s, j, i + 1)
    <3>1. k + 1 \in 1..((i + 1) - 1) /\ t[k] = s[k + 1]
      BY <1>1
    <3>. QED BY <2>2, <3>1 DEF StartedBy
  <2>3. 1 \in 1..((i + 1) - 1) /\ (i + 1) - 1 = i
    OBVIOUS
  <2>. QED BY <1>1, <2>1, <2>2, <2>3 DEF StartedBy
<1>3. ASSUME NEW i \in 1..Len(s), NEW r \in Reports
      PROVE  ReportedBy(qs, t, j, i, r) <=> ReportedBy(rs, s, j, i + 1, r)
  <2>1. ASSUME NEW k \in 1..i, s[k].type = "capture", s[k].id = j, Report(s[k].fields) = r
        PROVE  ReportedBy(qs, t, j, i, r)
    <3>1. CASE k = 1
      BY <1>1, <2>1, <3>1 DEF ReportedBy
    <3>2. CASE k # 1
      <4>1. k - 1 \in 1..(i - 1) /\ t[k - 1] = s[k]
        BY <1>1, <3>2
      <4>. QED BY <2>1, <4>1 DEF ReportedBy
    <3>. QED BY <3>1, <3>2
  <2>2. ASSUME NEW k \in 1..(i - 1), t[k].type = "capture", t[k].id = j, Report(t[k].fields) = r
        PROVE  ReportedBy(rs, s, j, i + 1, r)
    <3>1. k + 1 \in 1..((i + 1) - 1) /\ t[k] = s[k + 1]
      BY <1>1
    <3>. QED BY <2>2, <3>1 DEF ReportedBy
  <2>3. 1 \in 1..((i + 1) - 1) /\ (i + 1) - 1 = i
    OBVIOUS
  <2>. QED BY <1>1, <2>1, <2>2, <2>3 DEF ReportedBy
<1>. QED BY <1>2, <1>3 DEF t

\* A frame about another job does not change the story of a job.
LEMMA StoryKept ==
  ASSUME NEW rs, NEW S, NEW s \in Seq(S), NEW f \in S, NEW j, f.id # j, NEW job,
         NEW total, Story(rs, s, j, job, total)
  PROVE  Story(rs, Append(s, f), j, job, total)
<1>1. Len(Append(s, f)) = Len(s) + 1
  OBVIOUS
<1>2. /\ StartedBy(rs, Append(s, f), j, Len(s) + 1 + 1) <=> StartedBy(rs, s, j, Len(s) + 1)
      /\ \A r : ReportedBy(rs, Append(s, f), j, Len(s) + 1 + 1, r) <=> ReportedBy(rs, s, j, Len(s) + 1, r)
  BY Said
<1>. QED BY <1>1, <1>2 DEF Story

LEMMA TotalGrows ==
  ASSUME NEW rs, NEW fs, NEW j, NEW job, NEW total \in Nat, NEW more \in Nat, total <= more,
         rs[j].base \in Nat, Story(rs, fs, j, job, total)
  PROVE  Story(rs, fs, j, job, more)
BY DEF Story

LEMMA Bases ==
  ASSUME Inv, NEW j \in Jobs
  PROVE  /\ requests[j].base \in 0..MaxCount /\ requests[j].started \in BOOLEAN
         /\ requests[j].capture \in Reports \cup {None} /\ None \notin Reports
         /\ j \in Open <=> requests[j].open
BY PoolAssumption DEF Inv, Typed, TypeOK, Reports, Open

\* A job writes a frame that the pool will take.
LEMMA FramesEmitted ==
  ASSUME Inv, FramesTold, NEW f \in Frames, Emit(f), UNCHANGED <<requests, pool>>, f.id \in Working,
         Tells(requests, frames, f, Len(frames) + 1)
  PROVE  FramesTold'
<1>0. PICK end \in Nat : end = Len(frames) + 1 /\ end - 1 = Len(frames) /\ frames \in Seq(Frames)
                       /\ DOMAIN frames = 1..(end - 1)
  BY DEF Inv, Typed
<1>1. frames' = Append(frames, f)
  BY DEF Emit
<1>2. /\ DOMAIN frames' = 1..end /\ frames'[end] = f
      /\ \A i \in DOMAIN frames : frames'[i] = frames[i] /\ i \in 1..end /\ i # end
      /\ \A i \in 1..end : i = end \/ i \in DOMAIN frames
  <2>1. /\ DOMAIN Append(frames, f) = 1..end /\ Append(frames, f)[end] = f
        /\ \A i \in DOMAIN frames : Append(frames, f)[i] = frames[i]
    BY <1>0, Placed
  <2>. QED BY <1>0, <1>1, <2>1
<1>3. \A j : \A i \in 1..end :
        /\ StartedBy(requests, frames', j, i) <=> StartedBy(requests, frames, j, i)
        /\ \A r : ReportedBy(requests, frames', j, i, r) <=> ReportedBy(requests, frames, j, i, r)
  BY <1>0, <1>1, Said
<1>4. f.type # "ready"
  BY FrameFacts, ServiceAssumption DEF Working, Live
<1>5. \A i \in DOMAIN frames : frames[i].type \in Finals => frames[i].id # f.id
  BY DEF Inv, Apart, Ids
<1>6. ASSUME NEW i \in DOMAIN frames
      PROVE  Tells(requests, frames', frames[i], i)
  <2>1. Tells(requests, frames, frames[i], i) /\ i \in 1..end
    BY <1>2 DEF FramesTold
  <2>. QED BY <1>3, <2>1 DEF Tells
<1>7. Tells(requests, frames', f, end)
  <2>1. Tells(requests, frames, f, end) /\ end \in 1..end
    BY <1>0
  <2>. QED BY <1>3, <2>1 DEF Tells
<1>8. ASSUME NEW i \in 1..end
      PROVE  /\ Tells(requests', frames', frames'[i], i)
             /\ frames'[i].type = "ready" => i = 1 /\ pool' = "starting"
             /\ frames'[i].type \in Finals => \A k \in 1..end : k > i => frames'[k].id # frames'[i].id
  <2>1. CASE i = end
    <3>1. ~\E k \in 1..end : k > end
      BY <1>0
    <3>. QED BY <1>2, <1>4, <1>7, <2>1, <3>1
  <2>2. CASE i \in DOMAIN frames
    <3>1. /\ frames[i].type = "ready" => i = 1 /\ pool = "starting"
          /\ frames[i].type \in Finals => \A k \in DOMAIN frames : k > i => frames[k].id # frames[i].id
      BY <2>2 DEF FramesTold
    <3>. QED BY <1>2, <1>5, <1>6, <2>2, <3>1
  <2>. QED BY <1>2, <2>1, <2>2
<1>. QED BY <1>2, <1>8 DEF FramesTold

\* The commands that are left.
LEMMA CommandsKept ==
  ASSUME CommandsTold, UNCHANGED requests,
         \A i \in DOMAIN commands' : \E k \in DOMAIN commands : commands'[i] = commands[k]
  PROVE  CommandsTold'
BY DEF CommandsTold

\* A step of the process that says nothing.
LEMMA Quiet ==
  ASSUME Inv, Told, UNCHANGED <<requests, pool, frames>>,
         \A i \in DOMAIN commands' : \E k \in DOMAIN commands : commands'[i] = commands[k],
         \A j \in Attempts \cap Working' : Story(requests, frames, j, jobs'[j], successes'[Bounty[j]]),
         Idle'
  PROVE  Told'
<1>1. FramesTold'
  BY DEF Told, FramesTold, Tells
<1>2. JobsTold'
  BY DEF JobsTold
<1>3. CommandsTold'
  BY CommandsKept DEF Told
<1>4. Cardinality(Open)' <= MaxRequests
  BY DEF Told, Open
<1>. QED BY <1>1, <1>2, <1>3, <1>4 DEF Told

\* A step of a job that says something.
LEMMA Loud ==
  ASSUME Inv, Told, UNCHANGED <<requests, pool>>, NEW f \in Frames, Emit(f), f.id \in Working,
         Tells(requests, frames, f, Len(frames) + 1),
         \A i \in DOMAIN commands' : \E k \in DOMAIN commands : commands'[i] = commands[k],
         \A j \in Attempts : j # f.id => jobs'[j] = jobs[j],
         \A b \in Bounties : successes'[b] \in Nat /\ successes[b] <= successes'[b],
         f.id \in Attempts \cap Working' =>
           Story(requests, frames', f.id, jobs'[f.id], successes'[Bounty[f.id]]),
         Idle'
  PROVE  Told'
<1>1. FramesTold'
  BY FramesEmitted DEF Told
<1>2. JobsTold'
  <2>. SUFFICES ASSUME NEW j \in Attempts \cap Working', j # f.id
                PROVE  Story(requests, frames', j, jobs'[j], successes'[Bounty[j]])
    BY DEF JobsTold
  <2>1. j \in Working /\ jobs'[j] = jobs[j] /\ j \in Jobs
    BY DEF Working, Live, Jobs
  <2>2. Story(requests, frames, j, jobs[j], successes[Bounty[j]])
    BY <2>1 DEF Told, JobsTold
  <2>3. frames' = Append(frames, f) /\ frames \in Seq(Frames)
    BY DEF Emit, Inv, Typed
  <2>4. Story(requests, Append(frames, f), j, jobs[j], successes[Bounty[j]])
    BY <2>2, <2>3, StoryKept
  <2>5. /\ successes[Bounty[j]] \in Nat /\ successes'[Bounty[j]] \in Nat
        /\ successes[Bounty[j]] <= successes'[Bounty[j]] /\ requests[j].base \in Nat
    BY <2>1, ServiceAssumption, Bases, Limits DEF Inv, Typed, TypeOK, ServiceTyped
  <2>. QED BY <2>1, <2>3, <2>4, <2>5, TotalGrows
<1>3. CommandsTold'
  BY CommandsKept DEF Told
<1>4. Cardinality(Open)' <= MaxRequests
  BY DEF Told, Open
<1>. QED BY <1>1, <1>2, <1>3, <1>4 DEF Told

\* The same when only one job changes.
LEMMA QuietJob ==
  ASSUME Inv, Told, UNCHANGED <<requests, pool, frames, successes>>, NEW j \in Jobs,
         \A i \in DOMAIN commands' : \E k \in DOMAIN commands : commands'[i] = commands[k],
         \A k \in Jobs \ {j} : jobs'[k] = jobs[k],
         j \in Attempts \cap Working' => Story(requests, frames, j, jobs'[j], successes[Bounty[j]]),
         jobs'[j].stage = "none" => jobs'[j] = NoJob
  PROVE  Told'
<1>1. ASSUME NEW k \in Attempts \cap Working'
      PROVE  Story(requests, frames, k, jobs'[k], successes'[Bounty[k]])
  <2>1. CASE k = j
    BY <1>1, <2>1
  <2>2. CASE k # j
    <3>1. k \in Attempts \cap Working /\ jobs'[k] = jobs[k]
      BY <2>2 DEF Working, Live, Jobs
    <3>. QED BY <3>1 DEF Told, JobsTold
  <2>. QED BY <2>1, <2>2
<1>2. Idle'
  BY DEF Told, Idle
<1>. QED BY <1>1, <1>2, Quiet

\* Another stage of the same job.
LEMMA Staged ==
  ASSUME NEW rs, NEW fs, NEW j, NEW total, NEW job, Story(rs, fs, j, job, total), NEW next,
         next.started = job.started, next.captured = job.captured, next.count = job.count,
         next.proof => next.captured,
         next.stage \in {"queued", "running", "starting"} => ~job.started,
         next.stage = "open" => job.started /\ job.count = None,
         next.stage = "verifying" => job.captured,
         next.stage = "concluding" /\ job.started => job.count # None
  PROVE  Story(rs, fs, j, next, total)
<1>1. Report(next) = Report(job)
  BY DEF Report
<1>. QED BY <1>1 DEF Story

LEMMA StageFields ==
  ASSUME Inv, NEW j \in Jobs, NEW stage \in Stages, Advance(j, stage)
  PROVE  /\ jobs'[j].stage = stage /\ jobs'[j].started = jobs[j].started
         /\ jobs'[j].captured = jobs[j].captured /\ jobs'[j].count = jobs[j].count
         /\ jobs'[j].proof = jobs[j].proof
         /\ \A k \in Jobs \ {j} : jobs'[k] = jobs[k]
BY JobTyped DEF Advance, JobSet, Inv

LEMMA StoryOf ==
  ASSUME Inv, Told, NEW j \in Attempts, jobs[j].stage \notin {"none", "leaving"}
  PROVE  /\ Story(requests, frames, j, jobs[j], successes[Bounty[j]])
         /\ j \in Jobs /\ j \in Working /\ j \notin Resolves /\ process = "up"
         /\ requests[j].open /\ successes[Bounty[j]] \in 0..MaxCount /\ requests[j].base \in 0..MaxCount
         /\ successes[Bounty[j]] \in Nat /\ requests[j].base \in Nat
<1>1. j \in Jobs /\ j \notin Resolves /\ j \in Working
  BY ServiceAssumption DEF Jobs, Working, Live
<1>2. process = "up"
  BY <1>1, Lives
<1>3. requests[j].open
  BY <1>1, <1>2 DEF Inv, Held, Open
<1>4. successes[Bounty[j]] \in 0..MaxCount /\ requests[j].base \in 0..MaxCount
  BY <1>1, Bases, ServiceAssumption DEF Inv, Typed, TypeOK, ServiceTyped
<1>. QED BY <1>1, <1>2, <1>3, <1>4, Limits DEF Told, JobsTold

\* The steps of a job that say nothing.
LEMMA SilentTold ==
  ASSUME Inv, Told, NEW j \in Jobs, UNCHANGED poolVars,
         \/ schedule(j) \/ leave(j) \/ begin(j) \/ verify(j)
         \/ started(j) /\ Advance(j, "concluding") /\ UNCHANGED frames
         \/ lookUp(j) /\ Advance(j, "resolving") /\ UNCHANGED frames
  PROVE  Told'
<1>0. /\ UNCHANGED <<requests, pool, frames, successes, commands>>
      /\ \A i \in DOMAIN commands' : \E k \in DOMAIN commands : commands'[i] = commands[k]
  BY DEF poolVars, schedule, leave, begin, verify, started, lookUp, AttemptStep
<1>1. CASE leave(j)
  <2>1. jobs'[j] = NoJob /\ \A k \in Jobs \ {j} : jobs'[k] = jobs[k]
    BY <1>1, JobTyped DEF leave, Inv
  <2>2. j \notin Working'
    BY <2>1 DEF Working, Live, NoJob
  <2>. QED BY <1>0, <2>1, <2>2, QuietJob
<1>2. CASE lookUp(j) /\ Advance(j, "resolving")
  <2>1. j \notin Attempts /\ "resolving" \in Stages
    BY <1>2, ServiceAssumption DEF lookUp, Stages
  <2>2. jobs'[j].stage # "none" /\ \A k \in Jobs \ {j} : jobs'[k] = jobs[k]
    BY <1>2, <2>1, StageFields
  <2>. QED BY <1>0, <2>1, <2>2, QuietJob
<1>3. CASE \/ schedule(j)
           \/ begin(j)
           \/ started(j) /\ Advance(j, "concluding")
  <2>1. PICK stage \in {"running", "starting", "concluding"} : Advance(j, stage)
    BY <1>3 DEF schedule, begin
  <2>2. stage \in Stages
    BY DEF Stages
  <2>3. jobs'[j].stage # "none" /\ \A k \in Jobs \ {j} : jobs'[k] = jobs[k]
    BY <2>1, <2>2, StageFields
  <2>4. jobs[j].stage \in {"queued", "running", "starting"}
    <3>1. schedule(j) => j \in Queued
      BY DEF schedule, Inv, Books
    <3>. QED BY <1>3, <3>1 DEF begin, started, Queued
  <2>5. ASSUME j \in Attempts
        PROVE  Story(requests, frames, j, jobs'[j], successes[Bounty[j]])
    <3>1. Story(requests, frames, j, jobs[j], successes[Bounty[j]])
      BY <2>4, <2>5, StoryOf
    <3>2. ~jobs[j].started /\ (jobs[j].proof => jobs[j].captured)
      BY <2>4, <3>1 DEF Story
    <3>. QED BY <2>1, <2>2, <3>1, <3>2, StageFields, Staged
  <2>. QED BY <1>0, <2>3, <2>5, QuietJob
<1>4. CASE verify(j)
  <2>1. j \in Attempts /\ jobs[j].stage = "verifying"
    BY <1>4 DEF verify, Inv, Typed, Connected
  <2>2. /\ jobs'[j].stage = "concluding" /\ jobs'[j].started = jobs[j].started
        /\ jobs'[j].captured = jobs[j].captured /\ jobs'[j].count = jobs[j].count
        /\ \A k \in Jobs \ {j} : jobs'[k] = jobs[k]
    <3>1. PICK proof \in BOOLEAN :
            jobs' = [jobs EXCEPT ![j].stage = "concluding", ![j].proof = proof]
      BY <1>4 DEF verify
    <3>. QED BY <3>1, JobTyped DEF JobSet, Inv
  <2>3. Story(requests, frames, j, jobs[j], successes[Bounty[j]])
    BY <2>1, StoryOf
  <2>4. jobs[j].captured /\ jobs[j].count # None
    BY <2>1, <2>3 DEF Story
  <2>5. Story(requests, frames, j, jobs'[j], successes[Bounty[j]])
    BY <2>2, <2>3, <2>4, Staged
  <2>. QED BY <1>0, <2>2, <2>5, QuietJob
<1>. QED BY <1>1, <1>2, <1>3, <1>4

\* A resolution may be answered at any time.
LEMMA ResolvedTells ==
  ASSUME Inv, NEW j \in Resolves, NEW ok \in BOOLEAN, jobs[j].stage \notin {"none", "leaving"}
  PROVE  /\ Tells(requests, frames, Resolved(j, ok), Len(frames) + 1)
         /\ Resolved(j, ok) \in Frames /\ Resolved(j, ok).id = j /\ j \in Working /\ j \notin Attempts
<1>1. j \in Working /\ j \in Jobs /\ j \notin Attempts
  BY ServiceAssumption DEF Jobs, Working, Live
<1>2. requests[j].open
  BY <1>1, Lives DEF Inv, Held, Open, Working
<1>3. Resolved(j, ok) \in Frames /\ Resolved(j, ok).id = j /\ Resolved(j, ok).type = "resolved"
  BY FramesTyped
<1>. QED BY <1>1, <1>2, <1>3 DEF Tells

\* An attempt may be concluded when it has not started or has reported its capture.
LEMMA AttemptTells ==
  ASSUME Inv, Told, NEW j \in Attempts, jobs[j].stage \notin {"none", "leaving"},
         jobs[j].started => jobs[j].count # None,
         NEW proof \in BOOLEAN, proof => jobs[j].proof /\ j \notin cancelled
  PROVE  /\ Tells(requests, frames, Attempt(j, jobs[j], proof), Len(frames) + 1)
         /\ Attempt(j, jobs[j], proof) \in Frames /\ Attempt(j, jobs[j], proof).id = j
         /\ j \in Working
<1>. DEFINE job == jobs[j]
            f == Attempt(j, job, proof)
            end == Len(frames) + 1
<1>0. /\ Story(requests, frames, j, job, successes[Bounty[j]]) /\ j \in Jobs /\ j \in Working
      /\ requests[j].open /\ successes[Bounty[j]] \in Nat /\ requests[j].base \in Nat
  BY StoryOf
<1>1. /\ job.started \in BOOLEAN /\ job.captured \in BOOLEAN /\ job.proof \in BOOLEAN
      /\ job.count \in 0..MaxCount \cup {None}
  BY <1>0, JobTyped DEF Inv
<1>2. f \in Frames /\ f.id = j /\ f.type = "attempt"
  <2>1. Fields(j, job) \in FieldSet
    BY <1>1, FieldsTyped DEF Inv
  <2>. QED BY <2>1, FramesTyped
<1>3. /\ f.fields.started = job.started /\ f.fields.captured = job.captured
      /\ f.fields.count = IF job.count = None THEN successes[Bounty[j]] ELSE job.count
      /\ f.proof = proof /\ f.cancelled = (j \in cancelled)
  BY DEF Attempt, Fields
<1>. HIDE DEF f, job
<1>4. /\ job.started <=> StartedBy(requests, frames, j, end)
      /\ \A r \in Reports : ReportedBy(requests, frames, j, end, r) <=> job.count # None /\ r = Report(job)
      /\ job.captured => job.count # None
      /\ job.count # None => job.started /\ job.count >= Least(requests[j].base, job.captured)
      /\ job.proof => job.captured
      /\ requests[j].base <= successes[Bounty[j]]
  BY <1>0 DEF Story
<1>5. job.count # None <=> job.started
  BY <1>4 DEF job
<1>6. job.count # None => Report(f.fields) = Report(job)
  BY <1>3 DEF Report
<1>7. f.fields.count >= Least(requests[j].base, f.fields.captured)
  <2>1. CASE job.count = None
    <3>1. ~job.captured
      BY <1>4, <2>1
    <3>2. successes[Bounty[j]] >= Least(requests[j].base, FALSE)
      BY <1>0, <1>4, Limits DEF Least
    <3>. QED BY <1>1, <1>3, <2>1, <3>1, <3>2
  <2>2. CASE job.count # None
    BY <1>3, <1>4, <2>2
  <2>. QED BY <2>1, <2>2
<1>8. f.proof => f.fields.captured /\ ~f.cancelled
  BY <1>3, <1>4 DEF job
<1>9. Tells(requests, frames, f, end)
  BY <1>0, <1>1, <1>2, <1>3, <1>4, <1>5, <1>6, <1>7, <1>8 DEF Tells
<1>. QED BY <1>0, <1>2, <1>9 DEF f, job

\* The steps that end a job.
LEMMA AnswerTold ==
  ASSUME Inv, Told, NEW j \in Jobs, UNCHANGED poolVars,
         \/ resolved(j) \/ conclude(j)
         \/ lookUp(j) /\ Advance(j, "leaving")
              /\ Emit(Resolved(j, j \notin cancelled))
  PROVE  Told'
<1>0. /\ UNCHANGED <<requests, pool, successes, commands>> /\ Advance(j, "leaving")
      /\ "leaving" \in Stages
  BY DEF poolVars, resolved, conclude, lookUp, AttemptStep, Stages
<1>1. jobs'[j].stage = "leaving" /\ \A k \in Jobs \ {j} : jobs'[k] = jobs[k]
  BY <1>0, StageFields
<1>2. PICK f \in Frames : Emit(f) /\ f.id = j /\ j \in Working
                        /\ Tells(requests, frames, f, Len(frames) + 1)
  <2>1. CASE conclude(j)
    <3>. DEFINE proof == jobs[j].proof /\ j \notin cancelled
    <3>1. j \in Attempts /\ jobs[j].stage = "concluding"
      BY <2>1 DEF conclude, Inv, Typed, Connected
    <3>2. jobs[j].started => jobs[j].count # None
      BY <3>1, StoryOf DEF Story
    <3>3. proof \in BOOLEAN /\ (proof => jobs[j].proof /\ j \notin cancelled)
      OBVIOUS
    <3>4. Emit(Attempt(j, jobs[j], proof))
      BY <2>1 DEF conclude
    <3>. HIDE DEF proof
    <3>. QED BY <3>1, <3>2, <3>3, <3>4, AttemptTells
  <2>2. CASE resolved(j)
    <3>1. j \in Resolves /\ jobs[j].stage = "resolving"
      BY <2>2 DEF resolved, Inv, Typed
    <3>2. PICK found \in SUBSET {Domain[j]} : Emit(Resolved(j, found # {} /\ j \notin cancelled))
      BY <2>2 DEF resolved
    <3>. DEFINE ok == found # {} /\ j \notin cancelled
    <3>3. ok \in BOOLEAN
      OBVIOUS
    <3>. HIDE DEF ok
    <3>. QED BY <3>1, <3>2, <3>3, ResolvedTells DEF ok
  <2>3. CASE lookUp(j) /\ Emit(Resolved(j, j \notin cancelled))
    <3>1. j \in Resolves /\ jobs[j].stage = "running" /\ (j \notin cancelled) \in BOOLEAN
      BY <2>3 DEF lookUp
    <3>. QED BY <2>3, <3>1, ResolvedTells
  <2>. QED BY <2>1, <2>2, <2>3
<1>3. \A k \in Attempts : k # f.id => jobs'[k] = jobs[k]
  BY <1>1, <1>2 DEF Jobs
<1>4. f.id \notin Working'
  BY <1>1, <1>2 DEF Working
<1>5. \A b \in Bounties : successes'[b] \in Nat /\ successes[b] <= successes'[b]
  BY <1>0, Limits DEF Inv, Typed, TypeOK, ServiceTyped
<1>6. Idle'
  BY <1>1 DEF Told, Idle
<1>. QED BY <1>0, <1>2, <1>3, <1>4, <1>5, <1>6, Loud

\* A connection has started.
LEMMA StartedTold ==
  ASSUME Inv, Told, NEW j \in Jobs, UNCHANGED poolVars, started(j),
         jobs' = [jobs EXCEPT ![j].stage = "open", ![j].started = TRUE], Emit(Started(j))
  PROVE  Told'
<1>. DEFINE f == Started(j)
            end == Len(frames) + 1
<1>0. /\ UNCHANGED <<requests, pool, successes, commands>> /\ j \in Attempts /\ jobs[j].stage = "starting"
  BY DEF poolVars, started, AttemptStep, Inv, Typed, Connected
<1>1. /\ Story(requests, frames, j, jobs[j], successes[Bounty[j]]) /\ j \in Working
      /\ requests[j].open /\ frames \in Seq(Frames)
  BY <1>0, StoryOf DEF Inv, Typed
<1>2. /\ jobs'[j].stage = "open" /\ jobs'[j].started = TRUE /\ jobs'[j].captured = jobs[j].captured
      /\ jobs'[j].count = jobs[j].count /\ jobs'[j].proof = jobs[j].proof
      /\ \A k \in Jobs \ {j} : jobs'[k] = jobs[k]
  BY JobTyped DEF JobSet, Inv
<1>3. /\ ~jobs[j].started /\ jobs[j].count = None /\ ~jobs[j].captured /\ ~jobs[j].proof
      /\ ~StartedBy(requests, frames, j, end)
      /\ \A r \in Reports : ~ReportedBy(requests, frames, j, end, r)
      /\ requests[j].base <= successes[Bounty[j]]
  BY <1>0, <1>1 DEF Story
<1>4. f \in Frames /\ f.type = "started" /\ f.id = j
  BY <1>0, FramesTyped
<1>. HIDE DEF f
<1>5. Tells(requests, frames, f, end)
  BY <1>1, <1>3, <1>4 DEF Tells
<1>6. Story(requests, Append(frames, f), j, jobs'[j], successes[Bounty[j]])
  <2>1. Len(Append(frames, f)) = end
    BY <1>1, <1>4
  <2>2. /\ StartedBy(requests, Append(frames, f), j, end + 1)
        /\ \A r \in Reports : ~ReportedBy(requests, Append(frames, f), j, end + 1, r)
    BY <1>1, <1>3, <1>4, Said
  <2>. QED BY <1>2, <1>3, <2>1, <2>2 DEF Story
<1>7. frames' = Append(frames, f) /\ Emit(f)
  BY DEF Emit, f
<1>8. \A b \in Bounties : successes'[b] \in Nat /\ successes[b] <= successes'[b]
  BY <1>0, Limits DEF Inv, Typed, TypeOK, ServiceTyped
<1>9. Idle'
  BY <1>2 DEF Told, Idle
<1>10. \A k \in Attempts : k # f.id => jobs'[k] = jobs[k]
  BY <1>2, <1>4 DEF Jobs
<1>. QED BY <1>0, <1>1, <1>4, <1>5, <1>6, <1>7, <1>8, <1>9, <1>10, Loud

\* A connection has ended, with a capture or without one.
LEMMA CaptureTold ==
  ASSUME Inv, Told, NEW j \in Jobs, UNCHANGED poolVars, capture(j)
  PROVE  Told'
<1>. DEFINE b == Bounty[j]
            end == Len(frames) + 1
<1>0. /\ UNCHANGED <<requests, pool, commands>> /\ j \in Attempts /\ jobs[j].stage = "open"
      /\ b \in Bounties /\ Typed
  BY ServiceAssumption DEF poolVars, capture, AttemptStep, Inv, Typed, Connected
<1>1. /\ Story(requests, frames, j, jobs[j], successes[b]) /\ j \in Working
      /\ requests[j].open /\ frames \in Seq(Frames)
      /\ successes[b] \in 0..MaxCount /\ requests[j].base \in 0..MaxCount
  BY <1>0, StoryOf DEF Typed
<1>2. PICK captured \in BOOLEAN :
        LET n   == IF captured THEN Counted(Bounty[j]) ELSE successes[Bounty[j]]
            job == [jobs[j] EXCEPT !.captured = captured, !.count = n,
                                   !.stage = IF captured THEN "verifying" ELSE "concluding"]
        IN  /\ successes' = [successes EXCEPT ![Bounty[j]] = n]
            /\ jobs' = [jobs EXCEPT ![j] = job]
            /\ Emit(Capture(j, job))
  BY DEF capture
<1>. DEFINE n   == IF captured THEN Counted(b) ELSE successes[b]
            job == [jobs[j] EXCEPT !.captured = captured, !.count = n,
                                   !.stage = IF captured THEN "verifying" ELSE "concluding"]
            f   == Capture(j, job)
<1>3. /\ n \in 0..MaxCount /\ successes[b] <= n
      /\ captured => n = IF successes[b] < MaxCount THEN successes[b] + 1 ELSE MaxCount
      /\ n # None
  BY <1>0, CountedTyped, ServiceAssumption DEF Counted
<1>4. successes' = [successes EXCEPT ![b] = n] /\ jobs' = [jobs EXCEPT ![j] = job] /\ Emit(f)
  BY <1>2
<1>. HIDE DEF n
<1>5. /\ job.count = n /\ job.captured = captured /\ job.started = jobs[j].started
      /\ job.started \in BOOLEAN /\ job.proof = jobs[j].proof
      /\ job.stage = IF captured THEN "verifying" ELSE "concluding"
  BY <1>0, JobTyped DEF JobSet
<1>. HIDE DEF job
<1>6. /\ jobs'[j] = job /\ \A k \in Jobs \ {j} : jobs'[k] = jobs[k]
      /\ successes'[b] = n /\ \A c \in Bounties : successes'[c] \in Nat /\ successes[c] <= successes'[c]
  <2>1. successes \in [Bounties -> 0..MaxCount]
    BY <1>0 DEF Typed, TypeOK, ServiceTyped
  <2>2. successes'[b] = n /\ \A c \in Bounties : successes'[c] = IF c = b THEN n ELSE successes[c]
    BY <1>0, <1>4, <2>1
  <2>3. \A c \in Bounties : successes'[c] \in Nat /\ successes[c] <= successes'[c]
    BY <1>3, <2>1, <2>2, Limits
  <2>4. jobs'[j] = job /\ \A k \in Jobs \ {j} : jobs'[k] = jobs[k]
    BY <1>0, <1>4, JobTyped
  <2>. QED BY <2>2, <2>3, <2>4
<1>7. /\ f \in Frames /\ f.type = "capture" /\ f.id = j
      /\ f.fields.started = job.started /\ f.fields.captured = captured /\ f.fields.count = n
  <2>1. Fields(j, job) \in FieldSet
    BY <1>0, <1>3, <1>5, FieldsTyped
  <2>2. /\ Fields(j, job).started = job.started /\ Fields(j, job).captured = captured
        /\ Fields(j, job).count = n
    BY <1>3, <1>5 DEF Fields
  <2>. QED BY <1>0, <2>1, <2>2, FramesTyped
<1>. HIDE DEF f
<1>8. /\ jobs[j].started /\ jobs[j].count = None /\ ~jobs[j].captured /\ ~jobs[j].proof
      /\ StartedBy(requests, frames, j, end)
      /\ \A r \in Reports : ~ReportedBy(requests, frames, j, end, r)
      /\ requests[j].base <= successes[b]
  BY <1>0, <1>1 DEF Story
<1>9. n >= Least(requests[j].base, captured)
  BY <1>1, <1>3, <1>8, Limits DEF Least
<1>10. Tells(requests, frames, f, end)
  BY <1>1, <1>5, <1>7, <1>8, <1>9 DEF Tells
<1>11. Story(requests, Append(frames, f), j, job, n)
  <2>1. Len(Append(frames, f)) = end
    BY <1>1, <1>7
  <2>2. Report(f.fields) = Report(job) /\ Report(job) \in Reports
    BY <1>3, <1>5, <1>7 DEF Report, Reports
  <2>3. /\ StartedBy(requests, Append(frames, f), j, end + 1)
        /\ \A r \in Reports : ReportedBy(requests, Append(frames, f), j, end + 1, r) <=> r = Report(job)
    BY <1>1, <1>7, <1>8, <2>2, Said
  <2>4. requests[j].base <= n
    BY <1>1, <1>3, <1>8
  <2>. QED BY <1>3, <1>5, <1>8, <1>9, <2>1, <2>3, <2>4 DEF Story
<1>12. frames' = Append(frames, f)
  BY <1>4 DEF Emit
<1>13. Idle'
  BY <1>5, <1>6 DEF Told, Idle
<1>14. \A k \in Attempts : k # f.id => jobs'[k] = jobs[k]
  BY <1>6, <1>7 DEF Jobs
<1>. QED BY <1>0, <1>1, <1>4, <1>6, <1>7, <1>10, <1>11, <1>12, <1>13, <1>14, Loud

-----------------------------------------------------------------------------
(* Commands.                                                               *)

\* A queued attempt has told nothing; it can be withdrawn.
LEMMA CancelTold ==
  ASSUME Inv, Told, cancel, UNCHANGED poolVars
  PROVE  Told'
<1>. DEFINE j == Head(commands).id
<1>0. /\ commands # <<>> /\ commands' = Tail(commands)
      /\ UNCHANGED <<successes, pool, requests>>
  BY DEF cancel, poolVars
<1>1. /\ j \in Jobs
      /\ \A i \in DOMAIN commands' : \E k \in DOMAIN commands : commands'[i] = commands[k]
  BY <1>0, CommandRead
<1>2. CASE jobs[j].stage = "queued" /\ jobs' = [jobs EXCEPT ![j] = NoJob] /\ Emit(Withdrawn(j))
  <2>. HIDE DEF j
  <2>1. jobs'[j] = NoJob /\ \A k \in Jobs \ {j} : jobs'[k] = jobs[k]
    BY <1>1, <1>2, JobTyped DEF Inv
  <2>2. PICK f \in Frames : Emit(f) /\ f.id = j /\ j \in Working
                          /\ Tells(requests, frames, f, Len(frames) + 1)
    <3>1. CASE j \in Attempts
      <4>1. jobs[j].started => jobs[j].count # None
        BY <1>2, <3>1, StoryOf DEF Story
      <4>2. Emit(Attempt(j, jobs[j], FALSE))
        BY <1>2, <3>1 DEF Withdrawn
      <4>. QED BY <1>2, <3>1, <4>1, <4>2, AttemptTells
    <3>2. CASE j \in Resolves
      <4>1. Emit(Resolved(j, FALSE))
        BY <1>2, <3>2, ServiceAssumption DEF Withdrawn
      <4>. QED BY <1>2, <3>2, <4>1, ResolvedTells
    <3>. QED BY <1>1, <3>1, <3>2 DEF Jobs
  <2>3. \A k \in Attempts : k # f.id => jobs'[k] = jobs[k]
    BY <2>1, <2>2 DEF Jobs
  <2>4. f.id \notin Working'
    BY <2>1, <2>2 DEF Working, Live, NoJob
  <2>5. \A b \in Bounties : successes'[b] \in Nat /\ successes[b] <= successes'[b]
    BY <1>0, Limits DEF Inv, Typed, TypeOK, ServiceTyped
  <2>6. Idle'
    BY <2>1 DEF Told, Idle
  <2>. QED BY <1>0, <1>1, <2>2, <2>3, <2>4, <2>5, <2>6, Loud
<1>3. CASE UNCHANGED <<jobs, frames>>
  <2>1. jobs'[j].stage = "none" => jobs'[j] = NoJob
    BY <1>1, <1>3 DEF Told, Idle
  <2>2. j \in Attempts \cap Working' => Story(requests, frames, j, jobs'[j], successes[Bounty[j]])
    BY <1>3 DEF Told, JobsTold, Working, Live
  <2>. HIDE DEF j
  <2>. QED BY <1>0, <1>1, <1>3, <2>1, <2>2, QuietJob
<1>. QED BY <1>2, <1>3 DEF cancel

LEMMA Together ==
  ASSUME NEW S, IsFiniteSet(S), NEW T, IsFiniteSet(T)
  PROVE  /\ IsFiniteSet(S \cup T) /\ Cardinality(S \cup T) \in Nat
         /\ Cardinality(S \cup T) <= Cardinality(S) + Cardinality(T)
<1>1. /\ IsFiniteSet(S \cup T)
      /\ Cardinality(S \cup T) = Cardinality(S) + Cardinality(T) - Cardinality(S \cap T)
  BY FS_Union
<1>2. IsFiniteSet(S \cap T)
  BY FS_Intersection
<1>3. /\ Cardinality(S) \in Nat /\ Cardinality(T) \in Nat /\ Cardinality(S \cap T) \in Nat
      /\ Cardinality(S \cup T) \in Nat
  BY <1>1, <1>2, FS_CardinalityType
<1>. QED BY <1>1, <1>3

\* There is a place for every request: those that are asked or work are open, and those
\* whose answer is out still hold a slot.
LEMMA RoomForJobs ==
  ASSUME Inv, Told, process = "up", NEW j \in Asked, j \in Jobs,
         MaxRequests + Concurrency + DnsLimit <= MaxJobs
  PROVE  Cardinality(Live) < MaxJobs
<1>. DEFINE Left == Running("attempt") \cup Running("resolve")
<1>1. /\ Working \cup {j} \subseteq Open /\ j \notin Working /\ Live \subseteq Working \cup Left
  <2>1. j \notin Working /\ j \in Open /\ Working \subseteq Open
    BY Sets DEF Inv, Apart, Held, Working
  <2>2. Live \subseteq Working \cup Left
    BY DEF Live, Working, Running, Kind
  <2>. QED BY <2>1, <2>2
<1>2. /\ Cardinality(Running("attempt")) <= Concurrency /\ Cardinality(Running("resolve")) <= DnsLimit
  BY DEF Inv, Books, Limit
<1>3. /\ IsFiniteSet(Running("attempt")) /\ IsFiniteSet(Running("resolve")) /\ IsFiniteSet(Open)
      /\ IsFiniteSet(Working) /\ Cardinality(Working) \in Nat
      /\ Cardinality(Running("attempt")) \in Nat /\ Cardinality(Running("resolve")) \in Nat
      /\ Cardinality(Open) \in Nat
  <2>1. /\ Running("attempt") \in SUBSET Jobs /\ Running("resolve") \in SUBSET Jobs
        /\ Open \in SUBSET Jobs /\ Working \in SUBSET Jobs
    BY DEF Running, Live, Open, Working
  <2>. QED BY <2>1, JobsFinite
<1>4. Cardinality(Working) + 1 <= MaxRequests
  <2>1. Cardinality(Working \cup {j}) = Cardinality(Working) + 1
    BY <1>1, <1>3, FS_AddElement
  <2>2. Cardinality(Working \cup {j}) <= Cardinality(Open)
    BY <1>1, <1>3, FS_Subset
  <2>. QED BY <1>3, <2>1, <2>2, Limits DEF Told
<1>5. Cardinality(Left) <= Concurrency + DnsLimit /\ IsFiniteSet(Left) /\ Cardinality(Left) \in Nat
  <2>1. IsFiniteSet(Left) /\ Cardinality(Left) \in Nat
        /\ Cardinality(Left) <= Cardinality(Running("attempt")) + Cardinality(Running("resolve"))
    BY <1>3, Together
  <2>. QED BY <1>2, <1>3, <2>1, Limits
<1>. HIDE DEF Left
<1>6. Cardinality(Live) <= Cardinality(Working) + Cardinality(Left) /\ Cardinality(Live) \in Nat
  <2>1. IsFiniteSet(Working \cup Left)
        /\ Cardinality(Working \cup Left) <= Cardinality(Working) + Cardinality(Left)
        /\ Cardinality(Working \cup Left) \in Nat
    BY <1>3, <1>5, Together
  <2>2. Cardinality(Live) <= Cardinality(Working \cup Left) /\ IsFiniteSet(Live) /\ Cardinality(Live) \in Nat
    BY <1>1, <2>1, FS_Subset, FS_CardinalityType
  <2>. QED BY <1>3, <1>5, <2>1, <2>2
<1>. QED BY <1>3, <1>4, <1>5, <1>6, Limits, ServiceAssumption

\* A job begins with what its command said.
LEMMA AcceptTold ==
  ASSUME Inv, Told, accept, UNCHANGED poolVars, MaxRequests + Concurrency + DnsLimit <= MaxJobs
  PROVE  Told'
<1>. DEFINE j == Head(commands).id
            n == Head(commands).count
<1>0. /\ process = "up" /\ commands # <<>> /\ Head(commands).type = "request"
      /\ commands' = Tail(commands) /\ UNCHANGED <<pool, requests, aborted, counts>>
  BY DEF accept, poolVars
<1>1. /\ Head(commands) \in Commands /\ j \in Jobs /\ j \in Asked
      /\ \A i \in DOMAIN commands' : \E k \in DOMAIN commands : commands'[i] = commands[k]
  BY <1>0, CommandRead, Sets
<1>2. ~(Cardinality(Live) >= MaxJobs)
  <2>1. Cardinality(Live) \in Nat
    BY JobsFinite DEF Live
  <2>. QED BY <1>0, <1>1, <2>1, RoomForJobs, ServiceAssumption
<1>3. /\ jobs' = [jobs EXCEPT ![j].stage = "queued"]
      /\ successes' = IF j \in Attempts /\ n > successes[Bounty[j]]
                      THEN [successes EXCEPT ![Bounty[j]] = n] ELSE successes
      /\ UNCHANGED frames
  BY <1>2 DEF accept
<1>4. PICK c \in DOMAIN commands : commands[c] = Head(commands)
  BY <1>0, CommandRead
<1>5. ~requests[j].started /\ requests[j].capture = None /\ requests[j].base = n /\ n \in Nat
  BY <1>0, <1>1, <1>4, Limits DEF Told, CommandsTold, Commands
<1>6. j \notin Live /\ j \notin Named(frames)
  BY <1>1, Sets DEF Inv, Apart
<1>. HIDE DEF j, n
<1>7. jobs[j] = NoJob
  BY <1>1, <1>6 DEF Told, Idle, Live
<1>8. /\ jobs'[j] = [NoJob EXCEPT !.stage = "queued"] /\ \A k \in Jobs \ {j} : jobs'[k] = jobs[k]
  BY <1>1, <1>3, <1>7, JobTyped DEF Inv
<1>9. /\ \A b \in Bounties : /\ successes[b] \in Nat /\ successes'[b] \in Nat
                             /\ successes[b] <= successes'[b]
      /\ j \in Attempts => n <= successes'[Bounty[j]]
  <2>1. successes \in [Bounties -> Nat]
    BY Limits DEF Inv, Typed, TypeOK, ServiceTyped
  <2>2. j \in Attempts => Bounty[j] \in Bounties
    BY ServiceAssumption
  <2>. QED BY <1>3, <1>5, <2>1, <2>2
<1>10. ASSUME NEW k \in Attempts \cap Working'
       PROVE  Story(requests, frames, k, jobs'[k], successes'[Bounty[k]])
  <2>1. CASE k = j
    <3>1. /\ ~StartedBy(requests, frames, j, Len(frames) + 1)
          /\ \A r \in Reports : ~ReportedBy(requests, frames, j, Len(frames) + 1, r)
      <4>1. \A i \in 1..((Len(frames) + 1) - 1) : frames[i].id # j
        BY <1>6 DEF Named, Inv, Typed
      <4>2. None \notin Reports
        BY <1>1, Bases
      <4>. QED BY <1>5, <4>1, <4>2 DEF StartedBy, ReportedBy
    <3>2. /\ jobs'[j].stage = "queued" /\ jobs'[j].started = FALSE /\ jobs'[j].captured = FALSE
          /\ jobs'[j].count = None /\ jobs'[j].proof = FALSE
      BY <1>8 DEF NoJob
    <3>. QED BY <1>5, <1>9, <2>1, <3>1, <3>2 DEF Story
  <2>2. CASE k # j
    <3>1. k \in Attempts \cap Working /\ jobs'[k] = jobs[k] /\ k \in Jobs /\ Bounty[k] \in Bounties
      BY <1>8, <2>2, ServiceAssumption DEF Working, Live, Jobs
    <3>2. Story(requests, frames, k, jobs[k], successes[Bounty[k]])
      BY <3>1 DEF Told, JobsTold
    <3>3. requests[k].base \in Nat
      BY <3>1, Bases, Limits
    <3>. QED BY <1>9, <3>1, <3>2, <3>3, TotalGrows
  <2>. QED BY <2>1, <2>2
<1>11. Idle'
  BY <1>8 DEF Told, Idle, NoJob
<1>. QED BY <1>0, <1>1, <1>3, <1>10, <1>11, Quiet

\* A new request finds nothing of an earlier one.
LEMMA RequestTold ==
  ASSUME Inv, Told, NEW j \in Jobs, request(j)
  PROVE  Told'
<1>. DEFINE n == IF j \in Attempts THEN counts[Bounty[j]] ELSE 0
            c == [type |-> "request", id |-> j, count |-> n]
            q == [Unasked EXCEPT !.open = TRUE, !.base = n]
<1>0. /\ pool = "ready" /\ j \notin Open /\ ~Traces(j) /\ Cardinality(Open) < MaxRequests
      /\ requests' = [requests EXCEPT ![j] = q] /\ commands' = Append(commands, c)
      /\ Len(commands) < MaxPipe
      /\ UNCHANGED <<process, serviceVars, frames, pool, aborted, counts>>
  BY DEF request
<1>1. q.open /\ ~q.started /\ q.capture = None /\ q.base = n
  BY DEF Unasked
<1>2. n \in 0..MaxCount
  BY ServiceAssumption, Limits DEF Inv, Typed, TypeOK
<1>3. c \in Commands /\ c.type = "request" /\ c.id = j /\ c.count = n
  <2>. HIDE DEF n
  <2>. QED BY <1>2 DEF Commands
<1>. HIDE DEF n, c, q
<1>4. /\ requests'[j] = q /\ \A k : k # j => requests'[k] = requests[k]
  BY <1>0 DEF Inv, Typed, TypeOK
<1>5. j \notin Live /\ j \notin Named(frames) /\ j \notin Ids(commands, {"request"})
  BY <1>0 DEF Traces, Live, Named, Ids
<1>6. FramesTold'
  <2>. SUFFICES ASSUME NEW i \in DOMAIN frames
                PROVE  Tells(requests', frames, frames[i], i)
    BY <1>0 DEF Told, FramesTold
  <2>1. frames[i].id # j /\ Tells(requests, frames, frames[i], i)
    BY <1>5 DEF Named, Told, FramesTold
  <2>2. requests'[frames[i].id] = requests[frames[i].id]
    BY <1>4, <2>1
  <2>. QED BY <2>1, <2>2 DEF Tells, StartedBy, ReportedBy
<1>7. JobsTold'
  <2>. SUFFICES ASSUME NEW k \in Attempts \cap Working
                PROVE  Story(requests', frames, k, jobs[k], successes[Bounty[k]])
    BY <1>0 DEF serviceVars, JobsTold, Working, Live
  <2>1. requests'[k] = requests[k]
    BY <1>4, <1>5 DEF Working
  <2>2. Story(requests, frames, k, jobs[k], successes[Bounty[k]])
    BY DEF Told, JobsTold
  <2>. QED BY <2>1, <2>2 DEF Story, StartedBy, ReportedBy
<1>8. CommandsTold'
  <2>. SUFFICES ASSUME NEW i \in DOMAIN commands', commands'[i].type = "request"
                PROVE  /\ ~requests'[commands'[i].id].started
                       /\ requests'[commands'[i].id].capture = None
                       /\ requests'[commands'[i].id].base = commands'[i].count
    BY DEF CommandsTold
  <2>1. CASE commands'[i] = c
    BY <1>1, <1>3, <1>4, <2>1
  <2>2. CASE \E k \in DOMAIN commands : commands'[i] = commands[k]
    <3>1. PICK k \in DOMAIN commands : commands'[i] = commands[k]
      BY <2>2
    <3>2. commands[k].id # j
      BY <1>5, <3>1 DEF Ids
    <3>. QED BY <1>4, <3>1, <3>2 DEF Told, CommandsTold
  <2>. QED BY <1>0, <1>3, <2>1, <2>2, CommandSent
<1>9. Idle'
  BY <1>0 DEF Told, Idle, serviceVars
<1>10. Cardinality(Open)' <= MaxRequests
  <2>1. Open' = Open \cup {j}
    BY <1>1, <1>4 DEF Open
  <2>2. IsFiniteSet(Open) /\ Cardinality(Open) \in Nat
    BY JobsFinite DEF Open
  <2>3. Cardinality(Open \cup {j}) = Cardinality(Open) + 1
    BY <1>0, <2>2, FS_AddElement
  <2>. QED BY <1>0, <2>1, <2>2, <2>3, Limits
<1>. QED BY <1>6, <1>7, <1>8, <1>9, <1>10 DEF Told

LEMMA AbortTold ==
  ASSUME Inv, Told, NEW j \in Jobs, abort(j)
  PROVE  Told'
<1>. DEFINE c == [type |-> "cancel", id |-> j, count |-> 0]
<1>0. /\ UNCHANGED <<process, serviceVars, frames, pool, requests, counts>>
      /\ commands' = Append(commands, c) /\ Len(commands) < MaxPipe
  BY DEF abort
<1>1. c \in Commands /\ c.type = "cancel"
  BY Limits DEF Commands
<1>. HIDE DEF c
<1>2. \A i \in DOMAIN commands' :
        (\E k \in DOMAIN commands : commands'[i] = commands[k]) \/ commands'[i] = c
  BY <1>0, <1>1, CommandSent
<1>3. CommandsTold'
  BY <1>0, <1>1, <1>2 DEF Told, CommandsTold
<1>4. FramesTold'
  BY <1>0 DEF Told, FramesTold, Tells
<1>5. JobsTold'
  BY <1>0 DEF Told, JobsTold, serviceVars, Working, Live
<1>6. Idle' /\ Cardinality(Open)' <= MaxRequests
  BY <1>0 DEF Told, Idle, serviceVars, Open
<1>. QED BY <1>3, <1>4, <1>5, <1>6 DEF Told

-----------------------------------------------------------------------------
(* The pool reads a frame.                                                 *)

\* Settled requests leave room.
LEMMA OpenFewer ==
  ASSUME NEW S \in SUBSET Open, Cardinality(Open) <= MaxRequests
  PROVE  Cardinality(S) <= MaxRequests
<1>1. Open \in SUBSET Jobs /\ S \in SUBSET Jobs
  BY DEF Open
<1>2. /\ IsFiniteSet(Open) /\ Cardinality(Open) \in Nat /\ Cardinality(S) \in Nat
      /\ Cardinality(S) <= Cardinality(Open)
  BY <1>1, JobsFinite, FS_Subset
<1>. QED BY <1>2, Limits

\* What the pool keeps when it has read the frame f.
LEMMA TakeRequests ==
  ASSUME Inv, Listening, frames # <<>>, Fits(Head(frames)), Take(Head(frames)),
         NEW k \in Jobs, Head(frames).type \in Finals => k # Head(frames).id
  PROVE  LET f == Head(frames) IN
         /\ requests'[k].open = requests[k].open /\ requests'[k].base = requests[k].base
         /\ requests'[k].started <=> requests[k].started \/ (f.type = "started" /\ f.id = k)
         /\ \A r \in Reports : requests'[k].capture = r <=>
              requests[k].capture = r \/ (f.type = "capture" /\ f.id = k /\ Report(f.fields) = r)
         /\ k # f.id => requests'[k] = requests[k]
<1>. DEFINE f == Head(frames)
            j == f.id
<1>0. /\ requests \in [Jobs -> [open : BOOLEAN, started : BOOLEAN, base : 0..MaxCount,
                                capture : Reports \cup {None}]]
      /\ None \notin Reports /\ f \in Frames /\ None \notin Jobs
  <2>1. f \in Frames
    <3>1. frames \in Seq(Frames)
      BY DEF Inv, Typed
    <3>. HIDE DEF Frames
    <3>. QED BY <3>1
  <2>. QED BY <2>1, Bases, ServiceAssumption DEF Inv, Typed, TypeOK, Reports
<1>1. f.type = "ready" \/ (j \in Jobs /\ f.type \in {"resolved", "started", "capture", "attempt"})
  BY DEF Fits, Open
<1>2. CASE f.type \in Finals
  <2>1. finish({j})
    BY <1>2 DEF Take, Finals
  <2>2. requests'[k] = requests[k]
    BY <1>2, <2>1 DEF finish
  <2>3. f.type # "started" /\ f.type # "capture"
    BY <1>2 DEF Finals
  <2>. HIDE DEF f
  <2>. QED BY <2>2, <2>3 DEF f
<1>3. CASE f.type = "ready"
  <2>1. requests' = requests
    BY <1>3 DEF Take
  <2>. HIDE DEF f
  <2>. QED BY <1>3, <2>1 DEF f
<1>4. CASE f.type = "started"
  <2>1. requests' = [requests EXCEPT ![j].started = TRUE]
    BY <1>4 DEF Take
  <2>. HIDE DEF f
  <2>. QED BY <1>0, <1>1, <1>4, <2>1 DEF f
<1>5. CASE f.type = "capture"
  <2>1. requests' = [requests EXCEPT ![j].capture = Report(f.fields)]
    BY <1>5 DEF Take, Report
  <2>2. requests[j].capture = None
    BY <1>5 DEF Fits
  <2>. HIDE DEF f
  <2>3. /\ requests'[k].open = requests[k].open /\ requests'[k].base = requests[k].base
        /\ requests'[k].started = requests[k].started
        /\ k # j => requests'[k] = requests[k]
        /\ k = j => requests'[k].capture = Report(f.fields)
    BY <1>0, <1>1, <2>1
  <2>. QED BY <1>0, <1>5, <2>2, <2>3 DEF f
<1>. QED BY <1>1, <1>2, <1>3, <1>4, <1>5 DEF Finals

\* What it has read, it knows; the rest of the story is the same.
LEMMA TakeTold ==
  ASSUME Inv, Told, Listening, frames # <<>>, Fits(Head(frames)), Take(Head(frames))
  PROVE  Told'
<1>. DEFINE f == Head(frames)
<1>0. /\ frames' = Tail(frames) /\ UNCHANGED <<process, serviceVars, commands>>
      /\ frames \in Seq(Frames)
  BY DEF Take, Inv, Typed
<1>1. PICK n \in Nat :
        /\ Len(frames) = n + 1 /\ DOMAIN frames = 1..(n + 1) /\ frames[1] = f
        /\ Len(frames') = n /\ DOMAIN frames' = 1..n
        /\ \A i \in 1..n : frames'[i] = frames[i + 1] /\ i + 1 \in DOMAIN frames
        /\ f \in Frames
  <2>. HIDE DEF Frames
  <2>. DEFINE m == Len(frames) - 1
  <2>1. m \in Nat /\ Len(frames) = m + 1 /\ DOMAIN frames = 1..(m + 1) /\ frames[1] = f
        /\ Len(frames') = m /\ DOMAIN frames' = 1..m /\ f \in Frames
        /\ \A i \in 1..m : frames'[i] = frames[i + 1] /\ i + 1 \in DOMAIN frames
    BY <1>0
  <2>. HIDE DEF m
  <2>. QED BY <2>1
<1>2. ASSUME NEW k \in Jobs, f.type \in Finals => k # f.id
      PROVE  /\ requests'[k].open = requests[k].open /\ requests'[k].base = requests[k].base
             /\ k # f.id => requests'[k] = requests[k]
             /\ \A i \in 1..(n + 1) :
                  /\ StartedBy(requests', frames', k, i) <=> StartedBy(requests, frames, k, i + 1)
                  /\ \A r \in Reports : ReportedBy(requests', frames', k, i, r)
                                          <=> ReportedBy(requests, frames, k, i + 1, r)
  <2>1. /\ requests'[k].open = requests[k].open /\ requests'[k].base = requests[k].base
        /\ requests'[k].started <=> requests[k].started \/ (f.type = "started" /\ f.id = k)
        /\ \A r \in Reports : requests'[k].capture = r <=>
             requests[k].capture = r \/ (f.type = "capture" /\ f.id = k /\ Report(f.fields) = r)
        /\ k # f.id => requests'[k] = requests[k]
    BY <1>2, TakeRequests
  <2>2. \A i \in 1..Len(frames) :
          /\ StartedBy(requests', Tail(frames), k, i) <=> StartedBy(requests, frames, k, i + 1)
          /\ \A r \in Reports : ReportedBy(requests', Tail(frames), k, i, r)
                                  <=> ReportedBy(requests, frames, k, i + 1, r)
    BY <1>0, <2>1, Heard
  <2>. QED BY <1>0, <1>1, <2>1, <2>2
<1>. HIDE DEF f
<1>3. FramesTold'
  <2>. SUFFICES ASSUME NEW i \in 1..n
                PROVE  /\ Tells(requests', frames', frames'[i], i)
                       /\ frames'[i].type = "ready" => i = 1 /\ pool' = "starting"
                       /\ frames'[i].type \in Finals =>
                            \A k \in 1..n : k > i => frames'[k].id # frames'[i].id
    BY <1>1 DEF FramesTold
  <2>. DEFINE g == frames[i + 1]
  <2>1. /\ frames'[i] = g /\ i + 1 \in DOMAIN frames /\ i + 1 > 1 /\ 1 \in DOMAIN frames
        /\ g \in Frames
    <3>1. i + 1 \in DOMAIN frames => frames[i + 1] \in Frames
      BY Piped DEF Inv
    <3>. QED BY <1>1, <3>1
  <2>2. /\ Tells(requests, frames, g, i + 1) /\ g.type # "ready"
        /\ g.type \in Finals => \A k \in DOMAIN frames : k > i + 1 => frames[k].id # g.id
        /\ f.type \in Finals => g.id # f.id
    BY <1>1, <2>1 DEF Told, FramesTold
  <2>. HIDE DEF g
  <2>3. g.type # "error" /\ g.id \in Jobs
    <3>1. g.type # "error"
      BY <2>2 DEF Tells
    <3>. QED BY <2>1, <2>2, <3>1, FrameFacts DEF Jobs
  <2>4. /\ requests'[g.id].open = requests[g.id].open /\ requests'[g.id].base = requests[g.id].base
        /\ StartedBy(requests', frames', g.id, i) <=> StartedBy(requests, frames, g.id, i + 1)
        /\ \A r \in Reports : ReportedBy(requests', frames', g.id, i, r)
                                <=> ReportedBy(requests, frames, g.id, i + 1, r)
    BY <1>2, <2>2, <2>3
  <2>5. Tells(requests', frames', g, i)
    BY <2>2, <2>4 DEF Tells
  <2>6. g.type \in Finals => \A k \in 1..n : k > i => frames'[k].id # g.id
    BY <1>1, <2>2
  <2>. QED BY <2>1, <2>2, <2>5, <2>6
<1>4. JobsTold'
  <2>. SUFFICES ASSUME NEW k \in Attempts \cap Working
                PROVE  Story(requests', frames', k, jobs[k], successes[Bounty[k]])
    BY <1>0 DEF serviceVars, JobsTold, Working, Live
  <2>1. Story(requests, frames, k, jobs[k], successes[Bounty[k]]) /\ k \in Jobs
    BY DEF Told, JobsTold, Jobs
  <2>2. f.type \in Finals => k # f.id
    <3>1. f.type \in Finals => f.id \in Ids(frames, Finals)
      BY <1>1 DEF Ids
    <3>. QED BY <3>1 DEF Inv, Apart
  <2>3. /\ requests'[k].base = requests[k].base
        /\ StartedBy(requests', frames', k, n + 1) <=> StartedBy(requests, frames, k, n + 1 + 1)
        /\ \A r \in Reports : ReportedBy(requests', frames', k, n + 1, r)
                                <=> ReportedBy(requests, frames, k, n + 1 + 1, r)
    BY <1>2, <2>1, <2>2
  <2>. QED BY <1>1, <2>1, <2>3 DEF Story
<1>5. CommandsTold'
  <2>. SUFFICES ASSUME NEW i \in DOMAIN commands, commands[i].type = "request"
                PROVE  requests'[commands[i].id] = requests[commands[i].id]
    BY <1>0 DEF Told, CommandsTold
  <2>1. commands[i].id \in Jobs /\ commands[i].id # f.id
    <3>1. commands[i].id \in Ids(commands, {"request"}) /\ f.id \in Named(frames)
      BY <1>1 DEF Ids, Named
    <3>. QED BY <3>1, Piped DEF Inv, Apart
  <2>. QED BY <1>2, <2>1
<1>6. Idle'
  BY <1>0 DEF Told, Idle, serviceVars
<1>7. Cardinality(Open)' <= MaxRequests
  <2>1. Open' \subseteq Open
    <3>. SUFFICES ASSUME NEW k \in Jobs, requests'[k].open
                  PROVE  requests[k].open
      BY DEF Open
    <3>1. CASE f.type \in Finals /\ k = f.id
      <4>1. finish({f.id})
        BY <3>1 DEF Take, Finals, f
      <4>. QED BY <3>1, <4>1 DEF finish, Unasked
    <3>2. CASE f.type \in Finals => k # f.id
      BY <1>2, <3>2
    <3>. QED BY <3>1, <3>2
  <2>. QED BY <2>1, OpenFewer DEF Told
<1>. QED BY <1>3, <1>4, <1>5, <1>6, <1>7 DEF Told

-----------------------------------------------------------------------------
(* A process ends, and another one starts.                                 *)

LEMMA EndTold ==
  ASSUME Inv, Told, Ends,
         \/ frames' = <<>> /\ commands' = <<>> /\ (UNCHANGED requests \/ finish(Jobs))
         \/ UNCHANGED <<requests, pool, frames, commands>>
         \/ start
  PROVE  Told'
<1>1. /\ \A j \in Jobs : jobs'[j] = NoJob
      /\ Working' = {} /\ JobsTold' /\ Idle'
  <2>1. \A j \in Jobs : jobs'[j] = NoJob
    BY DEF Ends, Fresh
  <2>2. Working' = {}
    BY <2>1 DEF Working, Live, NoJob
  <2>. QED BY <2>1, <2>2 DEF JobsTold, Idle
<1>2. Cardinality(Open)' <= MaxRequests
  <2>1. Open' \subseteq Open
    BY DEF start, finish, Unasked, Open
  <2>. QED BY <2>1, OpenFewer DEF Told
<1>3. CASE frames' = <<>> /\ commands' = <<>>
  BY <1>1, <1>2, <1>3 DEF Told, FramesTold, CommandsTold
<1>4. CASE UNCHANGED <<requests, pool, frames, commands>>
  <2>1. FramesTold'
    BY <1>4 DEF Told, FramesTold, Tells
  <2>2. CommandsTold'
    BY <1>4 DEF Told, CommandsTold
  <2>. QED BY <1>1, <1>2, <2>1, <2>2 DEF Told
<1>5. CASE start
  <2>1. /\ DOMAIN frames' = {1} /\ frames'[1].type = "ready" /\ pool' = "starting"
        /\ process = "gone" /\ UNCHANGED commands
    BY <1>5 DEF start
  <2>2. FramesTold'
    BY <2>1 DEF FramesTold, Tells, Finals
  <2>3. CommandsTold'
    BY <2>1 DEF Inv, Phased, CommandsTold
  <2>. QED BY <1>1, <1>2, <2>2, <2>3 DEF Told
<1>. QED BY <1>3, <1>4, <1>5

LEMMA ToldStep ==
  ASSUME Inv, Told, [Next]_vars, MaxRequests + Concurrency + DnsLimit <= MaxJobs
  PROVE  Told'
<1>1. CASE UNCHANGED <<process, jobs, successes, commands, frames, pool, requests>>
  <2>1. /\ \A j \in Attempts \cap Working' :
             Story(requests, frames, j, jobs'[j], successes'[Bounty[j]])
        /\ Idle'
    BY <1>1 DEF Told, JobsTold, Working, Live, Idle
  <2>. QED BY <1>1, <2>1, Quiet
<1>2. ASSUME NEW j \in Jobs, schedule(j) \/ Thread(j), UNCHANGED poolVars
      PROVE  Told'
  <2>1. CASE schedule(j) \/ leave(j) \/ begin(j) \/ verify(j)
    BY <1>2, <2>1, SilentTold
  <2>2. CASE lookUp(j)
    <3>1. \/ Advance(j, "leaving") /\ Emit(Resolved(j, j \notin cancelled))
          \/ Advance(j, "resolving") /\ UNCHANGED frames
      BY <2>2 DEF lookUp
    <3>. QED BY <1>2, <2>2, <3>1, SilentTold, AnswerTold
  <2>3. CASE started(j)
    <3>1. \/ Advance(j, "concluding") /\ UNCHANGED frames
          \/ /\ jobs' = [jobs EXCEPT ![j].stage = "open", ![j].started = TRUE]
             /\ Emit(Started(j))
      BY <2>3 DEF started
    <3>. QED BY <1>2, <2>3, <3>1, SilentTold, StartedTold
  <2>4. CASE capture(j)
    BY <1>2, <2>4, CaptureTold
  <2>5. CASE resolved(j) \/ conclude(j)
    BY <1>2, <2>5, AnswerTold
  <2>. QED BY <1>2, <2>1, <2>2, <2>3, <2>4, <2>5 DEF Thread
<1>3. CASE Service /\ UNCHANGED poolVars
  <2>1. CASE accept \/ cancel
    BY <1>3, <2>1, AcceptTold, CancelTold
  <2>2. CASE \E j \in Jobs : schedule(j) \/ Thread(j)
    BY <1>2, <1>3, <2>2
  <2>3. CASE \E d \in Domains : expires(d)
    BY <1>1, <1>3, <2>3 DEF expires, poolVars
  <2>. QED BY <1>3, <2>1, <2>2, <2>3 DEF Service
<1>4. CASE \E j \in Jobs : request(j) \/ abort(j)
  BY <1>4, RequestTold, AbortTold
<1>5. CASE start \/ close \/ crash \/ closed
  <2>1. CASE start \/ closed
    <3>1. Ends
      BY <2>1 DEF start, closed, serviceVars, Inv, Phased, Ends, Fresh
    <3>. QED BY <2>1, <3>1, EndTold DEF closed
  <2>2. CASE close \/ crash
    BY <2>2, EndTold DEF close, crash, poolVars
  <2>. QED BY <1>5, <2>1, <2>2
<1>6. CASE fail
  BY <1>6, EndTold DEF fail
<1>7. CASE receive
  BY <1>6, <1>7, TakeTold DEF receive
<1>8. CASE deadline \/ inputFails
  BY <1>6, <1>8 DEF deadline, inputFails
<1>9. CASE UNCHANGED vars
  BY <1>1, <1>9 DEF vars, serviceVars, poolVars
<1>. QED BY <1>3, <1>4, <1>5, <1>7, <1>8, <1>9 DEF Next

LEMMA ToldFits ==
  ASSUME Inv, Told, Listening, frames # <<>>
  PROVE  Fits(Head(frames))
<1>. DEFINE f == Head(frames)
            q == requests[f.id]
<1>1. f \in Frames /\ 1 \in DOMAIN frames /\ f = frames[1]
  <2>1. f = frames[1] /\ 1 \in DOMAIN frames
    BY DEF Inv, Typed
  <2>. QED BY <2>1, Piped DEF Inv
<1>. HIDE DEF f
<1>2. Tells(requests, frames, f, 1) /\ (f.type = "ready" => pool = "starting")
  BY <1>1 DEF Told, FramesTold
<1>3. /\ \A j : StartedBy(requests, frames, j, 1) <=> requests[j].started
      /\ \A j, r : ReportedBy(requests, frames, j, 1, r) <=> requests[j].capture = r
  <2>1. 1..(1 - 1) = {}
    OBVIOUS
  <2>. QED BY <2>1 DEF StartedBy, ReportedBy
<1>4. f.type # "error"
  BY <1>2 DEF Tells
<1>5. CASE f.type = "ready"
  BY <1>2, <1>5 DEF Fits, f
<1>6. CASE f.type \in {"started", "resolved", "capture", "attempt"}
  <2>1. /\ f.id \in Jobs /\ f.id \in Open
        /\ f.type = "resolved" => f.id \in Resolves
        /\ f.type # "resolved" => f.id \in Attempts
        /\ f.type \in {"capture", "attempt"} => f.fields \in FieldSet
    <3>1. f.id \in Jobs
      BY <1>1, <1>6, FrameFacts DEF Jobs
    <3>2. f.id \in Open
      BY <1>2, <1>6, <3>1 DEF Tells, Open
    <3>. QED BY <1>1, <1>6, <3>1, <3>2, FrameFacts
  <2>2. q.started \in BOOLEAN /\ q.capture \in Reports \cup {None} /\ None \notin Reports
    BY <2>1, Bases
  <2>. HIDE DEF q
  <2>3. CASE f.type = "resolved"
    BY <2>1, <2>3 DEF Fits, f
  <2>4. CASE f.type = "started"
    <3>1. ~q.started /\ q.capture = None
      BY <1>2, <1>3, <2>2, <2>4 DEF Tells, q
    <3>. QED BY <2>1, <2>4, <3>1 DEF Fits, f, q
  <2>5. CASE f.type = "capture"
    <3>1. /\ q.started /\ f.fields.started /\ q.capture = None
          /\ f.fields.count >= Least(q.base, f.fields.captured)
      BY <1>2, <1>3, <2>2, <2>5 DEF Tells, q
    <3>2. FieldsFit(f.fields, q)
      BY <2>1, <2>2, <2>5, <3>1 DEF FieldsFit, Least, FieldSet
    <3>. QED BY <2>1, <2>5, <3>1, <3>2 DEF Fits, f, q
  <2>6. CASE f.type = "attempt"
    <3>1. /\ f.fields.started <=> q.started
          /\ f.fields.captured => f.fields.started
          /\ \A r \in Reports : q.capture = r <=> f.fields.started /\ r = Report(f.fields)
          /\ f.fields.count >= Least(q.base, f.fields.captured)
          /\ f.proof => f.fields.captured /\ ~f.cancelled
      BY <1>2, <1>3, <2>6 DEF Tells, q
    <3>2. FieldsFit(f.fields, q)
      BY <2>1, <2>2, <2>6, <3>1 DEF FieldsFit, Least, FieldSet
    <3>3. Report(f.fields) \in Reports
      BY <2>1, <2>6 DEF FieldSet, Report, Reports
    <3>4. q.started => q.capture # None
      BY <2>2, <3>1, <3>3
    <3>5. q.capture # None => q.capture = Report(f.fields)
      BY <2>2, <3>1
    <3>. QED BY <2>1, <2>6, <3>1, <3>2, <3>4, <3>5 DEF Fits, f, q, Report
  <2>. QED BY <1>6, <2>3, <2>4, <2>5, <2>6
<1>. QED BY <1>1, <1>4, <1>5, <1>6, FrameFacts

\* The pool takes whatever the helper sends: in whatever order the threads of several
\* jobs write their frames, and whatever is cancelled meanwhile, each frame fits what the
\* pool knows of its request when it comes to it (claim-pool.mjs:104-147).  There must be
\* room for the jobs that have answered and still hold a slot beside one for each
\* request: a helper with too many jobs gives up, and the pool with it.
THEOREM HelperFrames ==
  ASSUME MaxRequests + Concurrency + DnsLimit <= MaxJobs
  PROVE  Spec => []FramesFit
<1>1. Init => Inv /\ Told
  <2>1. Init => Told
    <3>. SUFFICES ASSUME Init PROVE Told
      OBVIOUS
    <3>1. \A j \in Jobs : jobs[j] = NoJob /\ requests[j] = Unasked
      BY DEF Init, ServiceInit, Fresh
    <3>2. Working = {} /\ Open = {}
      BY <3>1 DEF Working, Live, NoJob, Open, Unasked
    <3>3. Cardinality(Open) = 0
      BY <3>2, FS_EmptySet
    <3>. QED BY <3>1, <3>2, <3>3, Limits
         DEF Init, Told, FramesTold, JobsTold, CommandsTold, Idle
  <2>. QED BY <2>1, InvInit
<1>2. Inv /\ Told /\ [Next]_vars => (Inv /\ Told)'
  BY InvStep, ToldStep
<1>3. Inv /\ Told => FramesFit
  BY ToldFits DEF FramesFit
<1>. QED BY <1>1, <1>2, <1>3, PTL DEF Spec
=============================================================================

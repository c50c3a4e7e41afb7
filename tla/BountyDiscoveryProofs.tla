------------------------ MODULE BountyDiscoveryProofs ------------------------
(***************************************************************************)
(* Proofs about BountyDiscovery: its types and, for every chain, window,   *)
(* page size and number of passes, what it promises of the catalogue and   *)
(* of the work the catalogue allows.                                       *)
(***************************************************************************)
EXTENDS BountyDiscovery, FiniteSetTheorems, WellFoundedInduction, TLAPS

IsChain(c) ==
  /\ c \in Seq(Blocks) /\ c # <<>>
  /\ \A h \in 1..Len(c) :
       Height[c[h]] = h /\ (h > 1 => Parent[c[h]] = c[h - 1])

\* The version of a bounty after n events of the journal j.
VersionIn(j, b, n) ==
  Cardinality({i \in 1..n : j[i].block = b /\ j[i].kind \in {"spent", "back"}})

\* The steps between the first page of the journal and the publication.
Following == {"pages", "load", "drain", "recheck"}
Reading == Following \cup {"window"}
Syncing == Reading \cup {"watermark"}

\* Where a sync stands.
Placed ==
  /\ IsChain(chain) /\ (tip # <<>> => IsChain(tip))
  /\ step # "failed" => pass < MaxPasses
  /\ step \notin {"reset", "failed"} => restart < MaxRestarts
  /\ step \in Reading => at # None
  /\ step = "recheck" /\ enabled => at >= since
  /\ at = None => Known(staged) = {}
  /\ step \in {"idle", "reset", "watermark", "window"} => dirty = {}
  /\ cursor = None => Known(blocks) = {}
  /\ step \in Following /\ enabled => tip # <<>> /\ Known(staged) \subseteq Wanted
  /\ Of(page, {"spent"}) \subseteq Of(journal, {"spent"})

\* What was staged is the server's at some moment, and lacks only what the events
\* that are still to be read will mark.
Replayed ==
  /\ \A b \in Known(staged) :
       /\ staged[b] <= VersionIn(journal, b, Len(journal))
       /\ at # None => \/ staged[b] >= VersionIn(journal, b, at)
                       \/ b \in dirty
                       \/ step = "window" /\ b \in Of(page, {"spent", "back"})
  /\ \A b \in Known(blocks) : blocks[b] <= VersionIn(journal, b, Len(journal))

\* The engine works on what the catalogue lists.
Listed ==
  /\ Known(blocks) \subseteq outpoints /\ working \ retired \subseteq Known(blocks)
  /\ enabled /\ step \in Syncing =>
       /\ working \ retired \subseteq Known(staged)
       /\ ~paused => queue \subseteq Known(staged)

\* No work on replaced blocks.
Stands(t, b) == Height[b] <= Len(t) /\ (Height[b] >= Oldest(t, Window) => t[Height[b]] = b)
Standing ==
  /\ \A b \in working : Stands(tip, b)
  /\ enabled /\ ~paused => \A b \in queue : Stands(tip, b)

Inv == TypeOK /\ Placed /\ Replayed /\ Coherent /\ Listed /\ CaughtUp /\ Standing

-----------------------------------------------------------------------------
(* Versions.                                                               *)

LEMMA VersionTyped ==
  ASSUME NEW j, NEW b, NEW n \in Nat
  PROVE  VersionIn(j, b, n) \in 0..n
<1>. DEFINE S == {i \in 1..n : j[i].block = b /\ j[i].kind \in {"spent", "back"}}
<1>1. IsFiniteSet(1..n) /\ Cardinality(1..n) = n
  BY FS_Interval
<1>2. S \in SUBSET (1..n)
  OBVIOUS
<1>3. IsFiniteSet(S) /\ Cardinality(S) <= n
  BY <1>1, <1>2, FS_Subset
<1>4. Cardinality(S) \in Nat
  BY <1>3, FS_CardinalityType
<1>. QED BY <1>3, <1>4 DEF VersionIn

LEMMA VersionGrows ==
  ASSUME NEW j, NEW b, NEW m \in Nat, NEW n \in Nat, m <= n
  PROVE  VersionIn(j, b, m) <= VersionIn(j, b, n)
<1>. DEFINE S(k) == {i \in 1..k : j[i].block = b /\ j[i].kind \in {"spent", "back"}}
<1>1. IsFiniteSet(1..n)
  BY FS_Interval
<1>2. S(n) \in SUBSET (1..n) /\ S(m) \in SUBSET S(n)
  OBVIOUS
<1>3. IsFiniteSet(S(n))
  BY <1>1, <1>2, FS_Subset
<1>4. Cardinality(S(m)) <= Cardinality(S(n))
  BY <1>2, <1>3, FS_Subset
<1>. QED BY <1>4 DEF VersionIn

\* A bounty that no event of a page is about has the same version after it.
LEMMA VersionPage ==
  ASSUME NEW j \in Seq(Events), NEW b, NEW m \in 0..Len(j), NEW n \in 0..Len(j), m <= n,
         b \notin Of(SubSeq(j, m + 1, n), {"spent", "back"})
  PROVE  VersionIn(j, b, n) = VersionIn(j, b, m)
<1>. DEFINE S(k) == {i \in 1..k : j[i].block = b /\ j[i].kind \in {"spent", "back"}}
<1>1. ASSUME NEW i \in S(n), i > m
      PROVE  FALSE
  <2>. DEFINE p == SubSeq(j, m + 1, n)
  <2>1. i - m \in DOMAIN p /\ p[i - m] = j[i]
    BY <1>1
  <2>. HIDE DEF p
  <2>2. p[i - m].block \in Of(p, {"spent", "back"})
    BY <1>1, <2>1 DEF Of
  <2>. QED BY <1>1, <2>1, <2>2 DEF p
<1>2. S(n) = S(m)
  BY <1>1
<1>. QED BY <1>2 DEF VersionIn

\* An event to come changes no version of the past.
LEMMA VersionAppend ==
  ASSUME NEW j \in Seq(Events), NEW e, NEW b, NEW n \in 0..Len(j)
  PROVE  VersionIn(Append(j, e), b, n) = VersionIn(j, b, n)
<1>. DEFINE S(k) == {i \in 1..n : k[i].block = b /\ k[i].kind \in {"spent", "back"}}
<1>1. \A i \in 1..n : Append(j, e)[i] = j[i]
  OBVIOUS
<1>2. S(Append(j, e)) = S(j)
  BY <1>1
<1>. QED BY <1>2 DEF VersionIn

\* A bounty an event of the journal is about has changed.
LEMMA VersionSpent ==
  ASSUME NEW j \in Seq(Events), NEW b \in Of(j, {"spent"})
  PROVE  VersionIn(j, b, Len(j)) > 0
<1>. DEFINE S == {i \in 1..Len(j) : j[i].block = b /\ j[i].kind \in {"spent", "back"}}
<1>1. S # {}
  BY DEF Of
<1>2. IsFiniteSet(1..Len(j)) /\ S \in SUBSET (1..Len(j))
  BY FS_Interval
<1>3. IsFiniteSet(S) /\ Cardinality(S) \in Nat
  BY <1>2, FS_Subset, FS_CardinalityType
<1>4. Cardinality(S) # 0
  BY <1>1, <1>3, FS_EmptySet
<1>. QED BY <1>3, <1>4 DEF VersionIn

LEMMA PageInJournal ==
  ASSUME NEW j \in Seq(Events), NEW m \in 0..Len(j), NEW n \in 0..Len(j), NEW K
  PROVE  /\ SubSeq(j, m + 1, n) \in Seq(Events)
         /\ Of(SubSeq(j, m + 1, n), K) \subseteq Of(j, K)
<1>. DEFINE p == SubSeq(j, m + 1, n)
<1>1. p \in Seq(Events)
  OBVIOUS
<1>2. \A i \in DOMAIN p : i + m \in DOMAIN j /\ p[i] = j[i + m]
  OBVIOUS
<1>. HIDE DEF p
<1>3. Of(p, K) \subseteq Of(j, K)
  BY <1>2 DEF Of
<1>. QED BY <1>1, <1>3 DEF p

LEMMA VersionDef ==
  /\ \A b, n : Version(b, n) = VersionIn(journal, b, n)
  /\ \A b, n : Version(b, n)' = VersionIn(journal', b, n)
BY DEF Version, VersionIn

-----------------------------------------------------------------------------
(* Chains.                                                                 *)

LEMMA Least ==
  ASSUME NEW T \in SUBSET Nat, T # {}
  PROVE  \E x \in T : \A y \in T : x <= y
<1>. DEFINE R == {p \in Nat \X Nat : p[1] < p[2]}
<1>1. OpToRel(<, Nat) = R
  BY DEF OpToRel
<1>2. IsWellFoundedOn(R, Nat)
  BY <1>1, NatLessThanWellFounded
<1>3. \A x, y \in Nat : y < x => <<y, x>> \in R
  OBVIOUS
<1>. HIDE DEF R
<1>4. PICK x \in T : \A y \in T : ~(<<y, x>> \in R)
  BY <1>2, WFMin
<1>5. ASSUME NEW y \in T
      PROVE  x <= y
  <2>1. x \in Nat /\ y \in Nat
    OBVIOUS
  <2>2. ~(<<y, x>> \in R)
    BY <1>4
  <2>3. ~(y < x)
    BY <1>3, <2>1, <2>2
  <2>. QED BY <2>1, <2>3
<1>. QED BY <1>5

\* A block determines the chain up to it.
LEMMA ChainsAgree ==
  ASSUME NEW c, NEW d, IsChain(c), IsChain(d), c[Len(c)] = d[Len(d)]
  PROVE  c = d
<1>1. Len(c) \in Nat \ {0} /\ Len(d) \in Nat \ {0}
  BY DEF IsChain
<1>2. Len(c) = Len(d)
  BY <1>1 DEF IsChain
<1>. DEFINE T == {k \in Nat : k < Len(c) /\ c[Len(c) - k] # d[Len(c) - k]}
<1>3. ASSUME T # {}
      PROVE  FALSE
  <2>1. PICK k \in T : \A l \in T : k <= l
    BY <1>3, Least
  <2>2. k \in Nat \ {0} /\ k < Len(c)
    BY <1>1, <1>2, <2>1
  <2>3. k - 1 \in Nat /\ k - 1 \notin T
    BY <2>1, <2>2
  <2>4. c[Len(c) - (k - 1)] = d[Len(c) - (k - 1)]
    BY <2>2, <2>3, <1>1
  <2>. DEFINE h == Len(c) - (k - 1)
  <2>5. h \in 1..Len(c) /\ h > 1 /\ h - 1 = Len(c) - k
    BY <1>1, <2>2
  <2>6. Parent[c[h]] = c[h - 1] /\ Parent[d[h]] = d[h - 1]
    BY <1>2, <2>5 DEF IsChain
  <2>7. c[Len(c) - k] = d[Len(c) - k]
    BY <2>4, <2>5, <2>6
  <2>. QED BY <2>1, <2>7
<1>4. \A i \in 1..Len(c) : c[i] = d[i]
  <2>1. ASSUME NEW i \in 1..Len(c)
        PROVE  c[i] = d[i]
    <3>1. Len(c) - i \in Nat /\ Len(c) - i < Len(c) /\ Len(c) - (Len(c) - i) = i
      BY <1>1
    <3>. QED BY <1>3, <3>1
  <2>. QED BY <2>1
<1>5. c \in [1..Len(c) -> Blocks] /\ d \in [1..Len(c) -> Blocks]
  BY <1>2 DEF IsChain
<1>. QED BY <1>4, <1>5

\* A new block, at the end or in place of another, makes a chain of a chain.
LEMMA ChainGrows ==
  ASSUME NEW c, IsChain(c), NEW b \in Blocks, NEW h \in 1..Len(c), Parent[b] = c[h]
  PROVE  IsChain(Append(SubSeq(c, 1, h), b))
<1>. DEFINE d == Append(SubSeq(c, 1, h), b)
<1>1. c \in Seq(Blocks) /\ c[h] \in Blocks /\ Height[c[h]] = h
  BY DEF IsChain
<1>2. Height[b] = h + 1
  <2>1. None \notin Blocks /\ \A x \in Blocks : Parent[x] # None => Height[x] = Height[Parent[x]] + 1
    BY DiscoveryAssumption
  <2>2. Parent[b] # None
    BY <1>1, <2>1
  <2>. QED BY <1>1, <2>1, <2>2
<1>3. d \in Seq(Blocks) /\ Len(d) = h + 1 /\ d[h + 1] = b
  BY <1>1
<1>4. \A i \in 1..h : d[i] = c[i]
  BY <1>1
<1>. HIDE DEF d
<1>5. \A i \in 1..h : Height[d[i]] = i /\ (i > 1 => Parent[d[i]] = d[i - 1])
  BY <1>4 DEF IsChain
<1>6. Height[d[h + 1]] = h + 1 /\ Parent[d[h + 1]] = d[h]
  BY <1>2, <1>3, <1>4
<1>7. IsChain(d)
  BY <1>3, <1>5, <1>6 DEF IsChain
<1>. QED BY <1>7 DEF d

\* Facts of constants that the steps need.
LEMMA Bounds ==
  /\ {Window, PageSize, MaxPasses, MaxRestarts} \subseteq Nat \ {0} /\ MaxEvents \in Nat
  /\ None \notin Nat /\ None \notin Blocks /\ Height \in [Blocks -> Nat \ {0}]
  /\ Genesis \in Seq(Blocks)
BY DiscoveryAssumption

-----------------------------------------------------------------------------
(* The beginning, and the server.                                          *)

LEMMA InvInit == Init => Inv
<1>. SUFFICES ASSUME Init PROVE Inv
  OBVIOUS
<1>1. Known(NoView) = {} /\ NoView \in View
  BY DEF Known, NoView, View
<1>2. <<>> \in Seq(Blocks) /\ <<>> \in Seq(Events) /\ Len(<<>>) = 0
  OBVIOUS
<1>3. TypeOK
  <2>1. chain \in Seq(Blocks) /\ journal \in Seq(Events) /\ tip \in Seq(Blocks) /\ page \in Seq(Events)
    BY <1>2, Bounds DEF Init
  <2>2. Len(journal) = 0 /\ blocks \in View /\ staged \in View
    BY <1>1, <1>2 DEF Init
  <2>3. cursor = None /\ at = None /\ lookback \in 1..Window /\ outpoints \subseteq Blocks
        /\ queue \subseteq Blocks /\ dirty \subseteq Blocks
        /\ retired \subseteq working /\ working \subseteq outpoints
    BY DEF Init
  <2>4. enabled \in BOOLEAN /\ paused \in BOOLEAN /\ hasMore \in BOOLEAN /\ step = "idle"
        /\ since = 0 /\ pass = 0 /\ restart = 0
    BY DEF Init
  <2>. QED BY <2>1, <2>2, <2>3, <2>4, Bounds DEF TypeOK
<1>4. IsChain(chain)
  BY DiscoveryAssumption DEF Init, IsChain
<1>5. Placed
  BY <1>1, <1>4, Bounds DEF Init, Placed, Following, Reading, Of
<1>6. Replayed /\ Coherent /\ Listed /\ CaughtUp /\ Standing
  BY <1>1 DEF Init, Replayed, Coherent, Listed, CaughtUp, Standing, Syncing, Reading, Following
<1>. QED BY <1>3, <1>5, <1>6 DEF Inv

\* The server's chain stays a chain, and its journal only grows.
ServerMoves ==
  /\ IsChain(chain') /\ journal' \in Seq(Events) /\ Len(journal) <= Len(journal')
  /\ Len(journal') <= MaxEvents
  /\ \A K : Of(journal, K) \subseteq Of(journal', K)
  /\ \A b \in Blocks, n \in 0..Len(journal) : VersionIn(journal', b, n) = VersionIn(journal, b, n)
  /\ UNCHANGED <<walletVars, engineVars, lookback, since, syncVars>>

LEMMA LogMoves ==
  ASSUME TypeOK, NEW block, NEW kind, [block |-> block, kind |-> kind] \in Events, Log(block, kind)
  PROVE  /\ journal' \in Seq(Events) /\ Len(journal) <= Len(journal') /\ Len(journal') <= MaxEvents
         /\ \A K : Of(journal, K) \subseteq Of(journal', K)
         /\ \A b \in Blocks, n \in 0..Len(journal) :
              VersionIn(journal', b, n) = VersionIn(journal, b, n)
<1>1. journal \in Seq(Events)
  BY DEF TypeOK
<1>. DEFINE e == [block |-> block, kind |-> kind]
<1>2. journal' = Append(journal, e) /\ Len(journal) < MaxEvents
  BY DEF Log
<1>. HIDE DEF e
<1>3. \A i \in DOMAIN journal : i \in DOMAIN journal' /\ journal'[i] = journal[i]
  BY <1>1, <1>2
<1>4. \A K : Of(journal, K) \subseteq Of(journal', K)
  BY <1>3 DEF Of
<1>5. journal' \in Seq(Events) /\ Len(journal') = Len(journal) + 1
  BY <1>1, <1>2 DEF e
<1>. QED BY <1>1, <1>2, <1>4, <1>5, VersionAppend, Bounds

LEMMA Unlogged ==
  ASSUME TypeOK, UNCHANGED journal
  PROVE  /\ journal' \in Seq(Events) /\ Len(journal) <= Len(journal') /\ Len(journal') <= MaxEvents
         /\ \A K : Of(journal, K) \subseteq Of(journal', K)
         /\ \A b \in Blocks, n \in 0..Len(journal) :
              VersionIn(journal', b, n) = VersionIn(journal, b, n)
BY DEF TypeOK

LEMMA ServerStep ==
  ASSUME Inv, NEW b \in Blocks, Change(b) \/ Mine(b) \/ Reorganize(b) \/ Resync
  PROVE  ServerMoves
<1>. USE DEF Inv
<1>1. IsChain(chain) /\ chain \in Seq(Blocks) /\ Len(chain) \in Nat \ {0}
  BY DEF Placed, IsChain
<1>2. CASE Change(b)
  <2>1. \A kind \in {"spent", "back"} : [block |-> b, kind |-> kind] \in Events
    BY DEF Events
  <2>. QED BY <1>1, <1>2, <2>1, LogMoves DEF Change, ServerMoves
<1>3. CASE Mine(b)
  <2>1. IsChain(chain')
    <3>1. SubSeq(chain, 1, Len(chain)) = chain
      BY <1>1
    <3>2. Parent[b] = chain[Len(chain)] /\ Len(chain) \in 1..Len(chain)
      BY <1>1, <1>3 DEF Mine
    <3>3. IsChain(Append(SubSeq(chain, 1, Len(chain)), b))
      BY <1>1, <3>2, ChainGrows
    <3>. QED BY <1>3, <3>1, <3>3 DEF Mine
  <2>2. CASE Len(chain) >= Window
    <3>1. [block |-> chain[Oldest(chain, Window)], kind |-> "exit"] \in Events
      <4>1. Oldest(chain, Window) \in 1..Len(chain)
        BY <1>1, Bounds DEF Oldest
      <4>. QED BY <1>1, <4>1 DEF Events
    <3>. QED BY <1>3, <2>1, <2>2, <3>1, LogMoves DEF Mine, ServerMoves
  <2>3. CASE ~(Len(chain) >= Window)
    BY <1>3, <2>1, <2>3, Unlogged DEF Mine, ServerMoves
  <2>. QED BY <2>2, <2>3
<1>4. CASE Reorganize(b)
  <2>1. IsChain(chain')
    <3>1. Height[b] \in Oldest(chain, Window)..Len(chain) /\ Oldest(chain, Window) \in Nat /\ Height[b] > 1
          /\ chain[Height[b] - 1] = Parent[b]
      BY <1>1, <1>4, Bounds DEF Reorganize, Oldest
    <3>2. Height[b] - 1 \in 1..Len(chain)
      BY <1>1, <3>1
    <3>3. IsChain(Append(SubSeq(chain, 1, Height[b] - 1), b))
      BY <1>1, <3>1, <3>2, ChainGrows
    <3>. QED BY <1>4, <3>3 DEF Reorganize
  <2>. QED BY <1>4, <2>1, Unlogged DEF Reorganize, ServerMoves
<1>5. CASE Resync
  <2>1. [block |-> None, kind |-> "resync"] \in Events
    BY DEF Events
  <2>. QED BY <1>1, <1>5, <2>1, LogMoves DEF Resync, ServerMoves
<1>. QED BY <1>2, <1>3, <1>4, <1>5

LEMMA InvServer ==
  ASSUME Inv, ServerMoves
  PROVE  Inv'
<1>. USE DEF Inv
<1>1. UNCHANGED <<blocks, cursor, outpoints, tip, enabled, paused, queue, working, retired,
                 lookback, since, step, staged, dirty, at, page, hasMore, pass, restart>>
  BY DEF ServerMoves, walletVars, engineVars, syncVars
<1>2. Len(journal) \in Nat /\ Len(journal') \in Nat
  BY DEF TypeOK, ServerMoves
<1>3. TypeOK'
  BY <1>1, <1>2 DEF TypeOK, ServerMoves, IsChain
<1>4. Placed'
  BY <1>1 DEF Placed, ServerMoves, Wanted, Known
<1>5. Known(staged)' = Known(staged) /\ Known(blocks)' = Known(blocks)
      /\ Known(staged) \subseteq Blocks /\ Known(blocks) \subseteq Blocks
  BY <1>1 DEF Known
<1>6. Replayed'
  <2>1. ASSUME NEW b \in Blocks, NEW v \in Nat, v <= VersionIn(journal, b, Len(journal))
        PROVE  v <= VersionIn(journal', b, Len(journal'))
    <3>1. VersionIn(journal', b, Len(journal)) = VersionIn(journal, b, Len(journal))
      BY <1>2 DEF ServerMoves
    <3>2. VersionIn(journal', b, Len(journal)) <= VersionIn(journal', b, Len(journal'))
      BY <1>2, VersionGrows DEF ServerMoves
    <3>3. /\ VersionIn(journal', b, Len(journal)) \in 0..Len(journal)
          /\ VersionIn(journal', b, Len(journal')) \in 0..Len(journal')
      BY <1>2, VersionTyped
    <3>. QED BY <1>2, <2>1, <3>1, <3>2, <3>3
  <2>2. \A b \in Known(staged) : b \in Blocks /\ staged[b] \in Nat
    BY <1>5, Bounds DEF TypeOK, View, Known
  <2>3. \A b \in Known(blocks) : b \in Blocks /\ blocks[b] \in Nat
    BY <1>5, Bounds DEF TypeOK, View, Known
  <2>4. at # None => \A b \in Blocks : VersionIn(journal', b, at) = VersionIn(journal, b, at)
    BY DEF TypeOK, ServerMoves
  <2>. QED BY <1>1, <1>5, <2>1, <2>2, <2>3, <2>4 DEF Replayed
<1>7. Coherent'
  <2>1. ASSUME NEW b \in Known(blocks)
        PROVE  blocks[b] >= VersionIn(journal', b, cursor)
    <3>1. cursor \in 0..Len(journal)
      BY DEF TypeOK, Placed
    <3>2. VersionIn(journal', b, cursor) = VersionIn(journal, b, cursor)
      BY <1>5, <3>1 DEF ServerMoves
    <3>3. blocks[b] >= VersionIn(journal, b, cursor)
      BY VersionDef DEF Coherent
    <3>. QED BY <3>2, <3>3
  <2>. QED BY <1>1, <1>5, <2>1, VersionDef DEF Coherent
<1>8. Listed' /\ CaughtUp' /\ Standing'
  <2>1. Available(blocks)' = Available(blocks)
    BY <1>1 DEF Available, Known
  <2>. QED BY <1>1, <1>5, <2>1 DEF Listed, CaughtUp, Standing, Stands, Oldest
<1>. QED BY <1>3, <1>4, <1>6, <1>7, <1>8

-----------------------------------------------------------------------------
(* The engine and the wallet.                                              *)

LEMMA CoherentKept ==
  ASSUME Coherent, UNCHANGED <<journal, blocks, cursor>>
  PROVE  Coherent'
BY DEF Coherent, Version, Known

LEMMA ReplayedKept ==
  ASSUME Replayed, UNCHANGED <<journal, blocks, staged, dirty, at, page, step>>
  PROVE  Replayed'
BY DEF Replayed, Known

LEMMA NothingStaged ==
  Known(NoView) = {} /\ NoView \in View
BY DEF Known, NoView, View

\* Claims are off: whatever a sync was doing, nothing works and nothing is published.
LEMMA InvOff ==
  ASSUME Inv, UNCHANGED <<serverVars, walletVars, lookback, since, queue>>,
         enabled' = FALSE, paused' \in BOOLEAN, working' \subseteq working,
         retired' = retired \cap working',
         UNCHANGED syncVars \/ Idle
  PROVE  Inv'
<1>. USE DEF Inv, serverVars, walletVars
<1>1. TypeOK'
  <2>1. CASE UNCHANGED syncVars
    BY <2>1 DEF TypeOK, syncVars
  <2>2. CASE Idle
    <3>1. <<>> \in Seq(Events)
      OBVIOUS
    <3>2. /\ step' = "idle" /\ staged' \in View /\ dirty' = {} /\ at' = None /\ page' \in Seq(Events)
          /\ hasMore' = FALSE /\ pass' = 0 /\ restart' = 0
      BY <2>2, <3>1, NothingStaged DEF Idle
    <3>3. /\ chain' \in Seq(Blocks) /\ journal' \in Seq(Events) /\ Len(journal') <= MaxEvents
          /\ blocks' \in View /\ cursor' \in 0..Len(journal') \cup {None}
          /\ outpoints' \subseteq Blocks /\ tip' \in Seq(Blocks) /\ lookback' \in 1..Window
      BY DEF TypeOK
    <3>4. /\ enabled' \in BOOLEAN /\ paused' \in BOOLEAN /\ queue' \subseteq Blocks
          /\ retired' \subseteq working' /\ working' \subseteq outpoints' /\ since' \in 0..Len(journal')
      BY DEF TypeOK
    <3>5. pass' \in 0..MaxPasses /\ restart' \in 0..MaxRestarts
      BY <3>2, Bounds
    <3>6. at' \in 0..Len(journal') \cup {None} /\ dirty' \subseteq Blocks
      BY <3>2
    <3>7. hasMore' \in BOOLEAN
      BY <3>2
    <3>. QED BY <3>2, <3>3, <3>4, <3>5, <3>6, <3>7 DEF TypeOK
  <2>. QED BY <2>1, <2>2
<1>2. Placed'
  <2>1. CASE UNCHANGED syncVars
    BY <2>1 DEF Placed, syncVars, Known
  <2>2. CASE Idle
    <3>1. Of(<<>>, {"spent"}) = {}
      BY DEF Of
    <3>. QED BY <2>2, <3>1, NothingStaged, Bounds DEF Placed, Idle, Following, Reading, Known
  <2>. QED BY <2>1, <2>2
<1>3. Replayed'
  <2>1. CASE UNCHANGED syncVars
    BY <2>1, ReplayedKept DEF syncVars
  <2>2. CASE Idle
    BY <2>2, NothingStaged DEF Replayed, Idle, Known
  <2>. QED BY <2>1, <2>2
<1>4. Coherent'
  BY CoherentKept
<1>5. Listed' /\ CaughtUp' /\ Standing'
  BY DEF Listed, CaughtUp, Standing, Known, Stands, Oldest
<1>. QED BY <1>1, <1>2, <1>3, <1>4, <1>5

LEMMA InvStops ==
  ASSUME Inv, fails \/ requestFails \/ cancelled \/ stopClaims
  PROVE  Inv'
<1>1. retired \subseteq working /\ paused \in BOOLEAN
  BY DEF Inv, TypeOK
<1>2. UNCHANGED <<serverVars, walletVars, lookback, since, queue>> /\ enabled' = FALSE
  BY DEF fails, requestFails, cancelled, stopClaims, stops, engineVars, Inv, TypeOK
<1>3. paused' \in BOOLEAN /\ working' \subseteq working /\ retired' = retired \cap working'
  BY <1>1 DEF fails, requestFails, cancelled, stopClaims, stops, engineVars
<1>4. UNCHANGED syncVars \/ Idle
  BY DEF fails, requestFails, cancelled, stopClaims
<1>. QED BY <1>2, <1>3, <1>4, InvOff

LEMMA InvForget ==
  ASSUME Inv, forget
  PROVE  Inv'
<1>. USE DEF Inv, forget, serverVars, syncVars
<1>1. <<>> \in Seq(Blocks)
  OBVIOUS
<1>2. TypeOK'
  BY <1>1, NothingStaged DEF TypeOK
<1>3. Placed'
  BY NothingStaged DEF Placed, Known
<1>4. Replayed'
  BY NothingStaged DEF Replayed, Known
<1>5. Coherent'
  BY NothingStaged DEF Coherent, Known
<1>6. Listed' /\ CaughtUp' /\ Standing'
  BY NothingStaged DEF Listed, CaughtUp, Standing, Known
<1>. QED BY <1>2, <1>3, <1>4, <1>5, <1>6

LEMMA InvSetClaims ==
  ASSUME Inv, NEW n \in 1..Window, setClaims(n)
  PROVE  Inv'
<1>. USE DEF Inv, setClaims, serverVars, walletVars, syncVars
<1>1. TypeOK'
  BY DEF TypeOK
<1>2. Placed'
  BY DEF Placed, Known, Following, Reading
<1>3. Replayed' /\ Coherent'
  BY ReplayedKept, CoherentKept
<1>4. Listed' /\ CaughtUp' /\ Standing'
  BY DEF Listed, CaughtUp, Standing, Known, Syncing, Reading, Following, Stands, Oldest
<1>. QED BY <1>1, <1>2, <1>3, <1>4

LEMMA InvWork ==
  ASSUME Inv, NEW b \in Blocks, work(b) \/ workEnds(b)
  PROVE  Inv'
<1>. USE DEF Inv, serverVars, walletVars, syncVars
<1>1. UNCHANGED <<chain, journal, blocks, cursor, tip, enabled, paused, queue, lookback, since,
                 step, staged, dirty, at, page, hasMore, pass, restart>>
  BY DEF work, workEnds
<1>2. Placed'
  BY <1>1 DEF Placed, Known, Wanted
<1>3. Replayed' /\ Coherent'
  BY <1>1, ReplayedKept, CoherentKept
<1>4. CASE work(b)
  <2>1. b \in queue /\ enabled /\ ~paused /\ b \in Known(blocks)
    BY <1>4 DEF work, CaughtUp, Available
  <2>2. b \in outpoints /\ working' = working \cup {b} /\ UNCHANGED <<retired, outpoints>>
    BY <1>4, <2>1 DEF work, Listed
  <2>3. TypeOK'
    BY <1>1, <2>2 DEF TypeOK
  <2>4. Listed' /\ CaughtUp' /\ Standing'
    BY <1>1, <2>1, <2>2 DEF Listed, CaughtUp, Standing, Known, Available, Stands, Oldest
  <2>. QED BY <1>2, <1>3, <2>3, <2>4
<1>5. CASE workEnds(b)
  <2>1. /\ working' = working \ {b} /\ retired' = retired \ {b}
        /\ outpoints' \subseteq outpoints /\ outpoints \ outpoints' \subseteq {b} \ Known(blocks)
    BY <1>5 DEF workEnds
  <2>2. TypeOK'
    BY <1>1, <2>1 DEF TypeOK
  <2>3. Listed' /\ CaughtUp' /\ Standing'
    BY <1>1, <2>1 DEF Listed, CaughtUp, Standing, Known, Available, Stands, Oldest
  <2>. QED BY <1>2, <1>3, <2>2, <2>3
<1>. QED BY <1>4, <1>5

-----------------------------------------------------------------------------
(* The sync.                                                               *)

\* A new snapshot is begun.
LEMMA InvRescan ==
  ASSUME Inv, rescan, step \in {"watermark", "pages", "load", "drain"},
         UNCHANGED <<serverVars, walletVars, engineVars, lookback, since>>
  PROVE  Inv'
<1>. USE DEF Inv, serverVars, walletVars, engineVars
<1>1. TypeOK'
  <2>1. <<>> \in Seq(Events) /\ restart \in Nat /\ restart < MaxRestarts
    BY Bounds DEF TypeOK, Placed
  <2>2. restart' \in 0..MaxRestarts /\ pass' \in 0..MaxPasses
    BY <2>1, Bounds DEF rescan
  <2>3. staged' \in View /\ dirty' \subseteq Blocks /\ at' = None /\ page' \in Seq(Events) /\ step' = "reset"
    BY <2>1, NothingStaged DEF rescan
  <2>4. hasMore' \in BOOLEAN
    BY DEF rescan
  <2>. QED BY <2>2, <2>3, <2>4 DEF TypeOK
<1>2. Placed'
  <2>1. Of(<<>>, {"spent"}) = {} /\ Known(staged)' = {} /\ Known(blocks)' = Known(blocks)
    BY NothingStaged DEF Of, rescan, Known
  <2>. QED BY <2>1, Bounds DEF Placed, rescan, Following, Reading
<1>3. Replayed' /\ Coherent'
  BY NothingStaged, CoherentKept DEF Replayed, rescan, Known
<1>4. Listed' /\ CaughtUp' /\ Standing'
  BY DEF Listed, CaughtUp, Standing, Known, Syncing, Reading, Following, Stands, Oldest, rescan
<1>. QED BY <1>1, <1>2, <1>3, <1>4

LEMMA InvBegin ==
  ASSUME Inv, begin
  PROVE  Inv'
<1>. USE DEF Inv, begin, serverVars, walletVars, engineVars, At
<1>1. TypeOK'
  BY DEF TypeOK
<1>2. Placed'
  BY DEF Placed, Known, Following, Reading
<1>3. Replayed'
  <2>1. ASSUME NEW b \in Known(blocks)
        PROVE  /\ blocks[b] <= VersionIn(journal, b, Len(journal))
               /\ blocks[b] >= VersionIn(journal, b, cursor)
    BY VersionDef DEF Coherent, Replayed
  <2>. QED BY <2>1 DEF Replayed, Known
<1>4. Coherent'
  BY CoherentKept
<1>5. Listed' /\ CaughtUp' /\ Standing'
  BY DEF Listed, CaughtUp, Standing, Known, Available, Syncing, Reading, Following, Stands, Oldest
<1>. QED BY <1>1, <1>2, <1>3, <1>4, <1>5


LEMMA InvReset ==
  ASSUME Inv, onReset
  PROVE  Inv'
<1>. USE DEF Inv, onReset, serverVars, walletVars, At
<1>1. TypeOK'
  BY DEF TypeOK
<1>2. Placed'
  BY DEF Placed, Known, Following, Reading
<1>3. Replayed'
  BY DEF Replayed, Known
<1>4. Coherent'
  BY CoherentKept
<1>5. Listed' /\ CaughtUp' /\ Standing'
  BY DEF Listed, CaughtUp, Standing, Known
<1>. QED BY <1>1, <1>2, <1>3, <1>4, <1>5

LEMMA InvExpires ==
  ASSUME Inv, cursorExpires
  PROVE  Inv'
BY InvRescan DEF cursorExpires

\* A page of the journal, and where it ends.
LEMMA PageRead ==
  ASSUME Inv
  PROVE  /\ Page \in Seq(Events) /\ next_cursor \in 0..Len(journal)
         /\ \A K : Of(Page, K) \subseteq Of(journal, K)
         /\ at # None =>
              \A b : \/ VersionIn(journal, b, next_cursor) = VersionIn(journal, b, at)
                     \/ b \in Of(Page, {"spent", "back"})
<1>1. journal \in Seq(Events) /\ at \in 0..Len(journal) \cup {None} /\ Len(journal) \in Nat
  BY DEF Inv, TypeOK
<1>2. CASE at = None
  <2>1. \A K : Of(<<>>, K) = {}
    BY DEF Of
  <2>. QED BY <1>1, <1>2, <2>1 DEF Page, next_cursor
<1>3. CASE at # None
  <2>1. at \in 0..Len(journal) /\ Last \in 0..Len(journal) /\ at <= Last
    BY <1>1, <1>3, Bounds DEF Last
  <2>2. Page = SubSeq(journal, at + 1, Last) /\ next_cursor = Last
    BY <1>3 DEF Page, next_cursor
  <2>3. Page \in Seq(Events) /\ \A K : Of(Page, K) \subseteq Of(journal, K)
    BY <1>1, <2>1, <2>2, PageInJournal
  <2>4. \A b : b \notin Of(Page, {"spent", "back"})
               => VersionIn(journal, b, Last) = VersionIn(journal, b, at)
    BY <1>1, <2>1, <2>2, VersionPage
  <2>. QED BY <2>1, <2>2, <2>3, <2>4
<1>. QED BY <1>2, <1>3

LEMMA InvWatermark ==
  ASSUME Inv, watermark
  PROVE  Inv'
<1>. USE DEF Inv, serverVars, walletVars, engineVars, At
<1>1. CASE Of(Page, {"resync"}) # {}
  BY <1>1, InvRescan DEF watermark
<1>2. CASE Of(Page, {"resync"}) = {}
  <2>0. hasMore' \in BOOLEAN
    <3>1. hasMore' = (next_cursor < Len(journal))
      BY <1>2 DEF watermark
    <3>. QED BY <3>1
  <2>1. /\ step = "watermark" /\ step' = "window" /\ at' = next_cursor /\ page' = Page
        /\ enabled
        /\ UNCHANGED <<staged, dirty, pass, restart, serverVars, walletVars, engineVars,
                       lookback, since>>
    BY <1>2 DEF watermark
  <2>. HIDE DEF watermark
  <2>2. TypeOK'
    BY <2>0, <2>1, PageRead DEF TypeOK
  <2>3. Placed'
    <3>1. at' # None /\ Of(page', {"spent"}) \subseteq Of(journal, {"spent"})
      BY <2>1, PageRead, Bounds DEF TypeOK
    <3>. QED BY <2>1, <3>1 DEF Placed, Known, Following, Reading
  <2>4. Replayed'
    <3>1. ASSUME NEW b \in Known(staged)
          PROVE  \/ staged[b] >= VersionIn(journal, b, next_cursor)
                 \/ b \in Of(Page, {"spent", "back"})
      <4>1. at # None /\ dirty = {}
        BY <2>1 DEF Placed
      <4>2. staged[b] >= VersionIn(journal, b, at)
        BY <2>1, <4>1 DEF Replayed
      <4>. QED BY <4>1, <4>2, PageRead
    <3>. QED BY <2>1, <3>1 DEF Replayed, Known
  <2>5. Coherent'
    BY <2>1, CoherentKept
  <2>6. Listed' /\ CaughtUp' /\ Standing'
    BY <2>1 DEF Listed, CaughtUp, Standing, Known, Available, Syncing, Reading, Stands, Oldest
  <2>. QED BY <2>2, <2>3, <2>4, <2>5, <2>6
<1>. QED BY <1>1, <1>2

LEMMA RecentTyped ==
  ASSUME NEW c \in Seq(Blocks), NEW n \in Nat, n > 0
  PROVE  Recent(c, n) \subseteq Blocks
<1>1. Oldest(c, n) \in Nat \ {0}
  BY DEF Oldest
<1>. QED BY <1>1 DEF Recent

\* What an invalidation leaves.
LEMMA Narrowed ==
  ASSUME TypeOK, NEW R, NEW E, invalidate(R, E)
  PROVE  /\ queue' \subseteq queue \ (R \cup E) /\ working' \subseteq working \ R
         /\ retired' \subseteq working'
         /\ working' \ retired' \subseteq (working \ retired) \ (R \cup E)
BY DEF TypeOK, invalidate

\* A window that was read.
LEMMA WindowRead ==
  ASSUME Inv, At("window") \/ At("recheck"), NEW events \in Seq(Events),
         step = "window" => events = page, readWindow(events),
         UNCHANGED <<serverVars, blocks, cursor, outpoints, enabled, paused, lookback, since, at>>,
         step' \in {"pages", "load", "failed"}
  PROVE  /\ staged' \in View /\ dirty' \subseteq Blocks
         /\ tip' = chain /\ Known(staged)' \subseteq Recent(chain, lookback)
         /\ retired' \subseteq working' /\ working' \subseteq working /\ queue' \subseteq queue
         /\ Replayed' /\ Coherent' /\ Listed' /\ CaughtUp' /\ Standing'
<1>. USE DEF Inv, serverVars, At
<1>. DEFINE desired == Recent(chain, lookback)
            gone == Known(staged) \ desired
            aged == {b \in gone : Height[b] < Oldest(chain, Window) \/ b \in Recent(chain, Window)}
            R == (gone \ aged) \cup replaced(chain) \cup Of(events, {"spent"})
            E == aged \cup Of(events, {"exit"})
<1>1. /\ tip' = chain /\ staged' = [b \in Blocks |-> IF b \in desired THEN staged[b] ELSE None]
      /\ dirty' = (dirty \cap desired) \cup (Of(events, {"spent", "back"}) \cap desired)
      /\ invalidate(R, E)
  BY DEF readWindow, dirtied
<1>. HIDE DEF R, E
<1>2. /\ queue' \subseteq queue \ (R \cup E) /\ working' \subseteq working \ R
      /\ retired' \subseteq working'
      /\ working' \ retired' \subseteq (working \ retired) \ (R \cup E)
  BY <1>1, Narrowed
<1>3. gone \subseteq R \cup E /\ replaced(chain) \subseteq R
  BY DEF R, E
<1>4. desired \subseteq Blocks
  <2>1. lookback \in Nat /\ lookback > 0 /\ chain \in Seq(Blocks)
    BY Bounds DEF TypeOK
  <2>. QED BY <2>1, RecentTyped
<1>. HIDE DEF desired
<1>5. staged' \in View /\ dirty' \subseteq Blocks
  BY <1>1, <1>4 DEF TypeOK, View
<1>6. Known(staged)' = Known(staged) \cap desired /\ \A b \in Known(staged)' : staged'[b] = staged[b]
  BY <1>1 DEF Known
<1>7. Replayed'
  <2>1. ASSUME NEW b \in Known(staged)'
        PROVE  /\ staged'[b] <= VersionIn(journal, b, Len(journal))
               /\ at # None => staged'[b] >= VersionIn(journal, b, at) \/ b \in dirty'
    BY <1>1, <1>6 DEF Replayed
  <2>2. \A b \in Known(blocks) : blocks[b] <= VersionIn(journal, b, Len(journal))
    BY DEF Replayed
  <2>. QED BY <2>1, <2>2 DEF Replayed, Known
<1>8. Coherent'
  BY CoherentKept
<1>9. Listed'
  <2>1. working \ retired \subseteq Known(staged) /\ (~paused => queue \subseteq Known(staged))
    BY DEF Listed, Syncing, Reading, Following
  <2>2. Known(staged) \ Known(staged)' = gone
    BY <1>6
  <2>3. working' \ retired' \subseteq Known(staged)' /\ (~paused => queue' \subseteq Known(staged)')
    BY <1>2, <1>3, <2>1, <2>2
  <2>4. Known(blocks)' \subseteq outpoints' /\ working' \ retired' \subseteq Known(blocks)'
    BY <1>2 DEF Listed, Known
  <2>. QED BY <2>3, <2>4 DEF Listed
<1>10. CaughtUp'
  BY <1>2 DEF CaughtUp, Available, Known
<1>11. Standing'
  <2>1. \A b \in outpoints \ replaced(chain) : Stands(chain, b)
    <3>1. Len(chain) \in Nat /\ Oldest(chain, Window) \in Nat
      BY Bounds DEF TypeOK, Oldest
    <3>2. \A b \in outpoints : Height[b] \in Nat
      BY Bounds DEF TypeOK
    <3>. HIDE DEF Inv
    <3>. QED BY <3>1, <3>2 DEF Stands, replaced
  <2>2. working \subseteq outpoints /\ (enabled /\ ~paused => queue \subseteq outpoints)
    BY DEF TypeOK, CaughtUp, Listed, Available
  <2>. QED BY <1>1, <1>2, <1>3, <2>1, <2>2 DEF Standing, Stands, Oldest
<1>. QED BY <1>1, <1>2, <1>5, <1>6, <1>7, <1>8, <1>9, <1>10, <1>11 DEF desired


LEMMA InvWindow ==
  ASSUME Inv, window
  PROVE  Inv'
<1>. USE DEF Inv
<1>1. /\ At("window") /\ readWindow(page) /\ page \in Seq(Events)
      /\ UNCHANGED <<serverVars, blocks, cursor, outpoints, enabled, paused, lookback, since,
                     at, pass, restart>>
      /\ step' \in {"pages", "load"} /\ page' = <<>> /\ hasMore' = FALSE
  BY DEF window, TypeOK
<1>2. /\ staged' \in View /\ dirty' \subseteq Blocks
      /\ tip' = chain /\ Known(staged)' \subseteq Recent(chain, lookback)
      /\ retired' \subseteq working' /\ working' \subseteq working /\ queue' \subseteq queue
      /\ Replayed' /\ Coherent' /\ Listed' /\ CaughtUp' /\ Standing'
  BY <1>1, WindowRead
<1>3. TypeOK'
  <2>1. <<>> \in Seq(Events)
    OBVIOUS
  <2>0. hasMore' \in BOOLEAN
    BY <1>1
  <2>2. /\ tip' \in Seq(Blocks) /\ page' \in Seq(Events)
        /\ step' \in {"idle", "reset", "watermark", "window", "pages", "load", "drain",
                      "recheck", "failed"}
    BY <1>1, <1>2, <2>1 DEF TypeOK
  <2>. QED BY <1>1, <1>2, <2>0, <2>2 DEF TypeOK, serverVars
<1>4. Placed'
  <2>1. Of(<<>>, {"spent"}) = {}
    BY DEF Of
  <2>2. chain # <<>> /\ step = "window"
    BY <1>1 DEF Placed, IsChain, At
  <2>3. UNCHANGED <<chain, journal, blocks, cursor, enabled, lookback, since, at, pass, restart>>
    BY <1>1 DEF serverVars
  <2>. QED BY <1>1, <1>2, <2>1, <2>2, <2>3 DEF Placed, Following, Reading, Wanted, Known
<1>. QED BY <1>2, <1>3, <1>4

\* A page that is applied at once.
LEMMA InvChanges ==
  ASSUME Inv, NEW next \in {"load", "recheck"}, changes(next), enabled,
         step \in {"pages", "drain"}, step = "pages" => next = "load",
         UNCHANGED <<serverVars, walletVars, enabled, paused, lookback, since>>
  PROVE  Inv'
<1>. USE DEF Inv, serverVars, walletVars
<1>1. CASE Of(Page, {"resync"}) # {}
  BY <1>1, InvRescan DEF changes, engineVars
<1>2. CASE Of(Page, {"resync"}) = {}
  <2>1. /\ at' = next_cursor /\ dirty' = dirty \cup (Of(Page, {"spent", "back"}) \cap Wanted)
        /\ invalidate(Of(Page, {"spent"}), Of(Page, {"exit"}))
        /\ step' = (IF next_cursor < Len(journal) THEN step ELSE next)
        /\ UNCHANGED <<staged, page, hasMore, pass, restart>>
    BY <1>2 DEF changes, dirtied
  <2>2. /\ queue' \subseteq queue /\ working' \subseteq working /\ retired' \subseteq working'
        /\ working' \ retired' \subseteq working \ retired
    BY <2>1, Narrowed
  <2>3. next_cursor \in 0..Len(journal) /\ next_cursor # None
    BY PageRead, Bounds
  <2>4. TypeOK'
    <3>1. dirty' \subseteq Blocks
      BY <2>1, RecentTyped, Bounds DEF TypeOK, Wanted
    <3>2. step' \in {"pages", "load", "drain", "recheck"}
      BY <2>1
    <3>. QED BY <2>1, <2>2, <2>3, <3>1, <3>2 DEF TypeOK
  <2>5. Placed'
    <3>1. step' = "recheck" => at' >= since
      BY <2>1, <2>3 DEF TypeOK
    <3>2. tip # <<>> /\ Known(staged) \subseteq Wanted
      BY DEF Placed, Following
    <3>. QED BY <2>1, <2>3, <3>1, <3>2 DEF Placed, Known, Following, Reading, Wanted
  <2>6. Replayed'
    <3>1. ASSUME NEW b \in Known(staged)
          PROVE  staged[b] >= VersionIn(journal, b, next_cursor) \/ b \in dirty'
      <4>1. at # None /\ b \in Wanted
        BY DEF Placed, Following, Reading
      <4>2. staged[b] >= VersionIn(journal, b, at) \/ b \in dirty
        BY <4>1 DEF Replayed
      <4>. QED BY <2>1, <4>1, <4>2, PageRead
    <3>. QED BY <2>1, <3>1 DEF Replayed, Known
  <2>7. Coherent'
    BY CoherentKept
  <2>8. Listed' /\ CaughtUp' /\ Standing'
    BY <2>1, <2>2 DEF Listed, CaughtUp, Standing, Known, Available, Syncing, Reading, Following,
                      Stands, Oldest
  <2>. QED BY <2>4, <2>5, <2>6, <2>7, <2>8
<1>. QED BY <1>1, <1>2

LEMMA InvFollow ==
  ASSUME Inv, pages \/ drain
  PROVE  Inv'
BY InvChanges DEF pages, drain, At

\* A block read by a worker.
LEMMA InvLoad ==
  ASSUME Inv, NEW b \in Blocks, load(b)
  PROVE  Inv'
<1>. USE DEF Inv, serverVars, walletVars
<1>1. CASE b \notin Recent(chain, Window)
  BY <1>1, InvRescan DEF load, engineVars, At
<1>2. CASE b \in Recent(chain, Window)
  <2>1. /\ step = "load" /\ enabled /\ b \in Missing
        /\ staged' = [staged EXCEPT ![b] = VersionIn(journal, b, Len(journal))]
        /\ dirty' = dirty \ {b}
        /\ invalidate({b} \ Available(staged'), {})
        /\ UNCHANGED <<step, at, page, hasMore, pass, restart, serverVars, walletVars, enabled,
                       paused, lookback, since>>
    BY <1>2, VersionDef DEF load, At
  <2>. DEFINE v == VersionIn(journal, b, Len(journal))
  <2>2. v \in 0..Len(journal) /\ v # None
    <3>1. Len(journal) \in Nat
      BY DEF TypeOK
    <3>2. v \in 0..Len(journal)
      BY <3>1, VersionTyped
    <3>. QED BY <3>1, <3>2, Bounds
  <2>. HIDE DEF v
  <2>3. /\ queue' \subseteq queue /\ working' \subseteq working /\ retired' \subseteq working'
        /\ working' \ retired' \subseteq working \ retired
    BY <2>1, Narrowed
  <2>4. /\ b \in Wanted /\ Known(staged)' = Known(staged) \cup {b} /\ staged'[b] = v
        /\ \A x \in Known(staged) \ {b} : staged'[x] = staged[x]
    BY <2>1, <2>2 DEF Missing, Known, TypeOK, View, v
  <2>5. TypeOK'
    <3>1. v \in 0..MaxEvents
      BY <2>2, Bounds DEF TypeOK
    <3>2. staged' \in View
      BY <2>1, <3>1 DEF TypeOK, View, v
    <3>. QED BY <2>1, <2>3, <3>2 DEF TypeOK
  <2>6. Placed'
    <3>1. at # None /\ Known(staged)' \subseteq Wanted'
      BY <2>1, <2>4 DEF Placed, Following, Reading, Wanted
    <3>. QED BY <2>1, <3>1 DEF Placed, Following, Reading, Wanted, Known
  <2>7. Replayed'
    <3>1. at \in 0..Len(journal) /\ Len(journal) \in Nat
      BY <2>1 DEF Placed, Following, Reading, TypeOK
    <3>2. VersionIn(journal, b, at) <= v
      BY <3>1, VersionGrows DEF v
    <3>3. VersionIn(journal, b, at) \in 0..at
      BY <3>1, VersionTyped
    <3>4. ASSUME NEW x \in Known(staged)'
          PROVE  /\ staged'[x] <= VersionIn(journal, x, Len(journal))
                 /\ staged'[x] >= VersionIn(journal, x, at) \/ x \in dirty'
      <4>1. CASE x = b
        BY <2>2, <2>4, <3>1, <3>2, <3>3, <4>1 DEF v
      <4>2. CASE x # b
        BY <2>1, <2>4, <3>1, <4>2 DEF Replayed, Placed
      <4>. QED BY <4>1, <4>2
    <3>. QED BY <2>1, <3>4 DEF Replayed, Known
  <2>8. Coherent'
    BY <2>1, CoherentKept
  <2>9. Listed' /\ CaughtUp' /\ Standing'
    <3>1. Listed'
      BY <2>1, <2>3, <2>4 DEF Listed, Known, Syncing, Reading, Following
    <3>2. CaughtUp' /\ Standing'
      BY <2>1, <2>3 DEF CaughtUp, Standing, Known, Available, Stands, Oldest
    <3>. QED BY <3>1, <3>2
  <2>. QED BY <2>5, <2>6, <2>7, <2>8, <2>9
<1>. QED BY <1>1, <1>2

LEMMA InvLoaded ==
  ASSUME Inv, loaded
  PROVE  Inv'
<1>. USE DEF Inv, loaded, serverVars, walletVars, engineVars, At
<1>1. TypeOK'
  BY DEF TypeOK
<1>2. Placed'
  BY DEF Placed, Known, Following, Reading, Wanted
<1>3. Replayed' /\ Coherent'
  BY CoherentKept DEF Replayed, Known
<1>4. Listed' /\ CaughtUp' /\ Standing'
  BY DEF Listed, CaughtUp, Standing, Known, Available, Syncing, Reading, Following, Stands, Oldest
<1>. QED BY <1>1, <1>2, <1>3, <1>4


-----------------------------------------------------------------------------
(* The end of a sync.                                                      *)

LEMMA InvPublish ==
  ASSUME Inv, recheck, dirty = {}, Settled
  PROVE  Inv'
<1>. USE DEF Inv, serverVars
<1>. DEFINE rows == Known(staged)
            kept == (retired \ rows) \cap outpoints
<1>1. /\ step = "recheck" /\ enabled /\ Idle
      /\ blocks' = staged /\ cursor' = at /\ outpoints' = rows \cup kept
      /\ working' = (working \cap Available(staged)) \cup kept /\ retired' = retired \cap working'
      /\ queue' = Available(staged) /\ paused' = FALSE
      /\ UNCHANGED <<chain, journal, tip, enabled, lookback, since>>
  BY DEF recheck, publish, At
<1>2. at \in 0..Len(journal) /\ at # None /\ at >= since
  BY <1>1 DEF Placed, Following, Reading, TypeOK
<1>3. Available(staged) \subseteq rows /\ rows \subseteq Blocks /\ kept \subseteq retired
      /\ retired \subseteq working /\ working \subseteq outpoints /\ outpoints \subseteq Blocks
  BY DEF Available, Known, TypeOK
<1>4. working' \subseteq working /\ working' \subseteq outpoints' /\ retired' \subseteq working'
      /\ working' \ retired' \subseteq rows
  BY <1>1, <1>3
<1>5. Known(blocks)' = rows /\ Available(blocks)' = Available(staged)
  BY <1>1 DEF Known, Available
<1>. HIDE DEF rows, kept
<1>6. TypeOK'
  <2>1. <<>> \in Seq(Events)
    OBVIOUS
  <2>2. /\ step' = "idle" /\ staged' \in View /\ dirty' = {} /\ at' = None /\ page' \in Seq(Events)
        /\ hasMore' = FALSE /\ pass' = 0 /\ restart' = 0
    BY <1>1, <2>1, NothingStaged DEF Idle
  <2>3. /\ chain' \in Seq(Blocks) /\ journal' \in Seq(Events) /\ Len(journal') <= MaxEvents
        /\ blocks' \in View /\ cursor' \in 0..Len(journal') \cup {None}
        /\ outpoints' \subseteq Blocks /\ tip' \in Seq(Blocks) /\ lookback' \in 1..Window
    BY <1>1, <1>2, <1>3 DEF TypeOK, rows, kept
  <2>4. /\ enabled' \in BOOLEAN /\ queue' \subseteq Blocks
        /\ retired' \subseteq working' /\ working' \subseteq outpoints' /\ since' \in 0..Len(journal')
    BY <1>1, <1>3, <1>4 DEF TypeOK
  <2>5. pass' \in 0..MaxPasses /\ restart' \in 0..MaxRestarts
    BY <2>2, Bounds
  <2>6. at' \in 0..Len(journal') \cup {None} /\ dirty' \subseteq Blocks
    BY <2>2
  <2>7. hasMore' \in BOOLEAN
    BY <2>2
  <2>8. paused' \in BOOLEAN
    BY <1>1
  <2>. QED BY <2>2, <2>3, <2>4, <2>5, <2>6, <2>7, <2>8 DEF TypeOK
<1>7. Placed'
  <2>1. Of(<<>>, {"spent"}) = {}
    BY DEF Of
  <2>2. /\ step' = "idle" /\ Known(staged)' = {} /\ dirty' = {} /\ at' = None
        /\ Of(page, {"spent"})' = {} /\ pass' = 0 /\ restart' = 0
    BY <1>1, <2>1, NothingStaged DEF Idle, Known
  <2>. QED BY <1>1, <1>2, <2>2, Bounds DEF Placed, Following, Reading
<1>8. Replayed'
  <2>1. Known(staged)' = {}
    BY <1>1, NothingStaged DEF Idle, Known
  <2>. QED BY <1>1, <1>5, <2>1 DEF Replayed, rows
<1>9. Coherent'
  <2>1. ASSUME NEW b \in rows
        PROVE  staged[b] >= VersionIn(journal, b, at)
    BY <1>1, <1>2 DEF Replayed, rows
  <2>. QED BY <1>1, <1>5, <2>1, VersionDef DEF Coherent
<1>10. Listed'
  <2>1. step' = "idle"
    BY <1>1 DEF Idle
  <2>. QED BY <1>1, <1>4, <1>5, <2>1 DEF Listed, Syncing, Reading, Following
<1>11. CaughtUp'
  BY <1>1, <1>2, <1>5 DEF CaughtUp
<1>12. Standing'
  <2>1. IsChain(tip) /\ rows \subseteq Recent(tip, lookback) /\ lookback \in Nat \ {0}
    BY <1>1, Bounds DEF Placed, Following, Wanted, rows, TypeOK
  <2>2. ASSUME NEW b \in Recent(tip, lookback)
        PROVE  Stands(tip, b)
    <3>1. Len(tip) \in Nat /\ Oldest(tip, lookback) \in Nat \ {0}
      BY <2>1 DEF IsChain, Oldest
    <3>2. PICK h \in Oldest(tip, lookback)..Len(tip) : b = tip[h]
      BY DEF Recent
    <3>3. h \in 1..Len(tip)
      BY <3>1
    <3>4. Height[b] = h
      BY <2>1, <3>2, <3>3 DEF IsChain
    <3>. QED BY <3>1, <3>2, <3>3, <3>4 DEF Stands
  <2>3. /\ \A b \in working' : Stands(tip, b)
        /\ \A b \in queue' : Stands(tip, b)
    BY <1>1, <1>3, <1>4, <2>1, <2>2 DEF Standing
  <2>. QED BY <1>1, <2>3 DEF Standing, Stands, Oldest
<1>. QED BY <1>6, <1>7, <1>8, <1>9, <1>10, <1>11, <1>12

\* Another pass.
LEMMA InvAgain ==
  ASSUME Inv, recheck, ~(dirty = {} /\ Settled)
  PROVE  Inv'
<1>. USE DEF Inv, serverVars
<1>1. /\ step = "recheck" /\ enabled /\ pass' = pass + 1
      /\ step' = (IF pass' < MaxPasses THEN "load" ELSE "failed")
      /\ UNCHANGED <<chain, journal, blocks, cursor, outpoints, enabled, paused, lookback, since,
                     at, page, hasMore, restart>>
  BY DEF recheck, At
<1>2. pass' \in 0..MaxPasses /\ (step' # "failed" => pass' < MaxPasses)
  BY <1>1, Bounds DEF TypeOK, Placed
<1>3. step' \in {"load", "failed"}
  BY <1>1
<1>4. CASE dirty # {}
  <2>1. UNCHANGED <<tip, staged, dirty, queue, working, retired>>
    BY <1>4 DEF recheck
  <2>2. TypeOK'
    BY <1>1, <1>2, <1>3, <2>1 DEF TypeOK
  <2>3. Placed'
    BY <1>1, <1>2, <1>3, <2>1 DEF Placed, Following, Reading, Wanted, Known
  <2>4. Replayed'
    BY <1>1, <1>3, <2>1 DEF Replayed, Known
  <2>5. Coherent'
    BY <1>1, CoherentKept
  <2>6. Listed' /\ CaughtUp' /\ Standing'
    BY <1>1, <1>3, <2>1
       DEF Listed, CaughtUp, Standing, Known, Available, Syncing, Reading, Following, Stands, Oldest
  <2>. QED BY <2>2, <2>3, <2>4, <2>5, <2>6
<1>5. CASE dirty = {}
  <2>1. readWindow(<<>>)
    BY <1>5 DEF recheck
  <2>2. /\ staged' \in View /\ dirty' \subseteq Blocks
        /\ tip' = chain /\ Known(staged)' \subseteq Recent(chain, lookback)
        /\ retired' \subseteq working' /\ working' \subseteq working /\ queue' \subseteq queue
        /\ Replayed' /\ Coherent' /\ Listed' /\ CaughtUp' /\ Standing'
    <3>1. <<>> \in Seq(Events) /\ At("recheck")
      BY <1>1 DEF At
    <3>. QED BY <1>1, <1>3, <2>1, <3>1, WindowRead
  <2>3. TypeOK'
    <3>1. tip' \in Seq(Blocks)
      BY <2>2 DEF TypeOK
    <3>. QED BY <1>1, <1>2, <1>3, <2>2, <3>1 DEF TypeOK
  <2>4. Placed'
    <3>1. chain # <<>> /\ step # "failed"
      BY <1>1 DEF Placed, IsChain
    <3>. QED BY <1>1, <1>2, <1>3, <2>2, <3>1 DEF Placed, Following, Reading, Wanted, Known
  <2>. QED BY <2>2, <2>3, <2>4
<1>. QED BY <1>4, <1>5

-----------------------------------------------------------------------------
(* Every step.                                                             *)

LEMMA InvNext ==
  ASSUME Inv, [Next]_vars
  PROVE  Inv'
<1>1. CASE UNCHANGED vars
  <2>1. ServerMoves
    <3>1. UNCHANGED <<serverVars, walletVars, engineVars, lookback, since, syncVars>>
      BY <1>1 DEF vars
    <3>2. IsChain(chain)' /\ TypeOK
      BY <3>1 DEF Inv, Placed, IsChain, serverVars
    <3>. QED BY <3>1, <3>2, Unlogged DEF ServerMoves, serverVars, IsChain
  <2>. QED BY <2>1, InvServer
<1>2. CASE Sync
  <2>1. CASE recheck
    BY <2>1, InvPublish, InvAgain
  <2>2. CASE \E b \in Blocks : load(b)
    BY <2>2, InvLoad
  <2>3. CASE fails \/ cancelled
    BY <2>3, InvStops
  <2>. QED BY <1>2, <2>1, <2>2, <2>3, InvBegin, InvReset, InvWatermark, InvWindow, InvFollow,
              InvLoaded DEF Sync
<1>3. CASE cursorExpires \/ requestFails \/ stopClaims \/ forget
  BY <1>3, InvExpires, InvStops, InvForget
<1>4. ASSUME NEW b \in Blocks, Change(b) \/ Mine(b) \/ Reorganize(b) \/ work(b) \/ workEnds(b)
      PROVE  Inv'
  BY <1>4, ServerStep, InvServer, InvWork
<1>5. CASE \E n \in 1..Window : setClaims(n)
  BY <1>5, InvSetClaims
<1>6. CASE Resync
  <2>1. chain[Len(chain)] \in Blocks
    BY DEF Inv, Placed, IsChain
  <2>. QED BY <1>6, <2>1, ServerStep, InvServer
<1>. QED BY <1>1, <1>2, <1>3, <1>4, <1>5, <1>6 DEF Next

LEMMA InvAlways == Spec => []Inv
<1>1. Init => Inv
  BY InvInit
<1>2. Inv /\ [Next]_vars => Inv'
  BY InvNext
<1>. QED BY <1>1, <1>2, PTL DEF Spec

\* Discovery keeps its types: no pass, no restart and no cursor leaves its bounds.
THEOREM DiscoveryTypes == Spec => []TypeOK
<1>1. Inv => TypeOK
  BY DEF Inv
<1>. QED BY <1>1, InvAlways, PTL

\* The published catalog knows of every change of a bounty that precedes its cursor,
\* whatever the size of a page, the number of passes and the moves of the chain.
THEOREM DiscoveryCoherent == Spec => []Coherent
<1>1. Inv => Coherent
  BY DEF Inv
<1>. QED BY <1>1, InvAlways, PTL

\* The engine goes on only from a catalog that is not older than its start.
THEOREM DiscoveryCaughtUp == Spec => []CaughtUp
<1>1. Inv => CaughtUp
  BY DEF Inv
<1>. QED BY <1>1, InvAlways, PTL

\* No work is left on a bounty of a block that the last window replaced.
THEOREM DiscoveryReplacedCancelled == Spec => []ReplacedCancelled
<1>1. Inv => ReplacedCancelled
  BY DEF Inv, Standing, Stands, ReplacedCancelled
<1>. QED BY <1>1, InvAlways, PTL


\* A catalog is published whole, whatever the chain did since the window was read.
THEOREM DiscoveryPublishedWhole == Spec => PublishedWhole
<1>1. ASSUME Inv, [Next]_vars, blocks' \notin {blocks, NoView}
      PROVE  Known(blocks') = Recent(chain, lookback)
  <2>1. recheck /\ blocks' = staged /\ Settled
    <3>1. ~(UNCHANGED vars) /\ ~forget
      BY <1>1 DEF vars, walletVars, forget
    <3>2. recheck
      BY <1>1, <3>1
         DEF Next, Sync, walletVars, begin, onReset, cursorExpires, watermark, window, pages, load,
             loaded, drain, fails, requestFails, cancelled, work, workEnds, setClaims, stopClaims,
             Change, Mine, Reorganize, Resync
    <3>. QED BY <1>1, <3>2 DEF recheck, publish
  <2>2. Known(staged) \subseteq Recent(tip, lookback)
    BY <1>1, <2>1 DEF Inv, Placed, recheck, At, Following, Wanted
  <2>3. IsChain(chain) /\ IsChain(tip)
    BY <1>1, <2>1 DEF Inv, Placed, recheck, At, Following
  <2>4. chain = tip
    BY <2>1, <2>3, ChainsAgree DEF Settled
  <2>5. Recent(chain, lookback) \subseteq Blocks
    <3>1. lookback \in Nat /\ lookback > 0 /\ chain \in Seq(Blocks)
      BY <1>1, Bounds DEF Inv, TypeOK
    <3>. QED BY <3>1, RecentTyped
  <2>6. Recent(chain, lookback) \subseteq Known(staged)
    BY <2>1, <2>5 DEF Settled, Known
  <2>. QED BY <2>1, <2>2, <2>4, <2>6
<1>2. Inv /\ [Next]_vars =>
        [blocks' \notin {blocks, NoView} => Known(blocks') = Recent(chain, lookback)]_vars
  BY <1>1
<1>. QED BY <1>2, InvAlways, PTL DEF Spec, PublishedWhole

\* Why a sync cancels the work on a bounty.
Reason(b) ==
  \/ step = "reset" \/ Version(b, Len(journal)) > 0
  \/ Height[b] > Len(chain) \/ chain[Height[b]] # b

LEMMA SpentReason ==
  ASSUME Inv, NEW b \in Of(journal, {"spent"})
  PROVE  Reason(b)
BY VersionSpent, VersionDef DEF Inv, TypeOK, Reason

\* A window cancels work only on bounties of replaced blocks and on spent ones.
LEMMA WindowReason ==
  ASSUME Inv, NEW events \in Seq(Events), Of(events, {"spent"}) \subseteq Of(journal, {"spent"}),
         readWindow(events), NEW b \in working \ working'
  PROVE  Reason(b)
<1>1. b \in Blocks /\ Height[b] \in Nat \ {0} /\ Len(chain) \in Nat
      /\ Oldest(chain, Window) \in Nat
  BY Bounds DEF Inv, TypeOK, Oldest
<1>. DEFINE gone == Known(staged) \ Recent(chain, lookback)
            aged == {x \in gone : Height[x] < Oldest(chain, Window) \/ x \in Recent(chain, Window)}
<1>2. b \in (gone \ aged) \cup replaced(chain) \cup Of(events, {"spent"})
  BY DEF readWindow, invalidate
<1>3. CASE b \in gone \ aged
  <2>1. Height[b] >= Oldest(chain, Window) /\ b \notin Recent(chain, Window)
    BY <1>1, <1>3
  <2>2. Height[b] <= Len(chain) => chain[Height[b]] # b
    BY <1>1, <2>1 DEF Recent
  <2>. QED BY <1>1, <2>2 DEF Reason
<1>4. CASE b \in replaced(chain)
  BY <1>4 DEF replaced, Reason
<1>5. CASE b \in Of(events, {"spent"})
  BY <1>5, SpentReason
<1>. QED BY <1>2, <1>3, <1>4, <1>5

LEMMA ChangesReason ==
  ASSUME Inv, NEW next, changes(next), NEW b \in working \ working'
  PROVE  Reason(b)
<1>1. b \in Of(Page, {"spent"})
  BY DEF changes, invalidate
<1>. QED BY <1>1, PageRead, SpentReason

LEMMA LoadReason ==
  ASSUME Inv, NEW x \in Blocks, load(x), NEW b \in working \ working'
  PROVE  Reason(b)
<1>. DEFINE v == VersionIn(journal, x, Len(journal))
<1>1. b = x /\ b \notin Available(staged') /\ staged' = [staged EXCEPT ![x] = v]
  BY VersionDef DEF load, invalidate
<1>2. Len(journal) \in Nat /\ staged \in View
  BY DEF Inv, TypeOK
<1>3. v \in 0..Len(journal)
  BY <1>2, VersionTyped
<1>. HIDE DEF v
<1>4. staged'[x] = v /\ v # None
  BY <1>1, <1>2, <1>3, Bounds DEF View
<1>5. v % 2 # 0
  BY <1>1, <1>4 DEF Available, Known
<1>6. v > 0
  BY <1>3, <1>5
<1>. QED BY <1>1, <1>6, VersionDef DEF Reason, v

LEMMA PublishReason ==
  ASSUME Inv, recheck, dirty = {}, Settled, NEW b \in working \ working'
  PROVE  Reason(b)
<1>1. /\ step = "recheck" /\ enabled
      /\ working' = (working \cap Available(staged)) \cup ((retired \ Known(staged)) \cap outpoints)
  BY DEF recheck, publish, At
<1>2. working \subseteq outpoints /\ working \ retired \subseteq Known(staged)
  BY <1>1 DEF Inv, TypeOK, Listed, Syncing, Reading, Following
<1>3. b \in Known(staged) /\ b \notin Available(staged)
  BY <1>1, <1>2
<1>4. Len(journal) \in Nat /\ staged[b] \in Nat
  BY <1>3, Bounds DEF Inv, TypeOK, View, Known
<1>5. staged[b] % 2 # 0
  BY <1>3 DEF Available
<1>6. staged[b] > 0 /\ VersionIn(journal, b, Len(journal)) \in Nat
  BY <1>4, <1>5, VersionTyped
<1>7. VersionIn(journal, b, Len(journal)) > 0
  BY <1>3, <1>4, <1>6 DEF Inv, Replayed
<1>. QED BY <1>7, VersionDef DEF Reason

\* A sync cancels begun work only when its block was replaced, its bounty was spent or
\* the snapshot is a new one: work on what only leaves the window goes on.
THEOREM DiscoveryAgedGoesOn == Spec => AgedGoesOn
<1>1. ASSUME Inv, [Next]_vars, enabled', step' # step \/ staged' # staged \/ at' # at,
             NEW b \in working \ working'
      PROVE  Reason(b)
  <2>1. CASE window
    <3>1. page \in Seq(Events) /\ Of(page, {"spent"}) \subseteq Of(journal, {"spent"})
      BY <1>1 DEF Inv, TypeOK, Placed
    <3>. QED BY <1>1, <2>1, <3>1, WindowReason DEF window
  <2>2. CASE pages \/ drain
    BY <1>1, <2>2, ChangesReason DEF pages, drain
  <2>3. CASE \E x \in Blocks : load(x)
    BY <1>1, <2>3, LoadReason
  <2>4. CASE recheck
    <3>1. CASE dirty = {} /\ Settled
      BY <1>1, <2>4, <3>1, PublishReason
    <3>2. CASE ~(dirty = {} /\ Settled)
      <4>1. readWindow(<<>>)
        BY <1>1, <2>4, <3>2 DEF recheck
      <4>2. <<>> \in Seq(Events) /\ Of(<<>>, {"spent"}) = {}
        BY DEF Of
      <4>. QED BY <1>1, <4>1, <4>2, WindowReason
    <3>. QED BY <3>1, <3>2
  <2>5. CASE onReset
    BY <2>5 DEF onReset, At, Reason
  <2>6. CASE workEnds(b) \/ \E x \in Blocks : workEnds(x)
    BY <1>1, <2>6 DEF workEnds, syncVars
  <2>7. CASE fails \/ requestFails \/ stopClaims \/ forget
    BY <1>1, <2>7 DEF fails, requestFails, stopClaims, forget, stops
  <2>8. CASE UNCHANGED engineVars \/ \E x \in Blocks : work(x)
    BY <1>1, <2>8 DEF engineVars, work
  <2>9. CASE \E n \in 1..Window : setClaims(n)
    BY <1>1, <2>9 DEF setClaims
  <2>10. CASE begin \/ watermark \/ loaded \/ cancelled \/ cursorExpires
    BY <2>8, <2>10 DEF begin, watermark, loaded, cancelled, cursorExpires
  <2>11. CASE Resync \/ \E x \in Blocks : Change(x) \/ Mine(x) \/ Reorganize(x)
    BY <2>8, <2>11 DEF Change, Mine, Reorganize, Resync
  <2>12. CASE UNCHANGED vars
    BY <2>8, <2>12 DEF vars
  <2>. QED BY <1>1, <2>1, <2>2, <2>3, <2>4, <2>5, <2>6, <2>7, <2>8, <2>9, <2>10, <2>11, <2>12
           DEF Next, Sync
<1>2. Inv /\ [Next]_vars =>
        [ /\ enabled' /\ (step' # step \/ staged' # staged \/ at' # at)
          => \A b \in working \ working' :
               \/ step = "reset" \/ Version(b, Len(journal)) > 0
               \/ Height[b] > Len(chain) \/ chain[Height[b]] # b ]_vars
  BY <1>1 DEF Reason
<1>. QED BY <1>2, InvAlways, PTL DEF Spec, AgedGoesOn
=============================================================================

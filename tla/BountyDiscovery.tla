--------------------------- MODULE BountyDiscovery ---------------------------
(***************************************************************************)
(* How Automatic Claims learns which bounties it may work on               *)
(* (src/src/core/bounty-discovery.mjs and syncBountiesInternal of          *)
(* src/src/core/wallet-service.mjs): a watermark of the server's journal,  *)
(* the blocks of its recent window, and the journal and the window again   *)
(* until nothing has moved, while the chain and the bounties change.       *)
(*                                                                         *)
(* Each block of Blocks holds one bounty and is identified with it.  What  *)
(* is known of a bounty is its version: the number of journal events about *)
(* it when its block was read; at even versions it is available.  Of the   *)
(* engine, its queue and the work it has begun are kept: captures on the   *)
(* wire (a connection that has not started is cancelled with its bounty)   *)
(* and the submissions they lead to.  A reply is taken as it is read, for  *)
(* until then nothing of the sync moves but the blocks that other workers  *)
(* read.                                                                   *)
(***************************************************************************)
EXTENDS Naturals, Sequences, FiniteSets

CONSTANTS
  Blocks, Height, Parent,   \* a block has one height and one parent
  Genesis,          \* the first chain
  Window,           \* blocks the server serves, 600 in the code
  PageSize,         \* journal events of a page, 10000 in the code
  MaxPasses,        \* 32 in the code
  MaxRestarts,      \* 4 in the code
  MaxEvents,        \* length of the journal (a bound)
  None

ASSUME DiscoveryAssumption ==
  /\ Height \in [Blocks -> Nat \ {0}] /\ Parent \in [Blocks -> Blocks \cup {None}]
  /\ None \notin Blocks
  /\ \A b \in Blocks : Parent[b] # None => Height[b] = Height[Parent[b]] + 1
  /\ Genesis \in Seq(Blocks) /\ Genesis # <<>>
  /\ \A h \in DOMAIN Genesis :
       Height[Genesis[h]] = h /\ (h > 1 => Parent[Genesis[h]] = Genesis[h - 1])
  /\ {Window, PageSize, MaxPasses, MaxRestarts} \subseteq Nat \ {0} /\ MaxEvents \in Nat
  /\ None \notin Nat

VARIABLES
  chain, journal,                            \* the server's
  blocks, cursor,                            \* claimBlocks and claimCursor
  outpoints,                                 \* claimOutpoints
  tip,                                       \* the window that was seen last
  lookback,                                  \* claims.lookbackBlocks
  enabled, paused, queue, working, retired,  \* of the engine
  since                                      \* length of the journal when it was enabled

\* Of discoverBounties: where it stands, and its variables.
VARIABLES step, staged, dirty, at, page, hasMore, pass, restart

serverVars == <<chain, journal>>
walletVars == <<blocks, cursor, outpoints, tip>>
engineVars == <<enabled, paused, queue, working, retired>>
syncVars   == <<step, staged, dirty, at, page, hasMore, pass, restart>>
vars == <<serverVars, walletVars, engineVars, lookback, since, syncVars>>

Events == [block : Blocks, kind : {"spent", "back", "exit"}]
          \cup [block : {None}, kind : {"resync"}]
View == [Blocks -> 0..MaxEvents \cup {None}]
NoView == [b \in Blocks |-> None]

\* Types of the server, the wallet and a sync.
TypeOK ==
  /\ chain \in Seq(Blocks) /\ journal \in Seq(Events) /\ Len(journal) <= MaxEvents
  /\ blocks \in View /\ cursor \in 0..Len(journal) \cup {None}
  /\ outpoints \subseteq Blocks /\ tip \in Seq(Blocks) /\ lookback \in 1..Window
  /\ enabled \in BOOLEAN /\ paused \in BOOLEAN
  /\ queue \subseteq Blocks /\ retired \subseteq working /\ working \subseteq outpoints
  /\ step \in {"idle", "reset", "watermark", "window", "pages", "load", "drain",
               "recheck", "failed"}
  /\ staged \in View /\ dirty \subseteq Blocks /\ at \in 0..Len(journal) \cup {None}
  /\ page \in Seq(Events) /\ hasMore \in BOOLEAN
  /\ pass \in 0..MaxPasses /\ restart \in 0..MaxRestarts /\ since \in 0..Len(journal)

Idle ==
  /\ step' = "idle" /\ staged' = NoView /\ dirty' = {} /\ at' = None /\ page' = <<>>
  /\ hasMore' = FALSE /\ pass' = 0 /\ restart' = 0

Init ==
  /\ chain = Genesis /\ journal = <<>>
  /\ blocks = NoView /\ cursor = None /\ outpoints = {} /\ tip = <<>> /\ lookback \in 1..Window
  /\ enabled = FALSE /\ paused = FALSE /\ queue = {} /\ working = {} /\ retired = {}
  /\ since = 0
  /\ step = "idle" /\ staged = NoView /\ dirty = {} /\ at = None /\ page = <<>>
  /\ hasMore = FALSE /\ pass = 0 /\ restart = 0

-----------------------------------------------------------------------------
(* The server.                                                             *)

\* The last n blocks of a chain, and the height where they begin.
Oldest(c, n) == IF Len(c) > n THEN Len(c) - n + 1 ELSE 1
Recent(c, n) == {c[h] : h \in Oldest(c, n)..Len(c)}

Known(view) == {b \in Blocks : view[b] # None}

\* Changes of a bounty in the first n events of the journal.
Version(b, n) ==
  Cardinality({i \in 1..n : journal[i].block = b /\ journal[i].kind \in {"spent", "back"}})
Available(view) == {b \in Known(view) : view[b] % 2 = 0}

Log(block, kind) ==
  /\ Len(journal) < MaxEvents
  /\ journal' = Append(journal, [block |-> block, kind |-> kind])

\* A bounty of the window is spent, or its spending is undone.
Change(b) ==
  /\ b \in Recent(chain, Window)
  /\ Log(b, IF Version(b, Len(journal)) % 2 = 0 THEN "spent" ELSE "back")
  /\ UNCHANGED <<chain, walletVars, engineVars, lookback, since, syncVars>>

\* A new block; the one that leaves the window is announced.
Mine(b) ==
  /\ Parent[b] = chain[Len(chain)] /\ chain' = Append(chain, b)
  /\ IF Len(chain) >= Window THEN Log(chain[Oldest(chain, Window)], "exit") ELSE UNCHANGED journal
  /\ UNCHANGED <<walletVars, engineVars, lookback, since, syncVars>>

\* A block of the window is replaced.
Reorganize(b) ==
  /\ Height[b] \in Oldest(chain, Window)..Len(chain) /\ b \notin Recent(chain, Window)
  /\ Height[b] > 1 /\ chain[Height[b] - 1] = Parent[b]
  /\ chain' = Append(SubSeq(chain, 1, Height[b] - 1), b)
  /\ UNCHANGED <<journal, walletVars, engineVars, lookback, since, syncVars>>

\* The journal asks for a new snapshot.
Resync ==
  /\ Log(None, "resync")
  /\ UNCHANGED <<chain, walletVars, engineVars, lookback, since, syncVars>>

-----------------------------------------------------------------------------
(* Requests of discoverBounties.  Every reply is followed by check().      *)

At(s) == step = s /\ enabled

\* resetError: the snapshot is given up for another one.
rescan ==
  /\ step' = "reset" /\ restart' = restart + 1
  /\ staged' = NoView /\ dirty' = {} /\ at' = None /\ page' = <<>> /\ hasMore' = FALSE
  /\ pass' = 0

\* getbountychanges: the events after the cursor, or the end of the journal.
Last == IF Len(journal) > at + PageSize THEN at + PageSize ELSE Len(journal)
Page == IF at = None THEN <<>> ELSE SubSeq(journal, at + 1, Last)
next_cursor == IF at = None THEN Len(journal) ELSE Last

Of(events, kinds) == {events[i].block : i \in {k \in DOMAIN events : events[k].kind \in kinds}}

\* Faulty variant: begun work on retired bounties is aborted too.
invalidateAll(R, E) ==
  /\ queue' = queue \ (R \cup E)
  /\ working' = working \ (R \cup E) /\ retired' = retired \ (R \cup E)

\* The bounties of R are removed with the work on them; those of E are retired,
\* and what is on the wire goes on.
invalidate(R, E) ==
  /\ queue' = queue \ (R \cup E)
  /\ working' = working \ R /\ retired' = (retired \cup (E \cap working)) \ R

\* Faulty variant: events about blocks that are staged already are ignored.
dirtiedNew(events, desired) == (Of(events, {"spent", "back"}) \cap desired) \ Known(staged)

\* apply, what it marks: the blocks to be read again.
dirtied(events, desired) == Of(events, {"spent", "back"}) \cap desired

\* syncBounties, one at a time: from the last published state, if there is one.
begin ==
  /\ At("idle")
  /\ step' = IF cursor = None THEN "reset" ELSE "watermark"
  /\ staged' = blocks /\ at' = cursor
  /\ UNCHANGED <<serverVars, walletVars, engineVars, lookback, since, dirty, page, hasMore,
                 pass, restart>>

\* onReset: the engine is suspended, and its selection cleared.
onReset ==
  /\ At("reset")
  /\ paused' = TRUE /\ queue' = {} /\ working' = {} /\ retired' = {}
  /\ step' = IF restart < MaxRestarts THEN "watermark" ELSE "failed"
  /\ UNCHANGED <<serverVars, walletVars, enabled, lookback, since, staged, dirty, at, page,
                 hasMore, pass, restart>>

\* The server no longer knows the cursor.
cursorExpires ==
  /\ step \in {"watermark", "pages", "drain"} /\ enabled /\ at # None
  /\ rescan
  /\ UNCHANGED <<serverVars, walletVars, engineVars, lookback, since>>

\* The first page of the journal is asked for before any block.
watermark ==
  /\ At("watermark")
  /\ IF Of(Page, {"resync"}) # {} THEN rescan
     ELSE /\ step' = "window" /\ at' = next_cursor /\ page' = Page
          /\ hasMore' = (next_cursor < Len(journal))
          /\ UNCHANGED <<staged, dirty, pass, restart>>
  /\ UNCHANGED <<serverVars, walletVars, engineVars, lookback, since>>

\* Faulty variant: only the blocks of the cache are compared with the window.
replacedNone(c) == {}

\* onWindow: the bounties of replaced blocks, and of those above the window.
replaced(c) ==
  {b \in outpoints : Height[b] > Len(c)
                     \/ (Height[b] >= Oldest(c, Window) /\ c[Height[b]] # b)}

\* readWindow, and the events of a page applied after it: blocks that left the
\* window leave the cache; their bounties are retired when they aged.
readWindow(events) ==
  LET desired == Recent(chain, lookback)
      gone    == Known(staged) \ desired
      aged    == {b \in gone : Height[b] < Oldest(chain, Window) \/ b \in Recent(chain, Window)}
  IN  /\ tip' = chain
      /\ staged' = [b \in Blocks |-> IF b \in desired THEN staged[b] ELSE None]
      /\ dirty' = (dirty \cap desired) \cup dirtied(events, desired)
      /\ invalidate((gone \ aged) \cup replaced(chain) \cup Of(events, {"spent"}),
                    aged \cup Of(events, {"exit"}))

window ==
  /\ At("window") /\ readWindow(page)
  /\ step' = (IF hasMore THEN "pages" ELSE "load") /\ page' = <<>> /\ hasMore' = FALSE
  /\ UNCHANGED <<serverVars, blocks, cursor, outpoints, enabled, paused, lookback, since,
                 at, pass, restart>>

Wanted == Recent(tip, lookback)

\* A page that is applied at once; the last one leads to `next'.
changes(next) ==
  IF Of(Page, {"resync"}) # {} THEN rescan /\ UNCHANGED <<queue, working, retired>>
  ELSE /\ at' = next_cursor /\ dirty' = dirty \cup dirtied(Page, Wanted)
       /\ invalidate(Of(Page, {"spent"}), Of(Page, {"exit"}))
       /\ step' = IF next_cursor < Len(journal) THEN step ELSE next
       /\ UNCHANGED <<staged, page, hasMore, pass, restart>>

\* The rest of the first pages.
pages ==
  /\ At("pages") /\ changes("load")
  /\ UNCHANGED <<serverVars, walletVars, enabled, paused, lookback, since>>

\* loadDirty
Missing == {b \in Wanted : staged[b] = None \/ b \in dirty}

\* readBlock by one of the workers; a server that has moved on refuses it, and an
\* unavailable bounty is withdrawn at once.
load(b) ==
  /\ At("load") /\ b \in Missing
  /\ IF b \notin Recent(chain, Window) THEN rescan /\ UNCHANGED <<queue, working, retired>>
     ELSE /\ staged' = [staged EXCEPT ![b] = Version(b, Len(journal))]
          /\ dirty' = dirty \ {b}
          /\ invalidate({b} \ Available(staged'), {})
          /\ UNCHANGED <<step, at, page, hasMore, pass, restart>>
  /\ UNCHANGED <<serverVars, walletVars, enabled, paused, lookback, since>>

loaded ==
  /\ At("load") /\ Missing = {} /\ step' = "drain"
  /\ UNCHANGED <<serverVars, walletVars, engineVars, lookback, since, staged, dirty, at, page,
                 hasMore, pass, restart>>

\* What is new in the journal since.
drain ==
  /\ At("drain") /\ changes("recheck")
  /\ UNCHANGED <<serverVars, walletVars, enabled, paused, lookback, since>>

\* Faulty variant: the window is not read again.
SettledAtOnce == tip # <<>>

\* The window has not moved, and every block of it was read.
Settled ==
  /\ chain[Len(chain)] = tip[Len(tip)]
  /\ \A b \in Recent(chain, lookback) : staged[b] # None

\* Faulty variant: the outpoints that left the catalog are forgotten.
publishForgets ==
  LET rows == Known(staged)
      kept == (retired \ rows) \cap outpoints
  IN  /\ blocks' = staged /\ cursor' = at /\ outpoints' = rows
      /\ working' = (working \cap Available(staged)) \cup kept /\ retired' = retired \cap working'
      /\ queue' = Available(staged) /\ paused' = FALSE

\* The end of syncBountiesInternal: the catalog is published; what is neither
\* available in it nor retired is removed, and the engine goes on.
publish ==
  LET rows == Known(staged)
      kept == (retired \ rows) \cap outpoints
  IN  /\ blocks' = staged /\ cursor' = at /\ outpoints' = rows \cup kept
      /\ working' = (working \cap Available(staged)) \cup kept /\ retired' = retired \cap working'
      /\ queue' = Available(staged) /\ paused' = FALSE

\* A block must be read again, or the window is read again: it has moved, or it is
\* the one of this pass.
recheck ==
  /\ At("recheck")
  /\ IF dirty = {} /\ Settled
     THEN publish /\ Idle /\ UNCHANGED tip
     ELSE /\ IF dirty # {} THEN UNCHANGED <<tip, staged, dirty, queue, working, retired>>
                           ELSE readWindow(<<>>)
          /\ pass' = pass + 1 /\ step' = IF pass' < MaxPasses THEN "load" ELSE "failed"
          /\ UNCHANGED <<blocks, cursor, outpoints, paused, at, page, hasMore, restart>>
  /\ UNCHANGED <<serverVars, enabled, lookback, since>>

\* engine.stop: what has begun is aborted.
stops == enabled' = FALSE /\ paused' = FALSE /\ working' = {} /\ retired' = {} /\ UNCHANGED queue

\* The window or the journal moves too quickly.
fails ==
  /\ At("failed") /\ stops /\ Idle
  /\ UNCHANGED <<serverVars, walletVars, lookback, since>>

\* A request fails, or its reply is invalid.
requestFails ==
  /\ step # "idle" /\ enabled /\ stops /\ Idle
  /\ UNCHANGED <<serverVars, walletVars, lookback, since>>

\* check(): claims were stopped meanwhile.
cancelled ==
  /\ step # "idle" /\ ~enabled /\ Idle
  /\ UNCHANGED <<serverVars, walletVars, engineVars, lookback, since>>

-----------------------------------------------------------------------------
(* The engine and the wallet.                                              *)

\* A capture of b starts on the wire, after preparation and DNS.
work(b) ==
  /\ enabled /\ ~paused /\ b \in queue \ working /\ working' = working \cup {b}
  /\ UNCHANGED <<serverVars, walletVars, enabled, paused, queue, retired, lookback, since,
                 syncVars>>

\* The work on a bounty ends; onState forgets it if it was retired.
workEnds(b) ==
  /\ b \in working /\ working' = working \ {b} /\ retired' = retired \ {b}
  /\ outpoints' = IF b \in retired THEN outpoints \ ({b} \ Known(blocks)) ELSE outpoints
  /\ UNCHANGED <<serverVars, blocks, cursor, tip, enabled, paused, queue, lookback, since,
                 syncVars>>

\* Faulty variant: the engine is not suspended until it has caught up.
setClaimsAtOnce(n) ==
  /\ ~enabled /\ step = "idle" /\ lookback' = n
  /\ enabled' = TRUE /\ since' = Len(journal)
  /\ UNCHANGED <<serverVars, walletVars, paused, queue, working, retired, syncVars>>

\* setClaims waits for an earlier sync, and starts the engine suspended.
setClaims(n) ==
  /\ ~enabled /\ step = "idle" /\ lookback' = n
  /\ enabled' = TRUE /\ paused' = TRUE /\ since' = Len(journal)
  /\ UNCHANGED <<serverVars, walletVars, queue, working, retired, syncVars>>

\* Claims are switched off, or the connection is lost.
stopClaims ==
  /\ enabled /\ stops
  /\ UNCHANGED <<serverVars, walletVars, lookback, since, syncVars>>

\* lock, or a new configuration: what was discovered is forgotten.
forget ==
  /\ enabled' = FALSE /\ paused' = FALSE /\ queue' = {} /\ working' = {} /\ retired' = {}
  /\ blocks' = NoView /\ cursor' = None /\ outpoints' = {} /\ tip' = <<>>
  /\ UNCHANGED <<serverVars, lookback, since, syncVars>>

Sync ==
  \/ begin \/ onReset \/ watermark \/ window \/ pages \/ loaded \/ drain \/ recheck
  \/ fails \/ cancelled
  \/ \E b \in Blocks : load(b)

Next ==
  \/ Sync \/ cursorExpires \/ requestFails
  \/ \E b \in Blocks : Change(b) \/ Mine(b) \/ Reorganize(b) \/ work(b) \/ workEnds(b)
  \/ \E n \in 1..Window : setClaims(n)
  \/ Resync \/ stopClaims \/ forget

Spec == Init /\ [][Next]_vars

\* Replies arrive, and every refresh of the wallet begins a sync.
FairSpec == Spec /\ WF_vars(Sync)

-----------------------------------------------------------------------------
(* Properties.                                                             *)

\* No event of the journal is lost: the catalog knows of every change that precedes
\* its cursor, whichever pages, blocks and windows were read in which order
\* (bounty-discovery.mjs:119-141).
Coherent ==
  \A b \in Known(blocks) : blocks[b] >= Version(b, cursor)

\* A catalog is published whole: it is the server's window of that moment, however
\* the chain moved while it was read (bounty-discovery.mjs:126-141).
PublishedWhole ==
  [][blocks' \notin {blocks, NoView} => Known(blocks') = Recent(chain, lookback)]_vars

\* Work begins only once the journal was followed up to where it stood when claims
\* were enabled, and only on what is available in the catalog
\* (wallet-service.mjs:620-625, 695-710).
CaughtUp ==
  enabled /\ ~paused => cursor # None /\ cursor >= since /\ queue \subseteq Available(blocks)

\* A window read by any sync cancels all work on bounties of replaced blocks, those
\* that have left the lookback included (wallet-service.mjs:680-692).
ReplacedCancelled ==
  \A b \in working : /\ Height[b] <= Len(tip)
                     /\ Height[b] >= Oldest(tip, Window) => tip[Height[b]] = b

\* A sync cancels work on the wire only for a reason: a new snapshot, a replaced block or
\* a spent bounty.  Work on what only leaves the window goes on (README.md:108).
AgedGoesOn ==
  [][ /\ enabled' /\ (step' # step \/ staged' # staged \/ at' # at)
      => \A b \in working \ working' :
           \/ step = "reset" \/ Version(b, Len(journal)) > 0
           \/ Height[b] > Len(chain) \/ chain[Height[b]] # b ]_vars

\* Once the server is quiet and claims stay enabled, the catalog is the server's
\* and stays so.
Converges ==
  (<>[]enabled /\ <>[][FALSE]_serverVars) =>
    <>[](blocks = [b \in Blocks |-> IF b \in Recent(chain, lookback)
                                    THEN Version(b, Len(journal)) ELSE None])
=============================================================================

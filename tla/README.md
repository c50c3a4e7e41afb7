# A verification development of ConnectWallet

TLA+ models, TLC runs and TLAPS proofs of the Connectcoin desktop wallet
(`src/`): an Electron application whose main process keeps an encrypted wallet,
talks to a JSON-RPC server, and, with *Automatic Claims*, earns bounties by
capturing TLS handshakes through a Python helper. Paths and line numbers below
are those of the repository; the repository's own sources are under `src/src`.

## 1. The system

| component | source | state it keeps | operations | talks to |
|---|---|---|---|---|
| Claims engine | `core/claims-engine.mjs` | queue of job objects, proofs, proposals, budgets, live tasks, generation, start gate | start, stop, suspend, resume, enqueue, remove, retire, clear; one coordinator (`pump`) and handlers of prepare, DNS, capture, submit | scheduler (calls), pool (requests and callbacks), wallet service (prepare, submit, state callbacks) |
| Claim scheduler | `core/claim-scheduler.mjs`, `core/claim-priority.mjs` | index of ready keys, domain groups and gates, delayed keys | rebuild, next, commit, setReady, setDomainReady, remove | engine only |
| Helper pool | `core/claim-pool.mjs` | child process, requests by identity | start, resolve, attempt, receive, fail, close | engine, helper over NDJSON |
| Helper service | `helpers/claims_service.py`, `helpers/claims_bridge.py` | pending jobs, budgets, DNS cache, next start time | command, cancel, scheduler thread, executor threads, close | pool, TLS code |
| Bounty discovery | `core/bounty-discovery.mjs` | journal cursor, staged blocks, dirty set | discover (watermark, window, replay, publish) | RPC client, engine |
| RPC client | `core/rpc.mjs` | socket, pending requests, streams, quota history, cooldowns | connect, request, pace, receive, failAll, close | server, wallet service |
| Wallet service | `core/wallet-service.mjs` | session, security epoch, setup, replacement, preview, reservations, caches | all user actions, refresh, discovery, claims | everything |
| Vault | `core/vault.mjs` | the encrypted file, its backups | create, replace, unlock, update | disk |
| RSA probe | `core/rsa-probe.mjs`, `helpers/rsa_probe.py` | process tokens | probe | helper process |
| State publisher | `core/state-publisher.mjs` | throttle timer | request, close | renderer |
| Diagnostics | `core/diagnostics.mjs` | bounded queue, log files | record, flush | disk |
| Pure code | `core/transaction.mjs`, `core/claims.mjs`, `core/crypto.mjs`, `core/config.mjs`, `core/profile-paths.mjs` | none | serialise, sign, validate | |
| Shell and UI | `main.mjs`, `ui/app.mjs` | one user action at a time | IPC dispatch, quit, OS lock | wallet service |

What makes it hard. Everything in the main process runs to completion between
awaits, and everything awaits: an operation that resumes finds that the wallet
was locked, the connection replaced, the bounty removed, the engine restarted.
The code answers with three devices: the *security epoch* of the wallet, the
*generation* of the engine and *object identity* of jobs. Each is compared after
an await, and each comparison can be forgotten or made too early. Broadcasts
may succeed without an answer. Files are replaced by rename, and a power loss
may come before the directory is flushed. `PROJECT.json` lists the hazards at
their lines with the properties that watch them.

What makes each part correct:

- engine: limits hold, one submission per bounty, no verified proof is lost,
  nothing of an old generation acts in a new one, halting ends, nothing is
  sent after an unknown outcome;
- scheduler: a ready candidate is eventually chosen, a closed gate reopens;
- pool and helper: exactly one terminal answer per request, ordered frames;
- discovery: what it publishes misses no event before its cursor, no work goes
  on for a replaced block;
- RPC client: every request settles once, `notSent` only when nothing was sent;
- broadcasts: an outpoint is spent again only when its earlier transaction can
  no longer land;
- session and vault: a wallet the user was told is saved is never lost, an
  address in use is remembered, lock, cancellation and quitting win every race
  against an operation that would open a session, and quitting ends.

## 2. Modules

### ClaimsEngine

State and code:

| variables | code |
|---|---|
| `queued`, `retired`, `winners`, `prepared`, `parked`, `spent` | `queue` and the flags of its job objects: `retired`, `winner`, `prepared`, `waitingPrepare`, `budgetExceeded` |
| `completed`, `proposals`, `proofs`, `cooling`, `overBudget` | `completed`, `proposals`, `pendingProofs`, due times ahead of now, `successCounts` beyond the budget |
| `entries`, `groups`, `gates`, `dirty` | the scheduler's `entries`, `groups`, `domainGates` and the engine's `dirty` |
| `dns`, `resolving`, `waitingDns` | `dns`, `resolving`, `waitingDns` |
| `enabled`, `paused`, `stopping`, `haltReason`, `pool` | the fields of the same names |
| `coordinator`, `wake`, `awaitingStart` | `coordinator` (idle, just kicked, looping, or overtaken by a halt), `wake`, `awaitingStart` |
| `tasks` | `tasks`, `live`, `preparing`, `submitting`, `connections`, `tokens`: one record per promise, with the abort state of its controller |
| `warning` | `lastError` and its severity |

A job object is identified with its key while it is queued, and its flags are
kept only so long: `parked` are the waiters still queued. In the code a job that
retires, or wins without a submission slot, leaves `queue` but not
`waitingPrepare`; `releasePreparationSlot` then skips it without effect (519).
A task whose job left the queue is an *orphan*: that is what `this.queue.get(key) !== job`
tests. A task is `current` while its generation is the engine's. The loop of
`pump` is split in one action per turn, but no handler runs between two turns
(`coordinator \in Looping`), as in JavaScript; handlers are single actions from
the settlement of a promise to the next await. `publish` is the one synchronous
turn in which `syncBountiesInternal` (`wallet-service.mjs:692-710`) calls
`remove`, `retainCatalog`, `enqueue` and `resume`.

Abstractions. Ranks and worth are not modelled: any selectable job may be
chosen, and `publish` keeps any selection the sort could give (proofs first).
Times are the set `cooling` (`due`, `expires` make time pass). A bounty's domain
is fixed. The pool paces starts, so `nextStart` is left out. `isUnlocked` is
implied, because `lock` stops the engine in the turn that drops the session.
`setOptions` only runs on a stopped engine. An attempt that the pool refuses is
a request that fails. `Calls` names the calls of the environment a run allows.
`TaskIds` bounds the tasks alive at once; in the runs it never blocks the
coordinator's loop (TLC checks deadlock in all of them).

### WalletSession

The disk: `file` is what a read returns, `durable` the set of contents a power
loss may leave, `backups` the flushed copies. A write to a temporary file is
flushed before its rename, so contents are whole records; between rename and
directory flush `durable` has two members. The model is the POSIX one (on
Windows the directory is not flushed by the code).

The session: `session` is the decrypted data, `walletExists`, `replacement`,
`setup`, `preview` the fields of those names, `action` the one user action that
`main.mjs:87-134` lets run, `refresh` the background refresh, `saves` the chain
`persisting`, `rpc` whether the client is closed for good. `draining` says that
`engine.stop()` has not settled: it is pending only while the engine has a pool,
tasks or its coordinator (`claims-engine.mjs:290-293`), and these begin only with
a session. With an idle engine it settles in microtasks, so `lock`, `close` and
`saveConfig` go on in the same turn (`Halts`); otherwise `lockEnds` is the end of
the wait, for all that wait together. `relock` is a `lock()` among them whose
epoch has not moved, which will connect a new client. The security epoch is only ever compared with an
earlier value, so each operation carries `stale`: the epoch moved since it
began. `installed` and `issued` are history: wallets the user was told are
saved, and addresses handed out or receiving the change of a broadcast payment.
`consent` is history too: what the user gave last to open a wallet (a password, or
the phrase and password of a set-up), until it is used or taken back by a lock, a
cancellation, an expiry, a new configuration or quitting. `torn` says that the last
flush failed, or that the process was killed before it. No guard reads them.
A payment whose change index is saved waits in `broadcast` until the node's
reply, so that locks, closings and crashes fall between the two.

Abstractions. Names, amounts and cryptography are left out; a password is right
or wrong; the 20-address gap is nondeterminism, the 1000-address limit is
`MaxIndex`; a payment always has change; a recovery finds any pair of indices.
Discovery and claims are not here. `MaxBackups` bounds replacements, `MaxSaves`
the save chain (the code bounds neither), `Events` the failures and calls of a
run. External changes of the file are not modelled: the application takes a
single-instance lock.

### RpcClient, BroadcastOnce and Broadcasts

`RpcClient` is the client as actions without a specification of its own;
`Broadcasts` EXTENDS it with the wallet's use of it and has `Init`, `Next` and
`Spec`; `BroadcastOnce` is the abstract promise.

| variables | code |
|---|---|
| `requests` | one record per caller of `request()`: where it stands (`pacing`, `connecting`, `pending`, `stream`, `settled`), the socket, what its promise settled with; together they are `queuedRequests`, `pending` and `streams` |
| `aborted` | the requests whose own signal, or the client's `abort`, has fired |
| `sockets`, `socket`, `connecting`, `closed` | each `net.Socket` and the fields of those names |
| `node` | what the server did with the bytes of a broadcast (external) |
| `reserved`, `session`, `enabled` | `reserved`, `session`, `engine.enabled` |
| `attempts` | what the wallet made of each broadcast: flying, held, confirmed |
| `stale`, `past` | the comparison of `prepared.epoch` with `epoch`: the epoch moved, the session was left |
| `closing` | a `lock` or `saveConfig` that awaits `engine.stop()` |

A step between two awaits is one action: `request`, `pace`, `write` (from the
connection to `socket.write`), `cancelled`, and one action for each event of a
socket. `connected` and `connectFails` settle the waiters in the turn of the
event. `breaks` stands for every way the client itself gives a socket up: a bad
frame, a timer of a request or stream, a failed write. The close event comes in
its own time after a socket was destroyed, so sockets overlap; their identities
are recycled, hence the bound `Sockets` limits sockets alive at once and not
reconnections. The same holds for callers: requests and reconnections of a
behaviour are unlimited.

The server answers what it wants: an acceptance may be followed by silence, a
rejection of unknown meaning or a broken connection. Only one thing is assumed
of it, that the codes `isKnownClaimRejection` lists are given for refused
transactions. Quota windows and cooldowns delay a request by any time;
`paceFails` is the table of 4096 windows.

`BroadcastOnce` says what the comments at `wallet-service.mjs:757-772` promise.
An outpoint is *held* from the reservation on, *landed* when the node accepts
its transaction, *told* when success is reported. Only what is held lands, only
what cannot land is released, only what landed is told. The refinement maps
`held` to the attempts of the current session that were not given up. What
survives a lock is excluded from the promise (`node` forgets): the wallet itself
says that inputs stay reserved until it is reopened. A transaction still on the
wire at a lock may therefore land later, and the model makes no claim of it.

The review, the saving of the change index and a failing `saveConfig` belong to
`WalletSession`. A known divergence is in the model without a run of its own: a
claim that is paced while the configuration is saved finds its epoch gone, and
its outpoint stays reserved until the next lock although nothing was sent.

### ClaimsService and ClaimsHelper

`ClaimsService` is the Python process, `ClaimsHelper` the pool of the wallet
composed with it over two pipes (`commands`, `frames`).

| variables | code |
|---|---|
| `jobs`, `cancelled`, `pending`, `active` | `self.jobs` with each thread's place in `_resolve` or `_attempt`, `job.control`, `self.pending`, `active_tls` and `active_dns` |
| `dns`, `successes` | `self.dns`, `budget.successes` |
| `process` | the child: up, dead until its close event, gone |
| `pool`, `requests`, `aborted` | the state of `ConnectionPool`, `requests`, the signals that fired |
| `counts` | `successCounts` of the engine, which outlives the process |

Each action of a thread is what it does between two waits or inside one lock
(`condition`, `capture_lock`). `capture` counts and reports in one step because
`capture_lock` covers both. `Enough` stands for the target arithmetic
(`successes * (target + 1)` against `2^257`), `MaxCount` for `2^64 - 1`, and the
run stays below its `MaxCount`, so it does not exercise the saturation. Waiting for a turn may end at any time; `started` tests
again what can have changed, as the callback in `control.begin` does. A final
frame is sent before the job is removed (`leave`), so the helper may count more
jobs than the pool has requests. With too many jobs the helper gives up, so
`MaxJobs` must leave room for those that have answered and still hold a slot:
`MaxRequests + Concurrency + DnsLimit <= MaxJobs`, which the run meets exactly
(with one job less TLC finds a refused request, with this number a full helper's
refusal is never reached). In the code `MaxJobs` is 512;
the pool would open 512 requests, but the engine keeps to `Concurrency + DnsLimit`
of them (`claim-pool.mjs:79`), so there is room up to 254 connections at once. The
default is 100 and the settings allow 256 (`claims.mjs:31`); for the last two it
takes the engine's start gate as well, which is not part of this model: with at
most one attempt that has not started, hardly any job waits in the helper's
queue. The eviction of old budgets and the helper's
own `close()` are left out.

### BountyDiscovery

The server is a chain and a journal of events; `Mine`, `Reorganize`, `Change`
and `Resync` move them at any moment. `step` says where `discoverBounties`
stands between two requests, `staged`, `dirty`, `at`, `page`, `pass` and
`restart` are its variables, `blocks`, `cursor` and `outpoints` the wallet's
`claimBlocks`, `claimCursor` and `claimOutpoints`, and `queue`, `working` and
`retired` what matters of the engine: what it may start, what it has on the wire,
and what of this has aged out. `work` is the start of a capture: connections that
have not started are cancelled when their bounty ages out
(`claims-engine.mjs:249`), as are preparations and lookups by their own checks. What is known of a block's bounty is the number of
journal events about it when it was read (its *version*), so "the catalogue
misses no event" is an inequality. Up to four workers read blocks in any order:
`load` is one of them, `Missing` the rest of their list.

One bounty for each block; reservations and the certificate version, which only
filter `available`, are left out; `since` is history. A reply that fails
validation is `requestFails`.

### ClaimScheduler

`entries`, `allowed`, `active`, `waitingJobs` are the entries of the index and
their flags; `groups`, `gates`, `domainGates`, `waitingDomains` the domains;
`economic` the heap of leaders; `domainAfter`, `cursors`, `preferReward` the
place of the rotation; `jobs` and `delayed` what the engine knows of each bounty;
`selection` the token between `next` and `commit`. Fenwick trees and heaps are
the sets and orders they index, deadlines are ahead or not, and a rebuild takes
any ranking of `Rankings`. `rebuild` is part of `nextReady`, as in the engine,
and a selection made before a full clear is ignored by `commit` (`valid`, the
serial of the code). The engine has one selection outstanding (its start gate,
proved in `ClaimsEngineProofs`).

### MC modules and proof modules

An `MC` module gives the constants of one component their values and, where a
run uses it, defines the symmetry set. `ClaimsEngineProofs`,
`EngineLimitsProofs`, `EnginePlacesProofs`, `BroadcastsProofs`, `ClaimsHelperProofs`,
`BountyDiscoveryProofs`, `ClaimSchedulerProofs` and `WalletSessionProofs` hold
the theorems.

## 3. Runs

| run | question | instance |
|---|---|---|
| `engine_safety` | limits, start gate, generations, job identity, single submission, proposals, unknown outcome | 2 bounties of 1 domain, 3 tasks, 2 captures, 2 submissions, 1 proposal slot |
| `engine_proofs` | are proofs and places kept under contention | 3 bounties, 3 tasks, 2 places, 1 capture, 1 submission slot |
| `engine_liveness` | does halting end, is a proof submitted | 2 bounties, 2 tasks, 1 of everything, fair |
| `engine_gates` | (finding) does a closed gate reopen | 2 bounties, removal during DNS, fair |
| `engine_excess_proofs` | (finding) is an excess proof queued | 2 bounties, 1 submission slot, retirement |
| `session_replacement` | are wallets kept through replacement and crashes, and does a session open only with consent | 2 phrases, 2 passwords, 2 replacements, I/O errors, power loss |
| `session_saves` | are addresses in use remembered; does quitting end, and with one file for the next start | 1 wallet, indices 0..1, 2 queued saves, a configuration, I/O errors, power loss, fair |
| `session_reconnect` | (finding) can an unlocked wallet connect | 1 wallet, no failures |
| `broadcasts` | is an outpoint spent again only when that is safe; does every request settle | 1 claim, 1 payment, 1 stream, 2 outpoints, 2 sockets at once, 2 admitted, 1 in flight, fair |
| `helper` | one answer per request, in an order the pool accepts, budgets | 3 attempts of 1 bounty, 2 resolutions of 1 domain, 2 connections, 1 lookup, pipes of 2 frames, counter to 4 |
| `discovery` | is the catalogue whole, coherent, and does it converge | 4 blocks at 3 heights, window 2, pages of 1 event, journal of 2, 2 passes, 2 restarts, fair |
| `scheduler` | is the index exact, is everyone served | 3 bounties, 2 domains, 2 rankings, 1 delay, 1 domain to resolve, fair |

Why the bounds are enough.

- *Engine.* Two bounties of one domain are the least that can contend for a
  slot, a proposal, a gate or a place; three tasks let two captures of a bounty
  and a task of another run together, or an old task overlap two new ones.
  Three bounties are needed for a newcomer to push one of two out, which only
  `engine_proofs` has: there `ProofsKeepPlaces` meets a full queue, while the bound
  of the queue in `WithinLimits` cannot be reached with the two bounties of
  `engine_safety` and rests on the theorem `LimitsKept`. Limits are 1 or 2 so that
  each is reached and contended. The limit of lookups counts domains, so with one domain
  it is the number of its lookups that is checked.
- *Session.* One replacement after a creation, and a second after that, reach
  every state of the replacement protocol; two saves are a stale one and that of the
  operation that waits behind it. Quitting meets a creation, a payment or a
  rotation, such saves, a configuration and the engine; a replacement that quitting
  interrupts is left to the proof of `SessionExitsFlushed`.
- *Broadcasts.* A claim and a payment for different outpoints, with a stream
  that holds the only place in flight, make callers wait, be cancelled and be
  admitted beside each other; two sockets are an old one that has not closed
  and its successor. Callers, outpoints and sockets are used again without end.
- *Helper.* Two attempts running and one queued, with both kinds of slots full,
  is the least in which the scheduler skips a job; pipes of two make threads
  wait for the reader; the budget (`Enough = 1`) is passed with connections
  open.
- *Discovery.* A window of two over three heights with a rival block loses a
  block by age and by replacement; pages of one event make every journal read
  last over several requests; two events change a bounty twice, or change one
  and age another.
- *Scheduler.* Two bounties of one domain with different masks and one of
  another are the least in which a turn inside a domain and a turn between
  domains compete; the two rankings tie, reverse and exclude a bounty.

Every action and disjunct fires in some passing run. Symmetry is used in safety
runs only. Each property is broken by at least one mutant of a mapped
definition, the *faulty variants* that precede the definitions.

Fairness.

- `ClaimsEngine.FairSpec`: `WF(pump)`, for the coordinator's loop is
  synchronous code. `SF` of callbacks and of the settlement of each task: the
  event loop reaches a ready callback, though never inside the loop, so it is
  enabled again and again rather than always. Tasks settle because the pool
  fails a request after 45 seconds (`claim-pool.mjs:92`), RPC requests have
  their own deadline and abort controllers are honoured. The refresh timer
  fires every five seconds. Nothing is assumed of the calls of the wallet.
- `Broadcasts.FairSpec`: a cancelled caller resumes, a caller admitted writes,
  a connection is made or fails, a silent socket is given up by its timer, its
  close event comes. Quota windows pass, so `pace` is fair; strongly, because
  the bound on sockets alive disables it for a while. Neither the server nor
  the user owes anything. `Settles` is stated for streams, which have a
  deadline of their own; a broadcast ends by the same steps.
- `BountyDiscovery.FairSpec`: `WF(Sync)`. Every request of a sync is answered
  or fails, and the wallet's refresh begins a sync whenever none runs. Within
  `Converges` the server is quiet and claims stay enabled, from some moment on.
- `WalletSession.FairSpec`: `WF` of the background steps together and of `exit`:
  file operations, derivations and requests settle, the engine drains (`Drains` of
  `ClaimsEngine`), and the event loop runs what waited. Nothing is assumed of the
  user; where crashes are allowed, a kill ends quitting too.
- `ClaimScheduler.FairSpec`: `WF(nextReady)`, the coordinator selects whenever
  it is woken, and `SF(onStarted)`, since an attempt may fail before its
  connection again and again but not always. That a start succeeds now and then is
  an assumption about the network, not about the code. The run keeps the rates as
  they are (`MCRates`), to end in time. `Served` asks for settled
  priorities: when the ranks of two bounties of a domain are exchanged between
  any two turns, the cursor keeps the old rank and the rotation may return to
  the same bounty for ever. The promise in question is the repository's
  `README.md:25`; ranks age slowly in the code, and a rank that swaps at the
  rate of the turns is not a schedule it has.

### What the violations show

- `GatesReopen` (`claims-engine.mjs:418`): the gate of a domain closed for a
  DNS lookup is not reopened if a rebuild dropped the domain's group meanwhile,
  because the bounty was removed and no other of the domain is a candidate. The
  gate is remembered if another bounty of the domain is still queued, out of
  budget say, for that keeps the domain tracked (`claim-scheduler.mjs:139,157`);
  with no other queued, the rebuild would forget the gate. A bounty of the domain
  that comes back stays stuck until the engine halts, against the comment at
  526-527.
- `ExcessProofsQueued` (`claims-engine.mjs:548`): a verified proof of a bounty
  that left the window while its capture ran is dropped when all submission
  slots are taken, against the comment at 546-547.
- `UnlockedCanConnect` (`wallet-service.mjs:295`): an unlock while `lock()` waits
  for an engine with live work makes `lock()` return without connecting a new
  client; the unlocked wallet cannot connect until it is locked again or the
  configuration is saved. The trace locks an open session, unlocks before the
  engine has stopped, and has a session with a closed client; with an idle engine
  nothing fits into the wait. Against `wallet-service.mjs:149`, "please try again
  after unlocking".

## 4. Proofs

### ClaimsEngineProofs

For all bounties, domains and limits that satisfy
`EngineAssumption` (a domain per bounty, finite sets, positive limits):

- `EngineInv`: the inductive invariant `Coherent /\ Kept /\ UnknownHeld`;
- `TypeCorrect`, `JobsNeverCollide`, `HaltsCancelAll`, `OneStartAtATime`,
  `SubmittedOnce`, `ProposalsKept`, `ProofsKept`, `UnknownStopsClaims`: the
  properties `TypeOK`, `OneJobPerKey`, `NoStaleWork`, `OneStartAwaited`,
  `OneSubmission`, `ProofsKeepProposals`, `WinnersKeepProofs` and
  `UnknownOutcomeStops` of the runs. `TypeOK` includes that a retired bounty has
  left the scheduler's index (`IndexTyped`).

The argument. None of these is inductive alone. Whether a proof keeps its
proposal depends on evictions, which ask whether a task is live, which only
means something if tasks and jobs agree (`OneJobPerKey`); that agreement is kept
by `publish` because it never admits a key with a live task. One submission per
bounty needs that a winner's proof and a task in submission exclude each other
in the two places that start one, a capture that proves and a retry. The start
gate is tied to the only task that connects, and both to the generation, so a
halt can drop the gate and stale all tasks at once. `Coherent` collects the
facts on tasks, identities, generation and gate, `Kept` those on proofs,
proposals and winners, `UnknownHeld` the state after an unknown outcome. One
lemma per action or group of actions shows each part preserved; the temporal
theorems combine them with PTL.

### EngineLimitsProofs

For all bounties, tasks and limits, `LimitsKept`: `Spec => []WithinLimits`. The
limits are numbers of tasks in a place (connecting, preparing, looking up,
submitting), so the argument compares the tasks before and after a step. A step
that only rewrites tasks (an abort, an orphan, a stale generation, a move to a
place without a limit) has an image that keeps the place and the connection of
every task that remains, so no number grows (`Images`, `Under...`). A task is
added, or enters a limited place, only under a guard that leaves room
(`FitAdd`, and `FitProved` for a capture that submits in its own task). The queue
is bounded because `publish` counts the protected jobs before it admits others
(`PublishFits`), the prepared transactions because an insertion evicts first
(`ProposalsStep`). The proof uses the invariant of `ClaimsEngineProofs`.

### EnginePlacesProofs

For all bounties, tasks and limits the action properties `ProofsOutlive`
(`ProofsSurvive`) and `PlacesOutlive` (`ProofsKeepPlaces`). The proof goes
through the actions that write the proofs or the queue (`Steps`). Three facts of
the invariant matter: one submission per bounty, or a sibling's task would stand
for the one that has settled (`SucceededSteps`); a task is an orphan exactly when
its bounty has left the queue, so that a capture never proves a bounty that is
gone; and, new here, a claimed bounty is neither queued nor has a proof left
(`ClaimedOnce`), or a rebuilt selection would have to leave a kept proof out.

### BroadcastsProofs

For all callers, outpoints, sockets and limits:

- `BroadcastsOnce`: `Spec => OnceSpec`, the refinement of `BroadcastOnce`. The
  inductive invariant `Inv` is `Typed /\ Coupled /\ Fated /\ Guarded /\ Apart`:
  what the wallet made of a broadcast agrees with where its request stands
  (`Coupled`) and with what the server may have done (`Fated`); a reserved
  outpoint guards every broadcast that could still land (`Guarded`); two
  broadcasts of an outpoint never fly together (`Apart`). Each step maps to a
  step of `BroadcastOnce` or a stutter.
- `BroadcastsTypes`: types, with the limits of 32 and 12. The limits are tested
  before an await and counted after it; the proof carries the cardinality of
  those in between (lemmas `Admission` and `Bounded`).
- `BroadcastsNoneStranded`, `BroadcastsOneConnection`: from
  `SocketInv` = `Typed /\ Pointed /\ Placed`, which ties the current socket, the
  sockets alive and the socket of every request.

### ClaimsHelperProofs

For all bounties, requests, slots, budgets and lengths of the pipes that satisfy
`ServiceAssumption` and `PoolAssumption`:

- `HelperTypes`, `HelperBooks`, `HelperCarries`, `HelperBudgets`: the properties
  `TypeOK`, `BooksKept` (with the limits of captures and lookups), `Carried` and
  `BudgetKept` of the run;
- `HelperReports`: `CapturesInOrder`;
- `HelperFrames`: `FramesFit`, for all limits with
  `MaxRequests + Concurrency + DnsLimit <= MaxJobs` (see ClaimsService and
  ClaimsHelper above: without it, the helper may refuse a request).

The inductive invariant is `Typed /\ Phased /\ Books /\ Apart /\ Held /\ Spent`.
`Phased` ties the pool to its process: one that is not up has no state, and a
pool that has given up has no open request. That no request is answered twice
needs `Apart`: while a request is on its way the helper has no trace of it, and
a job that works has no answer in the pipe. `Held` is `Carried`. The budget needs
more than the counter: in `Spent` the successes *and* the open connections of a
bounty stay within `Enough + Concurrency`, a count on its way to the pool is
never ahead of the helper's, and a request carries a count that is no older than
the pool's unless the helper knows better; so a helper that is restarted begins
from a count that is within the budget. Lemmas on the pipes (`IdsAppended`,
`IdsTail`) and the queue say what a message added or taken does to the sets the
invariant speaks of; the steps of the helper are grouped by whether they end a
job or move it.

`CapturesInOrder` looks only at the pipe, so it is not inductive: the next
capture is one more than the *helper's* count. `Latest` ties the two: the helper's
count is the last one it has reported, or, while the pipe has none, not above the
pool's, which may know more from an earlier process. A command may only raise the
helper's count to one the pool has (`Spent`), and never when a report is on its
way. `Ordered` is the property for a process that has died too, whose reports can
still be read.

For `FramesFit` the invariant tells the whole story of an attempt, `Told`: what
the pool knows when it has read the first so many frames (`StartedBy`,
`ReportedBy`), that each frame in the pipe fits what is known when it comes to be
read (`FramesTold`), and that what is known after the last one is what the job
remembers of itself (`JobsTold`), which has told nothing while its command is
still on its way (`CommandsTold`). One more frame changes only what is known of
its own request and only at the end of the pipe (`Said`); reading one moves it
from the pipe to the pool and changes nothing of what is known later (`Heard`).
The count of a capture is never below the one its request carried plus one,
because the request's count is below the helper's when the job begins and the
helper's only grows. That a request finds a place in the helper is `RoomForJobs`.

### BountyDiscoveryProofs

For all chains, windows, page sizes, lookbacks, passes and restarts that satisfy
`DiscoveryAssumption` (a block has one height and one parent, one below):

- `DiscoveryTypes`, `DiscoveryCoherent`, `DiscoveryCaughtUp`,
  `DiscoveryReplacedCancelled`, and the action properties
  `DiscoveryPublishedWhole` and `DiscoveryAgedGoesOn`.

The inductive invariant `Inv` has, next to the properties, where a sync stands
(`Placed`), that a staged version misses only events that are still to be read
or are marked in `dirty` (`Replayed`), that work which is not retired is listed
(`Listed`), and that queued and begun work stands on the last window
(`Standing`). `PublishedWhole` needs that a chain is determined by its last
block (`ChainsAgree`): comparing the tips, as the code does, is then enough to
compare the windows. That is an induction along the chain, done by a least
counterexample (`Least`), as the induction theorems cannot be instantiated.

### ClaimSchedulerProofs

For all bounties, domains, rankings and rates: `IndexKept`,
`Spec => []Indexed`. The inductive invariant is
`Typed /\ Listed /\ Sorted /\ Led`: only ready jobs are allowed and every entry
has its group (`Listed`); an allowed entry is active or waits for its time, and a
gate with a time to wait for is on the heap of times (`Sorted`); the heap of
leaders has, of every open domain with candidates, the one a rebuild would
choose (`Led`).
The index looks only at the first of each policy of a domain, so the proof
shows that the first outranks the rest of its policy (`FirstOutranks`) and
hence that the best of those few outranks them all. A leader exists because a
finite set has a first element under a strict total order (`Highest`, by least
cardinality). A change of one bounty refreshes its domain (`Refreshed`); the
other domains keep their candidates and with them their leaders.

### WalletSessionProofs

For all phrases, passwords, numbers of addresses, replacements and saves, and all
sets of events that satisfy `SessionAssumption`, with a `None` that is no content
(`NoneAssumption`):

- `SessionTypes`, `SessionWalletsKept`, `SessionIssuedRemembered`, and the action
  properties `SessionReplacedFilesKept` and `SessionOpensWithConsent`;
- `SessionExitsFlushed`, which excepts a flush that has failed (`torn`): the code
  then exits all the same, with an older file possible after a power loss.

The inductive invariant `Inv`. Content *belongs* to the file when it is of the
same wallet and remembers every address in use: the session, the data an unlock
has read and every save that waits belong (`Opened`, `Entering`, `Queued`), so
whichever save lands next, the disk keeps what `Stored` says. An address becomes
in use when its save settles; by then every later save must know of it too,
which is why `Rotated` and `Paid` speak of all saves from the waiting one to the
last, and why at most one save may have an operation that waits for it
(`Waits`). A creation is alone once its saves have drained, and the file it
replaces is a backup before it publishes (`Created`). For the consent, `Agreed`:
an unlock, or a creation, that is not stale and has not lost its set-up still has
what the user gave for it; so the comparisons of the epoch before a session opens
are enough, and `Closing`, that whatever still runs while closing is stale, covers
the one place that does not test `closed`. Unless `torn`, `Flushed` ties two
durable contents to the one rename that waits for its flush, in the save at the
head or in a creation; both keep the process from exiting. The lemmas are grouped
by what a step touches: memory only (`QuietStep`), the epoch (`EpochMoves`,
`EpochBegins`), a grown session (`Grows`), a settled save (`Settles`).

### Only model-checked

Every invariant and action property of a passing run is a theorem.
`UnlockedCanConnect` of the session is refuted by its run. Liveness (`Drains`,
`ProofsSubmitted`, `Settles`, `ClosesEventually`, `Converges`, `Served`) is out of the prover's
reach.

## 5. Not modelled, and the plan

Not modelled for good, because they are computations on bytes or pure I/O:
transactions, keys, addresses and encryption; TLS and certificates (vendored);
configuration parsing and profile paths; rendering. Their failures are choices
of the actions that call them.

Not modelled, with little to check: the state publisher (one timer), the
diagnostic log (it never controls the wallet), the RSA probe process, the
gap-limited recovery scan, the account list and the funding cache. The hazards
they have are listed in `PROJECT.json` with that reason.

Next, most important first:

1. the accounts and the funding cache, whose lookups are shared by consumers
   that come and go over locks and reconnections;
2. the probe process of the send review.

---------------------------- MODULE WalletSession ----------------------------
(***************************************************************************)
(* The wallet's session and its encrypted file: src/src/core/vault.mjs and *)
(* the part of src/src/core/wallet-service.mjs that creates, replaces,     *)
(* unlocks, locks, saves and closes a wallet, as src/src/main.mjs calls it *)
(* (one action of the user at a time; lock, the timers, the refresh and    *)
(* quitting interrupt it).                                                 *)
(*                                                                         *)
(* `file' is what the program reads back, `durable' what the disk may hold *)
(* after a power loss: both differ between a rename and the flush of its   *)
(* directory.  A file written whole and flushed before it is renamed is a  *)
(* record, never a part of one.                                            *)
(*                                                                         *)
(* The security epoch is only ever compared for equality with a value read *)
(* earlier, so an operation carries `stale': the epoch moved since.        *)
(*                                                                         *)
(* `draining': engine.stop has not settled yet, because the claims engine  *)
(* still had a pool, tasks or its coordinator.  `consent' is a history     *)
(* variable: what the user last gave to open a wallet and has not taken    *)
(* back, `torn' that a flush failed, or the process was killed before it,  *)
(* and none has succeeded since.  Only properties read them.               *)
(***************************************************************************)
EXTENDS Naturals, Sequences, FiniteSets

CONSTANTS
  Seeds,        \* recovery phrases
  Passwords,
  MaxIndex,     \* address indices used (a bound; 999 in the code)
  MaxBackups,   \* replacements (a bound)
  MaxSaves,     \* saves waiting for one another (a bound)
  Events,       \* what the environment may do (a bound)
  None          \* no wallet, no session, no setup ...

ASSUME SessionAssumption ==
  MaxIndex \in Nat /\ MaxBackups \in Nat /\ MaxSaves \in Nat
  /\ Events \subseteq {"crash", "io", "replace", "receive", "spend", "config"}

VARIABLES
  file, durable, backups,                  \* the disk
  session, walletExists, replacement, setup, preview,
  action, refresh, saves,                  \* asynchronous operations
  rpc, relock, draining, closed, exited,
  installed, issued,                       \* history: what the user relies on
  consent, torn                            \* history: what the user agreed to, a lost flush

disk   == <<file, durable, backups, torn>>
locked == <<walletExists, replacement, setup, consent>>
process == <<rpc, relock, draining, closed, exited>>
vars == <<disk, session, locked, preview, action, refresh, saves, process, installed, issued>>

Content == [seed : Seeds, pw : Passwords, receive : 0..MaxIndex, change : 0..MaxIndex,
            needsRecovery : BOOLEAN]
Wallet(c) == [seed |-> c.seed, pw |-> c.pw]
Fresh(s, p, recover) ==
  [seed |-> s, pw |-> p, receive |-> 0, change |-> 0, needsRecovery |-> recover]

Setup == [seed : Seeds, pw : Passwords]
Replacement == [mode : {"recover", "switch"}, expected : Content]
Idle == [kind |-> "idle"]
Creation == [kind : {"create"}, pc : {"drain", "encrypt", "write", "publish", "flush", "done"},
             data : Content, expected : Content \cup {None}, confirms : BOOLEAN, stale : BOOLEAN]
Unlocking == [kind : {"unlock"}, pc : {"read", "derive"}, data : Content \cup {None}, stale : BOOLEAN]
Beginning == [kind : {"begin"}, mode : {"recover", "switch"}, stale : BOOLEAN]
Rotation == [kind : {"newAddress"}, previous : 0..MaxIndex, stale : BOOLEAN]
Payment == [kind : {"confirmSend"}, pc : {"network", "saving", "broadcast"}, index : 0..MaxIndex, stale : BOOLEAN]
Configuring == [kind : {"saveConfig"}, stale : BOOLEAN]
Operation == {Idle} \cup Creation \cup Unlocking \cup Beginning \cup Rotation
               \cup Payment \cup Configuring
Save == [data : Content, by : {"newAddress", "confirmSend", "refresh", "dropped"},
         pc : {"verify", "write", "publish", "flush"}]

ASSUME NoneAssumption ==
  None \notin Nat \cup Content \cup Setup \cup Replacement

DiskTyped ==
  /\ file \in Content \cup {None} /\ durable \subseteq Content \cup {None}
  /\ backups \subseteq Content /\ torn \in BOOLEAN
MemoryTyped ==
  /\ session \in Content \cup {None} /\ walletExists \in BOOLEAN
  /\ replacement \in Replacement \cup {None} /\ setup \in Setup \cup {None}
  /\ preview \in 0..MaxIndex \cup {None} /\ consent \in {"none", "password", "setup"}
OperationsTyped ==
  /\ action \in Operation /\ refresh \in {"none", "reading", "saving"} /\ saves \in Seq(Save)
ProcessTyped ==
  /\ rpc \in {"open", "closed"} /\ relock \in BOOLEAN /\ draining \in BOOLEAN
  /\ closed \in BOOLEAN /\ exited \in BOOLEAN
  /\ installed \subseteq [seed : Seeds, pw : Passwords]
  /\ issued \subseteq [chain : {"receive", "change"}, index : 0..MaxIndex]
TypeOK == DiskTyped /\ MemoryTyped /\ OperationsTyped /\ ProcessTyped

Init ==
  /\ file = None /\ durable = {None} /\ backups = {} /\ torn = FALSE
  /\ session = None /\ walletExists = FALSE /\ replacement = None /\ setup = None
  /\ preview = None /\ action = Idle /\ refresh = "none" /\ saves = << >>
  /\ rpc = "open" /\ relock = FALSE /\ draining = FALSE /\ closed = FALSE /\ exited = FALSE
  /\ installed = {} /\ issued = {} /\ consent = "none"

-----------------------------------------------------------------------------
(* Shared steps.                                                           *)

\* ++epoch: whatever waits meanwhile is stale when it resumes; a stale refresh
\* leaves only the save it has queued, a stale lock() does not reconnect.
Aged(op) == IF op = Idle THEN Idle ELSE [op EXCEPT !.stale = TRUE]
Orphaned == [i \in DOMAIN saves |->
               [saves[i] EXCEPT !.by = IF @ = "refresh" THEN "dropped" ELSE @]]
NewEpoch(op) == action' = op /\ refresh' = "none" /\ saves' = Orphaned /\ relock' = FALSE

Forget == replacement' = None /\ setup' = None
Withdraws == consent' = "none"
Act(op) == action' = op
Fails == Act(Idle)
MayAct == action = Idle /\ ~closed
IO == "io" \in Events

\* engine.stop settles within the turn unless the engine has live work, which
\* begins only with a session.
Halts == draining' \in {draining} \cup (IF session = None THEN {} ELSE {TRUE})

\* persist: the data is copied when the save is requested and written after the
\* saves before it, whether they succeeded or not.
Queue(data, by) ==
  /\ Len(saves) < MaxSaves
  /\ saves' = Append(saves, [data |-> data, by |-> by, pc |-> "verify"])

\* openSession, which ends by starting a refresh.
openSession(data) ==
  /\ session' = data /\ Forget /\ Withdraws
  /\ action' = Idle /\ refresh' = "reading" /\ saves' = Orphaned /\ relock' = FALSE

-----------------------------------------------------------------------------
(* Creating and replacing a wallet.                                        *)

prepareWallet(s, p) ==
  /\ MayAct /\ session = None
  /\ walletExists => replacement # None /\ replacement.mode = "switch"
  /\ setup' = [seed |-> s, pw |-> p]
  /\ UNCHANGED <<disk, session, walletExists, replacement, consent, preview, action, refresh, saves,
                 process, installed, issued>>

\* The 20-second timer drops an expired setup (cancelSetup does too); it ends an
\* expired replacement with cancelWalletReplacement.
expireSetup ==
  /\ setup # None /\ ~closed /\ setup' = None
  /\ consent' = IF consent = "setup" THEN "none" ELSE consent
  /\ UNCHANGED <<disk, session, walletExists, replacement, preview, action, refresh, saves,
                 process, installed, issued>>

\* A payment reviewed before the epoch moved can no longer be confirmed.
cancelWalletReplacement ==
  /\ (replacement # None /\ ~closed) \/ action = Idle
  /\ Forget /\ Withdraws /\ preview' = None /\ NewEpoch(Aged(action))
  /\ UNCHANGED <<disk, session, walletExists, rpc, draining, closed, exited, installed, issued>>

beginWalletReplacement(mode) ==
  /\ "replace" \in Events
  /\ MayAct /\ walletExists /\ session = None
  /\ Forget /\ Withdraws /\ NewEpoch([kind |-> "begin", mode |-> mode, stale |-> FALSE])
  /\ UNCHANGED <<disk, session, walletExists, preview, rpc, draining, closed, exited, installed, issued>>

\* Saves of the previous session land before the file is fingerprinted.
replacementBegins ==
  /\ action.kind = "begin" /\ saves = << >> /\ Fails
  /\ IF closed \/ action.stale \/ session # None THEN UNCHANGED replacement
     ELSE replacement' = [mode |-> action.mode, expected |-> file]
  /\ UNCHANGED <<disk, session, walletExists, setup, consent, preview, refresh, saves, process,
                 installed, issued>>

\* The user agrees to a wallet by giving its phrase and password, or its setup.
Creates(data, confirms) ==
  /\ Cardinality(backups) < MaxBackups \/ ~walletExists
  /\ Act([kind |-> "create", pc |-> "drain", data |-> data, confirms |-> confirms, stale |-> FALSE,
          expected |-> IF walletExists THEN replacement.expected ELSE None])
  /\ consent' = IF confirms THEN "setup" ELSE "password"
  /\ UNCHANGED <<disk, session, walletExists, replacement, setup, preview, refresh, saves, process, installed, issued>>

restoreWallet(s, p) ==
  /\ MayAct /\ session = None /\ (walletExists => replacement # None)
  /\ Creates(Fresh(s, p, TRUE), FALSE)

confirmWallet ==
  /\ MayAct /\ setup # None /\ session = None
  /\ walletExists => replacement # None /\ replacement.mode = "switch"
  /\ Creates(Fresh(setup.seed, setup.pw, FALSE), TRUE)

Creating(pc) == action.kind = "create" /\ action.pc = pc

\* createWalletInternal's check.
Authorized(op) ==
  /\ ~closed /\ ~op.stale /\ session = None
  /\ op.expected # None => replacement # None
  /\ op.confirms => setup # None

CreationStep(next) ==
  /\ Act([action EXCEPT !.pc = next])
  /\ UNCHANGED <<session, locked, preview, refresh, saves, process, installed, issued>>
CreationFails ==
  /\ Fails
  /\ UNCHANGED <<disk, session, locked, preview, refresh, saves, process, installed, issued>>

\* Saves of an earlier session land first.
creationDrained ==
  /\ Creating("drain") /\ saves = << >>
  /\ IF Authorized(action) THEN CreationStep("encrypt") /\ UNCHANGED disk ELSE CreationFails

\* The file is read as it is now: the one that was authorized, or none.
creationEncrypted ==
  /\ Creating("encrypt")
  /\ IF file = action.expected /\ (action.expected # None => Authorized(action))
     THEN CreationStep("write") /\ UNCHANGED disk ELSE CreationFails

\* Faulty variant: the copy of the old file is not flushed before it is replaced.
creationWrittenUnsafely == Creating("write") /\ CreationStep("publish") /\ UNCHANGED disk

\* The new file is flushed under a temporary name, and a replacement flushes
\* the copy of the old one and its directory.
creationWritten ==
  /\ Creating("write")
  /\ \/ /\ action.expected # None => Authorized(action)
        /\ CreationStep("publish") /\ UNCHANGED <<file, durable, torn>>
        /\ backups' = IF action.expected = None THEN backups ELSE backups \cup {action.expected}
     \/ /\ IO \/ (action.expected # None /\ ~Authorized(action))
        /\ CreationFails

Publishable == Authorized(action) /\ file = action.expected

\* replaceVault: the last check, the rename and its flush are one turn.  The
\* error of a failed flush says the new wallet is in place.
vaultReplaced ==
  /\ Creating("publish") /\ action.expected # None /\ Publishable
  /\ file' = action.data /\ issued' = {}
  /\ \/ /\ durable' = {file'} /\ torn' = FALSE /\ installed' = installed \cup {Wallet(file')}
        /\ Act([action EXCEPT !.pc = "done"])
        /\ UNCHANGED <<locked, refresh, saves, relock>>
     \/ /\ IO /\ durable' = durable \cup {file'} /\ torn' = TRUE /\ UNCHANGED installed
        /\ walletExists' = TRUE /\ Forget /\ Withdraws /\ NewEpoch(Idle)
  /\ UNCHANGED <<backups, session, preview, rpc, draining, closed, exited>>

\* createVault: an exclusive link, flushed later.
vaultCreated ==
  /\ Creating("publish") /\ action.expected = None /\ Publishable
  /\ file' = action.data /\ durable' = durable \cup {file'} /\ issued' = {}
  /\ Act([action EXCEPT !.pc = "flush"])
  /\ UNCHANGED <<backups, torn, session, locked, preview, refresh, saves, process, installed>>

creationRefused ==
  /\ Creating("publish") /\ (~Publishable \/ IO)
  /\ CreationFails

\* Faulty variant: a created wallet is reported before its directory is flushed.
creationFlushedLate ==
  /\ Creating("flush")
  /\ installed' = installed \cup {Wallet(file)} /\ Act([action EXCEPT !.pc = "done"])
  /\ UNCHANGED <<disk, session, locked, preview, refresh, saves, process, issued>>

creationFlushed ==
  /\ Creating("flush")
  /\ \/ /\ durable' = {file} /\ torn' = FALSE /\ installed' = installed \cup {Wallet(file)}
        /\ Act([action EXCEPT !.pc = "done"])
        /\ UNCHANGED <<locked, refresh, saves, relock>>
     \/ /\ IO /\ torn' = TRUE /\ UNCHANGED <<durable, installed>>
        /\ walletExists' = TRUE /\ Forget /\ Withdraws /\ NewEpoch(Idle)
  /\ UNCHANGED <<file, backups, session, preview, rpc, draining, closed, exited, issued>>

\* A cancellation after publication leaves the new wallet locked.
creationDone ==
  /\ Creating("done") /\ walletExists' = TRUE
  /\ IF closed \/ action.stale \/ (action.confirms /\ setup = None)
     THEN Forget /\ Withdraws /\ Fails /\ UNCHANGED <<session, refresh, saves, relock>>
     ELSE openSession(action.data)
  /\ UNCHANGED <<disk, preview, rpc, draining, closed, exited, installed, issued>>

-----------------------------------------------------------------------------
(* Unlocking and locking.                                                  *)

unlock ==
  /\ MayAct /\ walletExists /\ session = None
  /\ Forget /\ consent' = "password"
  /\ NewEpoch([kind |-> "unlock", pc |-> "read", data |-> None, stale |-> FALSE])
  /\ UNCHANGED <<disk, session, walletExists, preview, rpc, draining, closed, exited, installed, issued>>

unlockReads ==
  /\ action.kind = "unlock" /\ action.pc = "read"
  /\ IF closed \/ action.stale \/ file = None THEN Fails
     ELSE Act([action EXCEPT !.pc = "derive", !.data = file])
  /\ UNCHANGED <<disk, session, locked, preview, refresh, saves, process, installed, issued>>

\* Faulty variant: the epoch is not compared after the password derivation.
unlockedRegardless ==
  /\ action.kind = "unlock" /\ action.pc = "derive" /\ openSession(action.data)
  /\ UNCHANGED <<disk, walletExists, preview, rpc, draining, closed, exited, installed, issued>>

unlocked ==
  /\ action.kind = "unlock" /\ action.pc = "derive" /\ ~action.stale
  /\ openSession(action.data)
  /\ UNCHANGED <<disk, walletExists, preview, rpc, draining, closed, exited, installed, issued>>

\* A wrong password, or a lock during the derivation.
unlockFails ==
  /\ action.kind = "unlock" /\ action.pc = "derive" /\ Fails
  /\ UNCHANGED <<disk, session, locked, preview, refresh, saves, process, installed, issued>>

\* lock, up to its wait for the engine to stop; with nothing to wait for it
\* connects a new client in the same turn.
Locks ==
  /\ session' = None /\ Forget /\ Withdraws /\ preview' = None /\ Halts
  /\ action' = Aged(action) /\ refresh' = "none" /\ saves' = Orphaned
  /\ relock' = draining' /\ rpc' = IF draining' THEN "closed" ELSE "open"
  /\ UNCHANGED <<disk, walletExists, installed, issued>>

lock == Locks /\ UNCHANGED <<closed, exited>>

Reconnects == rpc' = "open" /\ refresh' = "none" /\ preview' = None

\* Faulty variant: a lock whose epoch has moved never returns.
lockNeverReturns ==
  /\ draining /\ relock /\ draining' = FALSE /\ relock' = FALSE /\ Reconnects
  /\ UNCHANGED <<disk, session, locked, action, saves, closed, exited, installed, issued>>

\* The engine has stopped: lock goes on, unless another epoch has begun.
lockEnds ==
  /\ draining /\ draining' = FALSE /\ relock' = FALSE
  /\ IF relock THEN Reconnects ELSE UNCHANGED <<rpc, refresh, preview>>
  /\ UNCHANGED <<disk, session, locked, action, saves, closed, exited, installed, issued>>

saveConfig ==
  /\ "config" \in Events /\ MayAct
  /\ Forget /\ Withdraws /\ preview' = None /\ rpc' = "closed" /\ Halts
  /\ NewEpoch([kind |-> "saveConfig", stale |-> FALSE])
  /\ UNCHANGED <<disk, session, walletExists, closed, exited, installed, issued>>

\* Once the engine has stopped: connectClient, unless the configuration could
\* not be written.
configSaved ==
  /\ action.kind = "saveConfig" /\ ~draining /\ Fails
  /\ \/ rpc' = "open" /\ preview' = None
        /\ refresh' = IF session # None THEN "reading" ELSE "none"
     \/ IO /\ UNCHANGED <<rpc, preview, refresh>>
  /\ UNCHANGED <<disk, session, locked, saves, relock, draining, closed, exited, installed, issued>>

-----------------------------------------------------------------------------
(* Saving the session.                                                     *)

newAddress ==
  /\ "receive" \in Events
  /\ MayAct /\ session # None /\ ~session.needsRecovery /\ session.receive < MaxIndex
  /\ session' = [session EXCEPT !.receive = @ + 1]
  /\ Act([kind |-> "newAddress", previous |-> session.receive, stale |-> FALSE])
  /\ Queue(session', "newAddress")
  /\ UNCHANGED <<disk, locked, preview, refresh, process, installed, issued>>

\* A payment is reviewed with the next change address (the last, undivided step
\* of previewSend; its checks fail whatever was interrupted before).
previewSend ==
  /\ "spend" \in Events
  /\ MayAct /\ session # None /\ ~session.needsRecovery /\ rpc = "open"
  /\ preview' = session.change
  /\ UNCHANGED <<disk, session, locked, action, refresh, saves, process, installed, issued>>

\* The user cancels the review, or the client is disconnected.
cancelSendPreview ==
  /\ preview # None /\ preview' = None
  /\ UNCHANGED <<disk, session, locked, action, refresh, saves, process, installed, issued>>

confirmSend ==
  /\ MayAct /\ session # None /\ preview # None /\ preview' = None
  /\ Act([kind |-> "confirmSend", pc |-> "network", index |-> preview, stale |-> FALSE])
  /\ UNCHANGED <<disk, session, locked, refresh, saves, process, installed, issued>>

Paying(pc) == action.kind = "confirmSend" /\ action.pc = pc

\* Faulty variant: the limit of addresses is not checked again.
changeSavedUnbounded ==
  /\ Paying("network") /\ ~action.stale /\ rpc = "open"
  /\ session' = [session EXCEPT !.change = IF @ > action.index THEN @ ELSE action.index + 1]
  /\ Act([action EXCEPT !.pc = "saving"]) /\ Queue(session', "confirmSend")
  /\ UNCHANGED <<disk, locked, preview, refresh, process, installed, issued>>

\* The chain tip answers, and the change path is saved before the broadcast.
changeSaved ==
  /\ Paying("network") /\ ~action.stale /\ rpc = "open" /\ session.change < MaxIndex
  /\ session' = [session EXCEPT !.change = IF @ > action.index THEN @ ELSE action.index + 1]
  /\ Act([action EXCEPT !.pc = "saving"]) /\ Queue(session', "confirmSend")
  /\ UNCHANGED <<disk, locked, preview, refresh, process, installed, issued>>

\* The tip could not be read, the session ended, or the broadcast settled: the
\* payment is over.
paymentEnds ==
  /\ Paying("network") \/ Paying("broadcast")
  /\ Fails
  /\ UNCHANGED <<disk, session, locked, preview, refresh, saves, process, installed, issued>>

\* The refresh of the timer or of an opened session.
refreshes ==
  /\ session # None /\ refresh = "none" /\ refresh' = "reading"
  /\ UNCHANGED <<disk, session, locked, preview, action, saves, process, installed, issued>>

\* recoverAddresses finds the last used address of each chain.
recovered ==
  /\ refresh = "reading" /\ session # None /\ rpc = "open" /\ session.needsRecovery
  /\ \E r, c \in 0..MaxIndex :
       session' = [session EXCEPT !.needsRecovery = FALSE,
                     !.receive = IF @ > r THEN @ ELSE r, !.change = IF @ > c THEN @ ELSE c]
  /\ refresh' = "saving" /\ Queue(session', "refresh")
  /\ UNCHANGED <<disk, locked, preview, action, process, installed, issued>>

\* Newly used addresses are saved too.
usageFound ==
  /\ refresh = "reading" /\ session # None /\ rpc = "open" /\ ~session.needsRecovery
  /\ refresh' = "saving" /\ Queue(session, "refresh")
  /\ UNCHANGED <<disk, session, locked, preview, action, process, installed, issued>>

refreshEnds ==
  /\ refresh = "reading" /\ refresh' = "none"
  /\ UNCHANGED <<disk, session, locked, preview, action, saves, process, installed, issued>>

-----------------------------------------------------------------------------
(* updateVault, for the save at the head of the chain.                     *)

Saving(pc) == saves # << >> /\ Head(saves).pc = pc
SaveStep(pc) == saves' = [saves EXCEPT ![1].pc = pc]

\* What the waiting operation does when its save settles: an address is handed
\* out or taken back, a payment is broadcast.
Settled(ok) ==
  LET by == Head(saves).by
      waits == by = action.kind
      goesOn == waits /\ ok /\ ~action.stale /\ session # None
  IN
  /\ saves' = Tail(saves)
  /\ refresh' = IF by = "refresh" THEN "none" ELSE refresh
  /\ action' = IF ~waits THEN action
               ELSE IF goesOn /\ by = "confirmSend" THEN [action EXCEPT !.pc = "broadcast"] ELSE Idle
  /\ session' = IF waits /\ by = "newAddress" /\ ~ok /\ ~action.stale /\ session # None
                THEN [session EXCEPT !.receive = action.previous] ELSE session
  /\ issued' = IF goesOn
               THEN issued \cup
                 {IF by = "newAddress" THEN [chain |-> "receive", index |-> session.receive]
                                       ELSE [chain |-> "change", index |-> action.index]}
               ELSE issued
  /\ UNCHANGED <<locked, preview, process, installed>>

\* The old password must open the file that is there.
saveVerified ==
  /\ Saving("verify") /\ file # None /\ file.pw = Head(saves).data.pw /\ SaveStep("write")
  /\ UNCHANGED <<disk, session, locked, preview, action, refresh, process, installed, issued>>

saveWritten ==
  /\ Saving("write") /\ SaveStep("publish")
  /\ UNCHANGED <<disk, session, locked, preview, action, refresh, process, installed, issued>>

savePublished ==
  /\ Saving("publish") /\ SaveStep("flush")
  /\ file' = Head(saves).data /\ durable' = durable \cup {file'}
  /\ UNCHANGED <<backups, torn, session, locked, preview, action, refresh, process, installed,
                 issued>>

\* Faulty variant: the directory is not flushed.
saveFlushedLate == Saving("flush") /\ Settled(TRUE) /\ UNCHANGED disk

saveFlushed ==
  /\ Saving("flush") /\ Settled(TRUE)
  /\ durable' = {file} /\ torn' = FALSE /\ UNCHANGED <<file, backups>>

saveFails ==
  /\ saves # << >> /\ UNCHANGED <<file, durable, backups>>
  /\ torn' = (torn \/ Saving("flush"))
  /\ IO \/ (Saving("verify") /\ (file = None \/ file.pw # Head(saves).data.pw))
  /\ Settled(FALSE)

-----------------------------------------------------------------------------
(* Quitting, crashing, starting again.                                     *)

close == ~closed /\ closed' = TRUE /\ Locks /\ UNCHANGED exited

\* Faulty variant: close does not wait for the saves.
exitBeforeSaves ==
  /\ closed /\ ~exited /\ ~draining /\ action.kind # "create"
  /\ exited' = TRUE /\ rpc' = "closed"
  /\ UNCHANGED <<disk, session, locked, preview, action, refresh, saves, relock, draining, closed,
                 installed, issued>>

\* close waits for the engine, as lock does, the saves and the wallet being
\* written.
exit ==
  /\ closed /\ ~exited /\ ~draining /\ saves = << >> /\ action.kind # "create"
  /\ exited' = TRUE /\ rpc' = "closed"
  /\ UNCHANGED <<disk, session, locked, preview, action, refresh, saves, relock, draining, closed,
                 installed, issued>>

\* The process ends: after an exit, or killed; a power loss picks what is durable.
restart ==
  /\ exited \/ "crash" \in Events
  /\ \/ UNCHANGED <<file, durable>>
     \/ /\ "crash" \in Events /\ file' \in durable /\ durable' = {file'}
  /\ torn' = (durable' # {file'})
  /\ session' = None /\ walletExists' = (file' # None) /\ Forget /\ Withdraws /\ preview' = None
  /\ action' = Idle /\ refresh' = "none" /\ saves' = << >>
  /\ rpc' = "open" /\ relock' = FALSE /\ draining' = FALSE /\ closed' = FALSE /\ exited' = FALSE
  /\ UNCHANGED <<backups, installed, issued>>

-----------------------------------------------------------------------------
user ==
  \/ \E s \in Seeds, p \in Passwords : prepareWallet(s, p) \/ restoreWallet(s, p)
  \/ \E m \in {"recover", "switch"} : beginWalletReplacement(m)
  \/ confirmWallet \/ cancelWalletReplacement \/ unlock \/ lock \/ saveConfig
  \/ newAddress \/ previewSend \/ cancelSendPreview \/ confirmSend \/ close

background ==
  \/ expireSetup \/ replacementBegins
  \/ creationDrained \/ creationEncrypted \/ creationWritten \/ vaultReplaced
  \/ vaultCreated \/ creationRefused \/ creationFlushed \/ creationDone
  \/ unlockReads \/ unlocked \/ unlockFails \/ lockEnds \/ configSaved
  \/ changeSaved \/ paymentEnds \/ refreshes \/ recovered \/ usageFound \/ refreshEnds
  \/ saveVerified \/ saveWritten \/ savePublished \/ saveFlushed \/ saveFails

Next == (~exited /\ (user \/ background \/ exit)) \/ restart
Spec == Init /\ [][Next]_vars

\* File operations settle, password derivations and the engine's work end (see
\* Drains of ClaimsEngine), and the event loop runs what waited for them.
FairSpec == Spec /\ WF_vars(~exited /\ background) /\ WF_vars(exit)

-----------------------------------------------------------------------------
(* Properties.                                                             *)

\* A wallet the user was told is saved is never lost: whatever a power loss
\* leaves on the disk, its encrypted file is the active one or a flushed backup.
WalletsKept ==
  \A w \in installed : \A c \in durable \cup {file} :
    (c # None /\ Wallet(c) = w) \/ \E b \in backups : Wallet(b) = w

\* Only a replacement installs another wallet, and it leaves the exact file it
\* replaced among the backups; a save of a session that has ended never lands
\* on the wallet that replaced it.  (A power loss may fall back on a file that
\* was replaced and not flushed away yet.)
ReplacedFilesKept ==
  [][file # None /\ file' # file =>
       \/ file \in backups'
       \/ file' # None /\ Wallet(file') = Wallet(file)
       \/ file' \in durable]_vars

\* An address that was handed out, or that receives the change of a broadcast
\* payment, is remembered by the file whatever a power loss leaves.
IssuedRemembered ==
  \A i \in issued : \A c \in durable \cup {file} :
    c # None => IF i.chain = "receive" THEN c.receive >= i.index ELSE c.change > i.index

\* A session opens, or turns into that of another wallet, only while what the
\* user gave for it stands: nothing locked, cancelled or closed the wallet, or
\* saved its configuration, since the password or the phrase was entered, and a
\* password opens one session at most.
OpensWithConsent ==
  [][session' # None /\ (session = None \/ Wallet(session') # Wallet(session))
       => consent # "none"]_vars

\* Unless a flush has failed, the program exits only once the file it will read
\* next is the only one a power loss can leave: a save or a new wallet that is on
\* its way when the user quits is flushed first, whatever quitting interrupts.
ExitsFlushed == exited /\ ~torn => durable = {file}

\* Quitting ends (or is killed), whatever lock, the engine, saves, a creation or a
\* moved epoch it has to wait for.
ClosesEventually == closed ~> exited \/ ~closed

\* An unlocked wallet has a client that can connect, or is being given one: an
\* action that a lock interrupts asks to "try again after unlocking"
\* (src/src/core/wallet-service.mjs:149).
UnlockedCanConnect ==
  session # None /\ rpc = "closed" => action.kind = "saveConfig"
=============================================================================

------------------------- MODULE WalletSessionProofs -------------------------
(***************************************************************************)
(* Proofs about WalletSession: for any phrases, passwords, indices and     *)
(* numbers of replacements and saves, a saved wallet is never lost, an     *)
(* address in use is remembered, a session opens only with consent, and,   *)
(* unless a flush has failed, quitting leaves one file for the next start. *)
(***************************************************************************)
EXTENDS WalletSession, SequenceTheorems, TLAPS

Covers(c, i) == IF i.chain = "receive" THEN c.receive >= i.index ELSE c.change > i.index

\* Content that knows of every address in use.
Remembers(c) == \A i \in issued : Covers(c, i)

\* Content that may be written to the file.
Belongs(c) == file # None /\ Wallet(c) = Wallet(file) /\ Remembers(c)

\* The disk.
Stored ==
  /\ file \in durable /\ (walletExists => file # None)
  /\ \A c \in durable \ {None} : Remembers(c)

\* The session and its saves.
Opened ==
  /\ session # None => Belongs(session)
  /\ preview # None => session # None /\ preview <= session.change
Queued ==
  /\ \A k \in DOMAIN saves : Belongs(saves[k].data) /\ (k > 1 => saves[k].pc = "verify")
  /\ saves # <<>> /\ saves[1].pc = "flush" => file = saves[1].data

\* At most one save has an operation that waits for it.
Waits ==
  \A k \in DOMAIN saves :
    /\ saves[k].by = "newAddress" => action.kind = "newAddress"
    /\ saves[k].by = "confirmSend" => action.kind = "confirmSend" /\ action.pc = "saving"
    /\ saves[k].by \in {"newAddress", "confirmSend"} =>
         \A l \in DOMAIN saves : saves[l].by = saves[k].by => l = k

\* The operations.
Created ==
  action.kind = "create" =>
    /\ session = None
    /\ action.pc # "drain" => saves = <<>>
    /\ action.pc = "publish" /\ action.expected # None => action.expected \in backups
    /\ action.pc \in {"flush", "done"} => file = action.data /\ issued = {}
Entering ==
  /\ action.kind = "begin" => file # None
  /\ action.kind = "unlock" =>
       /\ session = None
       /\ action.pc = "derive" => action.data # None /\ Belongs(action.data)
Rotated ==
  action.kind = "newAddress" /\ ~action.stale =>
    /\ session # None /\ ~session.needsRecovery /\ session.receive = action.previous + 1
    /\ \A i \in issued : i.chain = "receive" => i.index <= action.previous
    /\ \A k \in DOMAIN saves : saves[k].by = "newAddress" =>
         \A l \in k..Len(saves) : saves[l].data.receive >= session.receive
Paid ==
  action.kind = "confirmSend" /\ ~action.stale =>
    /\ session # None /\ action.index <= session.change
    /\ action.pc # "network" => action.index < session.change
    /\ \A k \in DOMAIN saves : saves[k].by = "confirmSend" =>
         \A l \in k..Len(saves) : saves[l].data.change > action.index
Acting == Created /\ Entering /\ Rotated /\ Paid

\* Quitting.
Closing == closed => session = None /\ (action = Idle \/ action.stale)

Inv ==
  TypeOK /\ Stored /\ WalletsKept /\ Opened /\ Queued /\ Waits /\ Acting /\ Closing

-----------------------------------------------------------------------------
(* Operations and saves.                                                   *)

\* The kind of an operation says what it carries.
LEMMA Kinds ==
  ASSUME NEW op \in Operation
  PROVE  /\ op.kind = "idle" => op = Idle
         /\ op.kind = "create" => op \in Creation
         /\ op.kind = "unlock" => op \in Unlocking
         /\ op.kind = "begin" => op \in Beginning
         /\ op.kind = "newAddress" => op \in Rotation
         /\ op.kind = "confirmSend" => op \in Payment
         /\ op.kind = "saveConfig" => op \in Configuring
         /\ op.kind \in {"idle", "create", "unlock", "begin", "newAddress", "confirmSend",
                         "saveConfig"}
         /\ op # Idle => op.stale \in BOOLEAN
BY DEF Operation, Idle, Creation, Unlocking, Beginning, Rotation, Payment, Configuring

\* A moved epoch changes nothing else of an operation.
LEMMA AgedKinds ==
  ASSUME NEW op \in Operation
  PROVE  /\ Aged(op) \in Operation /\ Aged(op).kind = op.kind
         /\ Aged(op) = Idle \/ Aged(op).stale
         /\ op.kind = "create" => /\ Aged(op).pc = op.pc /\ Aged(op).data = op.data
                                  /\ Aged(op).expected = op.expected
         /\ op.kind = "unlock" => Aged(op).pc = op.pc /\ Aged(op).data = op.data
         /\ op.kind = "confirmSend" => Aged(op).pc = op.pc
<1>1. CASE op.kind = "idle"
  BY <1>1, Kinds DEF Aged, Operation, Idle
<1>2. CASE op.kind = "create"
  BY <1>2, Kinds DEF Aged, Operation, Idle, Creation
<1>3. CASE op.kind = "unlock"
  BY <1>3, Kinds DEF Aged, Operation, Idle, Unlocking
<1>4. CASE op.kind = "begin"
  BY <1>4, Kinds DEF Aged, Operation, Idle, Beginning
<1>5. CASE op.kind = "newAddress"
  BY <1>5, Kinds DEF Aged, Operation, Idle, Rotation
<1>6. CASE op.kind = "confirmSend"
  BY <1>6, Kinds DEF Aged, Operation, Idle, Payment
<1>7. CASE op.kind = "saveConfig"
  BY <1>7, Kinds DEF Aged, Operation, Idle, Configuring
<1>. QED BY <1>1, <1>2, <1>3, <1>4, <1>5, <1>6, <1>7, Kinds

\* A moved epoch takes the refresh away from the save it has queued.
LEMMA OrphanedSaves ==
  ASSUME saves \in Seq(Save)
  PROVE  /\ Orphaned \in Seq(Save) /\ Len(Orphaned) = Len(saves) /\ DOMAIN Orphaned = DOMAIN saves
         /\ (Orphaned = <<>>) <=> (saves = <<>>)
         /\ \A k \in DOMAIN saves :
              /\ Orphaned[k].data = saves[k].data /\ Orphaned[k].pc = saves[k].pc
              /\ Orphaned[k].by \in {"newAddress", "confirmSend"} => Orphaned[k].by = saves[k].by
<1>1. \A k \in 1..Len(saves) : saves[k] \in Save
  OBVIOUS
<1>2. \A s \in Save : [s EXCEPT !.by = IF @ = "refresh" THEN "dropped" ELSE @] \in Save
  BY DEF Save
<1>3. Orphaned \in [1..Len(saves) -> Save]
  BY <1>1, <1>2 DEF Orphaned
<1>4. Orphaned \in Seq(Save) /\ Len(Orphaned) = Len(saves)
  BY <1>3
<1>5. \A k \in DOMAIN saves :
        /\ Orphaned[k].data = saves[k].data /\ Orphaned[k].pc = saves[k].pc
        /\ Orphaned[k].by \in {"newAddress", "confirmSend"} => Orphaned[k].by = saves[k].by
  BY <1>1 DEF Orphaned, Save
<1>. QED BY <1>4, <1>5

\* No save has an operation that waits for it.
Free(op) == op.kind # "newAddress" /\ ~(op.kind = "confirmSend" /\ op.pc = "saving")

LEMMA NobodyWaits ==
  ASSUME Waits, Free(action)
  PROVE  \A k \in DOMAIN saves : saves[k].by \notin {"newAddress", "confirmSend"}
BY DEF Waits, Free

-----------------------------------------------------------------------------
(* The beginning, and steps that leave the disk and the session alone.     *)

LEMMA InvInit == Init => Inv
<1>. SUFFICES ASSUME Init PROVE Inv
  OBVIOUS
<1>1. TypeOK
  <2>1. <<>> \in Seq(Save) /\ Idle \in Operation
    BY DEF Operation
  <2>2. DiskTyped /\ MemoryTyped
    BY DEF Init, DiskTyped, MemoryTyped
  <2>3. OperationsTyped /\ ProcessTyped
    BY <2>1 DEF Init, OperationsTyped, ProcessTyped
  <2>. QED BY <2>2, <2>3 DEF TypeOK
<1>2. Stored /\ WalletsKept
  BY DEF Init, Stored, WalletsKept
<1>3. Opened /\ Queued /\ Waits
  BY DEF Init, Opened, Queued, Waits
<1>4. Acting /\ Closing
  BY DEF Init, Acting, Created, Entering, Rotated, Paid, Closing, Idle
<1>. QED BY <1>1, <1>2, <1>3, <1>4 DEF Inv

LEMMA DiskKept ==
  ASSUME Stored, WalletsKept, UNCHANGED <<file, durable, installed, issued>>,
         backups \subseteq backups', walletExists' => file # None
  PROVE  Stored' /\ WalletsKept'
BY DEF Stored, WalletsKept, Remembers, Covers, Wallet

\* The memory of the process: what it holds of a wallet, and whether it ends.
Quiet ==
  /\ UNCHANGED <<file, durable, session, saves, installed, issued, closed>>
  /\ backups \subseteq backups' /\ (walletExists' => file # None)
  /\ preview' \in {preview, None} /\ ~exited'

LEMMA SessionKept ==
  ASSUME Inv, Quiet
  PROVE  Stored' /\ WalletsKept' /\ Opened' /\ Queued'
<1>1. Stored' /\ WalletsKept'
  BY DiskKept DEF Inv, Quiet
<1>2. Opened' /\ Queued'
  BY DEF Inv, Quiet, Opened, Queued, Belongs, Remembers, Covers, Wallet
<1>. QED BY <1>1, <1>2

\* An operation moves that no save waits for.
LEMMA QuietStep ==
  ASSUME Inv, Quiet, Free(action), TypeOK', Acting',
         closed => action' = Idle \/ action'.stale
  PROVE  Inv'
<1>1. Stored' /\ WalletsKept' /\ Opened' /\ Queued'
  BY SessionKept
<1>2. Waits'
  BY NobodyWaits DEF Inv, Quiet, Waits
<1>3. Closing'
  BY DEF Inv, Quiet, Closing
<1>. QED BY <1>1, <1>2, <1>3 DEF Inv

\* No operation moves.
LEMMA StillStep ==
  ASSUME Inv, Quiet, UNCHANGED action, TypeOK'
  PROVE  Inv'
<1>1. Stored' /\ WalletsKept' /\ Opened' /\ Queued'
  BY SessionKept
<1>2. Waits' /\ Closing'
  BY DEF Inv, Quiet, Waits, Closing
<1>3. Acting'
  BY DEF Inv, Quiet, Acting, Created, Entering, Rotated, Paid, Belongs, Remembers, Covers, Wallet
<1>. QED BY <1>1, <1>2, <1>3 DEF Inv

\* An operation ends that no save waits for.
LEMMA EndStep ==
  ASSUME Inv, Quiet, Free(action), TypeOK', action' = Idle
  PROVE  Inv'
<1>1. Acting'
  BY DEF Acting, Created, Entering, Rotated, Paid, Idle
<1>. QED BY <1>1, QuietStep

LEMMA InvPrepareWallet ==
  ASSUME Inv, ~exited, NEW s \in Seeds, NEW p \in Passwords, prepareWallet(s, p)
  PROVE  Inv'
<1>1. Quiet /\ UNCHANGED action
  BY DEF prepareWallet, Quiet, Inv, Stored, disk, process
<1>2. TypeOK'
  BY DEF prepareWallet, Inv, TypeOK, DiskTyped, MemoryTyped, OperationsTyped, ProcessTyped, Setup,
         disk, process
<1>. QED BY <1>1, <1>2, StillStep

LEMMA InvExpireSetup ==
  ASSUME Inv, ~exited, expireSetup
  PROVE  Inv'
<1>1. Quiet /\ UNCHANGED action
  BY DEF expireSetup, Quiet, Inv, Stored, disk, process
<1>2. TypeOK'
  BY DEF expireSetup, Inv, TypeOK, DiskTyped, MemoryTyped, OperationsTyped, ProcessTyped, disk, process
<1>. QED BY <1>1, <1>2, StillStep

LEMMA InvReplacementBegins ==
  ASSUME Inv, ~exited, replacementBegins
  PROVE  Inv'
<1>1. Quiet /\ action' = Idle /\ action.kind = "begin"
  BY DEF replacementBegins, Quiet, Inv, Stored, disk, process, Fails, Act
<1>2. TypeOK'
  <2>1. replacement' \in Replacement \cup {None}
    <3>1. action.mode \in {"recover", "switch"}
      BY <1>1, Kinds DEF Inv, TypeOK, OperationsTyped, Beginning
    <3>2. file \in Content
      BY <1>1 DEF Inv, Acting, Entering, TypeOK, DiskTyped
    <3>. QED BY <3>1, <3>2 DEF replacementBegins, Replacement, Inv, TypeOK, MemoryTyped
  <2>. QED BY <1>1, <2>1
          DEF replacementBegins, Inv, TypeOK, DiskTyped, MemoryTyped, OperationsTyped, ProcessTyped,
              Operation, disk, process
<1>. QED BY <1>1, <1>2, EndStep DEF Free

LEMMA InvCreates ==
  ASSUME Inv, ~exited, NEW data \in Content, NEW confirms \in BOOLEAN, Creates(data, confirms),
         MayAct, session = None, walletExists => replacement # None
  PROVE  Inv'
<1>. DEFINE op == [kind |-> "create", pc |-> "drain", data |-> data, confirms |-> confirms,
                   stale |-> FALSE,
                   expected |-> IF walletExists THEN replacement.expected ELSE None]
<1>1. /\ action' = op /\ action.kind = "idle" /\ ~closed
      /\ UNCHANGED <<disk, session, walletExists, replacement, setup, preview, refresh, saves, process,
                     installed, issued>>
      /\ consent' \in {"none", "password", "setup"}
  BY DEF Creates, Act, MayAct, Idle
<1>2. op \in Creation
  BY DEF Inv, TypeOK, MemoryTyped, Replacement, Creation
<1>3. Acting'
  BY <1>1 DEF Acting, Created, Entering, Rotated, Paid
<1>. HIDE DEF op
<1>4. Quiet
  BY <1>1 DEF Quiet, Inv, Stored, disk, process
<1>5. TypeOK'
  BY <1>1, <1>2 DEF Inv, TypeOK, DiskTyped, MemoryTyped, OperationsTyped, ProcessTyped, Operation,
                    disk, process
<1>. QED BY <1>1, <1>3, <1>4, <1>5, QuietStep DEF Free

LEMMA InvRestoreConfirm ==
  ASSUME Inv, ~exited, confirmWallet \/ \E s \in Seeds, p \in Passwords : restoreWallet(s, p)
  PROVE  Inv'
<1>1. \A s \in Seeds, p \in Passwords, r \in BOOLEAN : Fresh(s, p, r) \in Content
  <2>1. 0 \in 0..MaxIndex
    BY SessionAssumption
  <2>. QED BY <2>1 DEF Fresh, Content
<1>2. CASE confirmWallet
  <2>1. setup.seed \in Seeds /\ setup.pw \in Passwords
    BY <1>2 DEF confirmWallet, Inv, TypeOK, MemoryTyped, Setup
  <2>. QED BY <1>1, <1>2, <2>1, InvCreates DEF confirmWallet
<1>3. ASSUME NEW s \in Seeds, NEW p \in Passwords, restoreWallet(s, p)
      PROVE  Inv'
  BY <1>1, <1>3, InvCreates DEF restoreWallet
<1>. QED BY <1>2, <1>3

-----------------------------------------------------------------------------
(* Creating and replacing a wallet.                                        *)

LEMMA CreationMoves ==
  ASSUME action \in Creation,
         NEW next \in {"drain", "encrypt", "write", "publish", "flush", "done"},
         action' = [action EXCEPT !.pc = next]
  PROVE  /\ action' \in Creation /\ action'.kind = "create" /\ action'.pc = next
         /\ action'.data = action.data /\ action'.expected = action.expected
         /\ action'.stale = action.stale /\ action'.confirms = action.confirms
BY DEF Creation

\* A creation that has begun: it is alone.
LEMMA Alone ==
  ASSUME Inv, action.kind = "create"
  PROVE  /\ action \in Creation /\ session = None /\ Free(action)
         /\ action.pc # "drain" => saves = <<>>
         /\ closed => action.stale
BY Kinds DEF Inv, TypeOK, OperationsTyped, Acting, Created, Free, Closing, Idle

LEMMA InvCreationFails ==
  ASSUME Inv, ~exited, action.kind = "create", CreationFails
  PROVE  Inv'
<1>1. Quiet /\ action' = Idle
  BY DEF CreationFails, Fails, Act, Quiet, Inv, Stored, disk, process, locked
<1>2. TypeOK'
  BY <1>1 DEF CreationFails, Inv, TypeOK, DiskTyped, MemoryTyped, OperationsTyped, ProcessTyped,
              Operation, disk, process, locked
<1>. QED BY <1>1, <1>2, Alone, EndStep

\* A step of a creation before its publication.
LEMMA InvCreationStep ==
  ASSUME Inv, ~exited, action.kind = "create", NEW next \in {"encrypt", "write", "publish"},
         CreationStep(next), saves = <<>>, UNCHANGED <<file, durable, torn>>,
         backups \subseteq backups', backups' \subseteq Content,
         next = "publish" /\ action.expected # None => action.expected \in backups'
  PROVE  Inv'
<1>1. /\ action' \in Creation /\ action'.kind = "create" /\ action'.pc = next
      /\ action'.data = action.data /\ action'.expected = action.expected
      /\ action'.stale = action.stale
  BY CreationMoves, Alone DEF CreationStep, Act
<1>2. UNCHANGED <<session, locked, preview, refresh, saves, process, installed, issued>>
  BY DEF CreationStep
<1>3. Quiet
  BY <1>2 DEF Quiet, Inv, Stored, process, locked
<1>4. TypeOK'
  BY <1>1, <1>2 DEF Inv, TypeOK, DiskTyped, MemoryTyped, OperationsTyped, ProcessTyped, Operation,
                    process, locked
<1>5. Acting'
  BY <1>1, <1>2, Alone DEF Acting, Created, Entering, Rotated, Paid
<1>. QED BY <1>1, <1>3, <1>4, <1>5, Alone, QuietStep

LEMMA InvCreation ==
  ASSUME Inv, ~exited, creationDrained \/ creationEncrypted \/ creationWritten \/ creationRefused
  PROVE  Inv'
<1>1. action.kind = "create" /\ backups \subseteq Content
  BY DEF creationDrained, creationEncrypted, creationWritten, creationRefused, Creating, Inv, TypeOK,
         DiskTyped
<1>2. CASE CreationFails
  BY <1>1, <1>2, InvCreationFails
<1>3. CASE creationDrained /\ ~CreationFails
  BY <1>1, <1>3, InvCreationStep DEF creationDrained, disk
<1>4. CASE creationEncrypted /\ ~CreationFails
  <2>1. saves = <<>>
    BY <1>1, <1>4, Alone DEF creationEncrypted, Creating
  <2>. QED BY <1>1, <1>4, <2>1, InvCreationStep DEF creationEncrypted, disk
<1>5. CASE creationWritten /\ ~CreationFails
  <2>1. saves = <<>> /\ action \in Creation
    BY <1>1, <1>5, Alone DEF creationWritten, Creating
  <2>2. CreationStep("publish") /\ UNCHANGED <<file, durable, torn>>
        /\ backups' = (IF action.expected = None THEN backups ELSE backups \cup {action.expected})
    BY <1>5 DEF creationWritten
  <2>3. backups' \subseteq Content
    BY <1>1, <2>1, <2>2 DEF Creation
  <2>. QED BY <1>1, <2>1, <2>2, <2>3, InvCreationStep
<1>6. CASE creationRefused /\ ~CreationFails
  BY <1>6 DEF creationRefused
<1>. QED BY <1>2, <1>3, <1>4, <1>5, <1>6

\* Every installed wallet that the file about to be replaced holds has its backup.
LEMMA BackedUp ==
  ASSUME Inv, Creating("publish"), Publishable, NEW w \in installed
  PROVE  \E b \in backups : Wallet(b) = w
BY DEF Inv, Creating, Publishable, WalletsKept, Acting, Created

LEMMA InvPublished ==
  ASSUME Inv, ~exited, vaultReplaced \/ vaultCreated
  PROVE  Inv'
<1>1. /\ action \in Creation /\ action.kind = "create" /\ action.pc = "publish" /\ session = None
      /\ saves = <<>> /\ Free(action) /\ ~closed /\ preview = None
  BY Alone DEF vaultReplaced, vaultCreated, Creating, Publishable, Authorized, Inv, Opened
<1>2. file' = action.data /\ file' \in Content /\ file' # None /\ issued' = {}
      /\ file' \in durable' /\ durable' \subseteq durable \cup {file'}
      /\ UNCHANGED <<backups, session, preview, rpc, closed, exited>> /\ torn' \in BOOLEAN
  <2>1. action.data \in Content
    BY <1>1 DEF Creation
  <2>2. action.data # None
    BY <2>1, NoneAssumption
  <2>. QED BY <2>1, <2>2 DEF vaultReplaced, vaultCreated, process, Inv, TypeOK, DiskTyped
<1>3. /\ installed' = installed \/ (installed' = installed \cup {Wallet(file')} /\ durable' = {file'})
      /\ saves' = saves \/ saves' = Orphaned
  BY DEF vaultReplaced, vaultCreated, NewEpoch
<1>4. saves' = <<>>
  BY <1>1, <1>3, OrphanedSaves DEF Inv, TypeOK, OperationsTyped
<1>5. \/ /\ action' \in Creation /\ action'.kind = "create" /\ action'.pc \in {"flush", "done"}
         /\ action'.data = action.data
      \/ action' = Idle
  BY <1>1, CreationMoves DEF vaultReplaced, vaultCreated, Act, NewEpoch
<1>6. /\ walletExists' \in BOOLEAN /\ replacement' \in {replacement, None} /\ setup' \in {setup, None}
      /\ refresh' \in {refresh, "none"} /\ relock' \in BOOLEAN /\ draining' = draining
      /\ consent' \in {"none", "password", "setup"}
  BY DEF vaultReplaced, vaultCreated, locked, process, Forget, Withdraws, NewEpoch, Inv, TypeOK, MemoryTyped,
         ProcessTyped
<1>7. TypeOK'
  <2>1. DiskTyped'
    BY <1>2 DEF Inv, TypeOK, DiskTyped
  <2>2. MemoryTyped'
    BY <1>2, <1>6 DEF Inv, TypeOK, MemoryTyped
  <2>3. OperationsTyped'
    BY <1>4, <1>5, <1>6 DEF Inv, TypeOK, OperationsTyped, Operation
  <2>4. ProcessTyped'
    <3>1. Wallet(file') \in [seed : Seeds, pw : Passwords]
      BY <1>2 DEF Wallet, Content
    <3>. QED BY <1>2, <1>3, <1>6, <3>1 DEF Inv, TypeOK, ProcessTyped
  <2>. QED BY <2>1, <2>2, <2>3, <2>4 DEF TypeOK
<1>8. Stored'
  BY <1>2 DEF Stored, Remembers
<1>9. WalletsKept'
  <2>1. \A w \in installed : \E b \in backups : Wallet(b) = w
    BY BackedUp DEF vaultReplaced, vaultCreated
  <2>2. CASE installed' = installed
    BY <1>2, <2>1, <2>2 DEF WalletsKept, Wallet
  <2>3. CASE installed' = installed \cup {Wallet(file')} /\ durable' = {file'}
    BY <1>2, <2>1, <2>3 DEF WalletsKept, Wallet
  <2>. QED BY <1>3, <2>2, <2>3
<1>10. Opened' /\ Queued' /\ Waits'
  BY <1>1, <1>2, <1>4 DEF Opened, Queued, Waits
<1>11. Acting'
  BY <1>1, <1>2, <1>4, <1>5 DEF Acting, Created, Entering, Rotated, Paid, Idle
<1>12. Closing'
  BY <1>1, <1>2 DEF Closing
<1>. QED BY <1>7, <1>8, <1>9, <1>10, <1>11, <1>12 DEF Inv

LEMMA InvFlushed ==
  ASSUME Inv, ~exited, creationFlushed
  PROVE  Inv'
<1>1. /\ action \in Creation /\ action.kind = "create" /\ action.pc = "flush" /\ session = None
      /\ saves = <<>> /\ Free(action) /\ preview = None /\ file = action.data /\ issued = {}
      /\ closed => action.stale
  BY Alone DEF creationFlushed, Creating, Inv, Opened, Acting, Created
<1>2. file \in Content /\ file # None /\ file \in durable
  BY <1>1, NoneAssumption DEF Creation, Inv, Stored
<1>3. /\ UNCHANGED <<file, backups, session, preview, rpc, closed, exited, issued>> /\ torn' \in BOOLEAN
      /\ \/ durable' = {file} /\ installed' = installed \cup {Wallet(file)}
         \/ UNCHANGED <<durable, installed>>
  BY DEF creationFlushed, Inv, TypeOK, DiskTyped
<1>4. saves' = <<>>
  BY <1>1, OrphanedSaves DEF creationFlushed, NewEpoch, Inv, TypeOK, OperationsTyped
<1>5. \/ /\ action' \in Creation /\ action'.kind = "create" /\ action'.pc = "done"
         /\ action'.data = action.data /\ action'.stale = action.stale
      \/ action' = Idle
  BY <1>1, CreationMoves DEF creationFlushed, Act, NewEpoch
<1>6. /\ walletExists' \in BOOLEAN /\ replacement' \in {replacement, None} /\ setup' \in {setup, None}
      /\ refresh' \in {refresh, "none"} /\ relock' \in BOOLEAN /\ draining' = draining
      /\ consent' \in {"none", "password", "setup"}
  BY DEF creationFlushed, locked, Forget, Withdraws, NewEpoch, Inv, TypeOK, MemoryTyped, ProcessTyped
<1>7. TypeOK'
  <2>1. DiskTyped' /\ MemoryTyped'
    BY <1>2, <1>3, <1>6 DEF Inv, TypeOK, DiskTyped, MemoryTyped
  <2>2. OperationsTyped'
    BY <1>4, <1>5, <1>6 DEF Inv, TypeOK, OperationsTyped, Operation
  <2>3. ProcessTyped'
    <3>1. Wallet(file) \in [seed : Seeds, pw : Passwords]
      BY <1>2 DEF Wallet, Content
    <3>. QED BY <1>3, <1>6, <3>1 DEF Inv, TypeOK, ProcessTyped
  <2>. QED BY <2>1, <2>2, <2>3 DEF TypeOK
<1>8. Stored'
  BY <1>1, <1>2, <1>3 DEF Inv, Stored, Remembers
<1>9. WalletsKept'
  BY <1>2, <1>3 DEF Inv, WalletsKept, Wallet
<1>10. Opened' /\ Queued' /\ Waits'
  BY <1>1, <1>3, <1>4 DEF Opened, Queued, Waits
<1>11. Acting'
  BY <1>1, <1>3, <1>4, <1>5 DEF Acting, Created, Entering, Rotated, Paid, Idle
<1>12. Closing'
  BY <1>1, <1>3, <1>5 DEF Inv, Closing
<1>. QED BY <1>7, <1>8, <1>9, <1>10, <1>11, <1>12 DEF Inv

\* The saves that a moved epoch leaves still belong to the file.
LEMMA OrphanedKept ==
  ASSUME Inv, saves' = Orphaned, UNCHANGED <<file, issued>>
  PROVE  /\ saves' \in Seq(Save) /\ Queued' /\ (saves = <<>> => saves' = <<>>)
         /\ DOMAIN saves' = DOMAIN saves
         /\ \A k \in DOMAIN saves :
              saves'[k].by \in {"newAddress", "confirmSend"} => saves'[k].by = saves[k].by
<1>1. /\ Orphaned \in Seq(Save) /\ DOMAIN Orphaned = DOMAIN saves
      /\ (Orphaned = <<>>) <=> (saves = <<>>)
      /\ \A k \in DOMAIN saves :
           /\ Orphaned[k].data = saves[k].data /\ Orphaned[k].pc = saves[k].pc
           /\ Orphaned[k].by \in {"newAddress", "confirmSend"} => Orphaned[k].by = saves[k].by
  BY OrphanedSaves DEF Inv, TypeOK, OperationsTyped
<1>2. 1 \in DOMAIN saves \/ saves = <<>>
  BY DEF Inv, TypeOK, OperationsTyped
<1>3. ASSUME NEW k \in DOMAIN saves'
      PROVE  Belongs(saves[k].data)' /\ (k > 1 => saves'[k].pc = "verify")
  BY <1>1 DEF Inv, Queued, Belongs, Remembers, Covers, Wallet
<1>4. saves' # <<>> /\ saves'[1].pc = "flush" => file = saves'[1].data
  BY <1>1, <1>2 DEF Inv, Queued
<1>. QED BY <1>1, <1>3, <1>4 DEF Queued

\* A session that opens on what the file holds.
LEMMA SessionOpens ==
  ASSUME Inv, ~exited, NEW data \in Content, openSession(data), session = None, ~closed,
         Free(action), Belongs(data), walletExists' \in BOOLEAN,
         UNCHANGED <<disk, preview, rpc, draining, closed, exited, installed, issued>>
  PROVE  Inv'
<1>1. /\ session' = data /\ action' = Idle /\ saves' = Orphaned /\ refresh' = "reading"
      /\ replacement' = None /\ setup' = None /\ relock' = FALSE
      /\ consent' = "none" /\ preview = None /\ data # None /\ file # None
  BY NoneAssumption DEF openSession, Forget, Withdraws, Inv, Opened, Belongs
<1>2. saves' \in Seq(Save) /\ Queued'
      /\ \A k \in DOMAIN saves' :
           /\ k \in DOMAIN saves
           /\ saves'[k].by \in {"newAddress", "confirmSend"} => saves'[k].by = saves[k].by
  BY <1>1, OrphanedKept DEF disk
<1>3. TypeOK'
  <2>1. DiskTyped' /\ MemoryTyped'
    BY <1>1 DEF Inv, TypeOK, DiskTyped, MemoryTyped, disk
  <2>2. OperationsTyped'
    BY <1>1, <1>2 DEF OperationsTyped, Operation
  <2>3. ProcessTyped'
    BY <1>1 DEF Inv, TypeOK, ProcessTyped
  <2>. QED BY <2>1, <2>2, <2>3 DEF TypeOK
<1>4. Stored' /\ WalletsKept'
  BY <1>1, DiskKept DEF Inv, disk
<1>5. Opened'
  BY <1>1 DEF Opened, Belongs, Remembers, Covers, Wallet, disk
<1>7. Waits'
  BY <1>2, NobodyWaits DEF Inv, Waits
<1>8. Acting' /\ Closing'
  BY <1>1 DEF Acting, Created, Entering, Rotated, Paid, Closing, Idle
<1>. QED BY <1>2, <1>3, <1>4, <1>5, <1>7, <1>8 DEF Inv

LEMMA InvCreationDone ==
  ASSUME Inv, ~exited, creationDone
  PROVE  Inv'
<1>1. /\ action \in Creation /\ action.kind = "create" /\ action.pc = "done" /\ session = None
      /\ saves = <<>> /\ Free(action) /\ file = action.data /\ issued = {} /\ preview = None
      /\ action.data \in Content /\ action.data # None
  BY Alone, NoneAssumption DEF creationDone, Creating, Inv, Opened, Acting, Created, Creation
<1>2. walletExists' = TRUE /\ UNCHANGED <<disk, preview, rpc, draining, closed, exited, installed, issued>>
  BY DEF creationDone
<1>3. CASE openSession(action.data) /\ ~closed
  BY <1>1, <1>2, <1>3, SessionOpens DEF Belongs, Remembers
<1>4. CASE Forget /\ Withdraws /\ Fails /\ UNCHANGED <<session, refresh, saves, relock>>
  <2>1. Quiet /\ action' = Idle
    BY <1>1, <1>2, <1>4 DEF Quiet, Fails, Act, disk
  <2>2. TypeOK'
    BY <1>2, <1>4, <2>1 DEF Inv, TypeOK, DiskTyped, MemoryTyped, OperationsTyped, ProcessTyped,
                            Operation, disk, Forget, Withdraws
  <2>. QED BY <1>1, <2>1, <2>2, EndStep
<1>. QED BY <1>3, <1>4 DEF creationDone

-----------------------------------------------------------------------------
(* Unlocking and locking.                                                  *)

\* The epoch moves under an operation.
LEMMA EpochMoves ==
  ASSUME Inv, ~exited, UNCHANGED <<file, durable, backups, walletExists, installed, issued>>,
         session' \in {session, None}, preview' = None, action' = Aged(action), saves' = Orphaned,
         TypeOK', closed' => session' = None, ~exited'
  PROVE  Inv'
<1>1. Stored' /\ WalletsKept'
  BY DiskKept DEF Inv, Stored
<1>2. Opened'
  BY DEF Inv, Opened, Belongs, Remembers, Covers, Wallet
<1>3. /\ Queued' /\ (saves = <<>> => saves' = <<>>) /\ DOMAIN saves' = DOMAIN saves
      /\ \A k \in DOMAIN saves :
           saves'[k].by \in {"newAddress", "confirmSend"} => saves'[k].by = saves[k].by
  BY OrphanedKept
<1>4. /\ action'.kind = action.kind /\ (action' = Idle \/ action'.stale)
      /\ action.kind = "create" => /\ action'.pc = action.pc /\ action'.data = action.data
                                   /\ action'.expected = action.expected
      /\ action.kind = "unlock" => action'.pc = action.pc /\ action'.data = action.data
      /\ action.kind = "confirmSend" => action'.pc = action.pc
  BY AgedKinds DEF Inv, TypeOK, OperationsTyped
<1>5. Waits'
  BY <1>3, <1>4 DEF Inv, Waits
<1>6. Created' /\ Entering'
  BY <1>3, <1>4 DEF Inv, Acting, Created, Entering, Belongs, Remembers, Covers, Wallet
<1>7. Rotated' /\ Paid'
  BY <1>4 DEF Rotated, Paid, Idle
<1>8. Closing'
  BY <1>4 DEF Closing
<1>. QED BY <1>1, <1>2, <1>3, <1>5, <1>6, <1>7, <1>8 DEF Inv, Acting

\* The epoch moves as an operation begins.
LEMMA EpochBegins ==
  ASSUME Inv, ~exited, MayAct, NEW op \in Operation, NewEpoch(op),
         op.kind \in {"begin", "unlock", "saveConfig"},
         op.kind = "begin" => file # None,
         op.kind = "unlock" => op.pc = "read" /\ session = None,
         UNCHANGED <<file, durable, backups, walletExists, session, installed, issued, closed, exited>>,
         preview' \in {preview, None}, TypeOK'
  PROVE  Inv'
<1>1. action' = op /\ saves' = Orphaned /\ Free(action) /\ ~closed
  BY DEF NewEpoch, MayAct, Free, Idle
<1>2. Stored' /\ WalletsKept'
  BY DiskKept DEF Inv, Stored
<1>3. Opened'
  BY DEF Inv, Opened, Belongs, Remembers, Covers, Wallet
<1>4. /\ Queued' /\ DOMAIN saves' = DOMAIN saves
      /\ \A k \in DOMAIN saves :
           saves'[k].by \in {"newAddress", "confirmSend"} => saves'[k].by = saves[k].by
  BY <1>1, OrphanedKept
<1>5. Waits'
  BY <1>1, <1>4, NobodyWaits DEF Inv, Waits
<1>6. Acting'
  BY <1>1 DEF Acting, Created, Entering, Rotated, Paid
<1>7. Closing'
  BY <1>1 DEF Closing
<1>. QED BY <1>2, <1>3, <1>4, <1>5, <1>6, <1>7 DEF Inv

LEMMA InvLock ==
  ASSUME Inv, ~exited, lock \/ close
  PROVE  Inv'
<1>1. /\ UNCHANGED <<file, durable, backups, torn, walletExists, installed, issued>>
      /\ session' = None /\ preview' = None /\ action' = Aged(action) /\ saves' = Orphaned
      /\ replacement' = None /\ setup' = None /\ rpc' \in {"open", "closed"} /\ refresh' = "none"
      /\ relock' = draining' /\ draining' \in BOOLEAN /\ consent' = "none"
      /\ UNCHANGED exited /\ closed' \in {closed, TRUE}
  BY DEF lock, close, Locks, Forget, Withdraws, Halts, disk, Inv, TypeOK, ProcessTyped
<1>2. TypeOK'
  <2>1. DiskTyped' /\ MemoryTyped'
    BY <1>1 DEF Inv, TypeOK, DiskTyped, MemoryTyped
  <2>2. OperationsTyped'
    BY <1>1, AgedKinds, OrphanedSaves DEF Inv, TypeOK, OperationsTyped
  <2>3. ProcessTyped'
    BY <1>1 DEF Inv, TypeOK, ProcessTyped
  <2>. QED BY <2>1, <2>2, <2>3 DEF TypeOK
<1>. QED BY <1>1, <1>2, EpochMoves

LEMMA InvCancel ==
  ASSUME Inv, ~exited, cancelWalletReplacement
  PROVE  Inv'
<1>1. /\ UNCHANGED <<file, durable, backups, torn, session, walletExists, rpc, draining, closed, exited, installed,
                     issued>>
      /\ preview' = None /\ action' = Aged(action) /\ saves' = Orphaned
      /\ replacement' = None /\ setup' = None /\ refresh' = "none" /\ relock' = FALSE
      /\ consent' = "none"
  BY DEF cancelWalletReplacement, NewEpoch, Forget, Withdraws, disk
<1>2. TypeOK'
  <2>1. DiskTyped' /\ MemoryTyped'
    BY <1>1 DEF Inv, TypeOK, DiskTyped, MemoryTyped
  <2>2. OperationsTyped'
    BY <1>1, AgedKinds, OrphanedSaves DEF Inv, TypeOK, OperationsTyped
  <2>3. ProcessTyped'
    BY <1>1 DEF Inv, TypeOK, ProcessTyped
  <2>. QED BY <2>1, <2>2, <2>3 DEF TypeOK
<1>3. closed => session = None
  BY DEF Inv, Closing
<1>. QED BY <1>1, <1>2, <1>3, EpochMoves

LEMMA InvBegins ==
  ASSUME Inv, ~exited,
         unlock \/ saveConfig \/ \E m \in {"recover", "switch"} : beginWalletReplacement(m)
  PROVE  Inv'
<1>1. /\ UNCHANGED <<file, durable, backups, torn, session, walletExists, closed, exited, installed, issued>>
      /\ preview' \in {preview, None} /\ MayAct /\ saves' = Orphaned
      /\ replacement' = None /\ setup' = None /\ refresh' = "none" /\ relock' = FALSE
      /\ rpc' \in {rpc, "closed"} /\ draining' \in BOOLEAN
      /\ consent' \in {"none", "password", "setup"}
  BY DEF unlock, saveConfig, beginWalletReplacement, NewEpoch, Forget, Withdraws, Halts, disk, Inv,
         TypeOK, ProcessTyped
<1>2. ASSUME NEW op \in Operation, NewEpoch(op)
      PROVE  TypeOK'
  <2>1. DiskTyped' /\ MemoryTyped'
    BY <1>1 DEF Inv, TypeOK, DiskTyped, MemoryTyped
  <2>2. OperationsTyped'
    BY <1>1, <1>2, OrphanedSaves DEF NewEpoch, Inv, TypeOK, OperationsTyped
  <2>3. ProcessTyped'
    BY <1>1 DEF Inv, TypeOK, ProcessTyped
  <2>. QED BY <2>1, <2>2, <2>3 DEF TypeOK
<1>3. CASE unlock
  <2>. DEFINE op == [kind |-> "unlock", pc |-> "read", data |-> None, stale |-> FALSE]
  <2>1. op \in Operation /\ op.kind = "unlock" /\ op.pc = "read"
    BY DEF Operation, Unlocking
  <2>2. NewEpoch(op) /\ session = None
    BY <1>3 DEF unlock
  <2>. QED BY <1>1, <1>2, <2>1, <2>2, EpochBegins
<1>4. CASE saveConfig
  <2>. DEFINE op == [kind |-> "saveConfig", stale |-> FALSE]
  <2>1. op \in Operation /\ op.kind = "saveConfig"
    BY DEF Operation, Configuring
  <2>2. NewEpoch(op)
    BY <1>4 DEF saveConfig
  <2>. QED BY <1>1, <1>2, <2>1, <2>2, EpochBegins
<1>5. ASSUME NEW m \in {"recover", "switch"}, beginWalletReplacement(m)
      PROVE  Inv'
  <2>. DEFINE op == [kind |-> "begin", mode |-> m, stale |-> FALSE]
  <2>1. op \in Operation /\ op.kind = "begin"
    BY DEF Operation, Beginning
  <2>2. NewEpoch(op) /\ file # None
    BY <1>5 DEF beginWalletReplacement, Inv, Stored
  <2>. QED BY <1>1, <1>2, <2>1, <2>2, EpochBegins
<1>. QED BY <1>3, <1>4, <1>5

LEMMA InvUnlockReads ==
  ASSUME Inv, ~exited, unlockReads
  PROVE  Inv'
<1>1. /\ UNCHANGED <<disk, session, locked, preview, refresh, saves, process, installed, issued>>
      /\ action.kind = "unlock" /\ action \in Unlocking /\ Free(action)
      /\ session = None
  BY Kinds DEF unlockReads, Inv, TypeOK, OperationsTyped, Free, Acting, Entering
<1>2. Quiet
  BY <1>1 DEF Quiet, Inv, Stored, disk, process, locked
<1>3. action' \in Operation => TypeOK'
  BY <1>1 DEF Inv, TypeOK, DiskTyped, MemoryTyped, OperationsTyped, ProcessTyped, disk, process, locked
<1>4. CASE Fails
  BY <1>1, <1>2, <1>3, <1>4, EndStep DEF Fails, Act, Operation
<1>5. CASE ~Fails
  <2>1. /\ action' = [action EXCEPT !.pc = "derive", !.data = file] /\ file # None /\ file \in Content
        /\ ~closed
    BY <1>5 DEF unlockReads, Act, Inv, TypeOK, DiskTyped
  <2>2. action' \in Unlocking /\ action'.kind = "unlock" /\ action'.data = file
    BY <1>1, <2>1 DEF Unlocking
  <2>3. Belongs(file)
    BY <2>1 DEF Inv, Stored, Belongs
  <2>4. Acting'
    BY <1>1, <2>1, <2>2, <2>3
       DEF Acting, Created, Entering, Rotated, Paid, Belongs, Remembers, Covers, Wallet, disk
  <2>. QED BY <1>1, <1>2, <1>3, <2>1, <2>2, <2>4, QuietStep DEF Operation
<1>. QED BY <1>4, <1>5

LEMMA InvUnlocked ==
  ASSUME Inv, ~exited, unlocked
  PROVE  Inv'
<1>1. action \in Unlocking /\ action.kind = "unlock" /\ action.pc = "derive" /\ ~action.stale
  BY Kinds DEF unlocked, Inv, TypeOK, OperationsTyped
<1>2. /\ session = None /\ ~closed /\ Free(action) /\ Belongs(action.data)
      /\ action.data \in Content
  BY <1>1 DEF Inv, Acting, Entering, Closing, Free, Unlocking, Idle
<1>. QED BY <1>2, SessionOpens DEF unlocked, Inv, TypeOK, MemoryTyped

LEMMA InvUnlockFails ==
  ASSUME Inv, ~exited, unlockFails
  PROVE  Inv'
<1>1. Quiet /\ action' = Idle /\ Free(action)
  BY DEF unlockFails, Fails, Act, Free, Quiet, Inv, Stored, disk, process, locked
<1>2. TypeOK'
  BY <1>1 DEF unlockFails, Inv, TypeOK, DiskTyped, MemoryTyped, OperationsTyped, ProcessTyped,
              Operation, disk, process, locked
<1>. QED BY <1>1, <1>2, EndStep

LEMMA InvLockEnds ==
  ASSUME Inv, ~exited, lockEnds
  PROVE  Inv'
<1>1. Quiet /\ UNCHANGED action
  BY DEF lockEnds, Reconnects, Quiet, Inv, Stored, disk, locked
<1>2. TypeOK'
  BY <1>1 DEF lockEnds, Reconnects, Inv, TypeOK, DiskTyped, MemoryTyped, OperationsTyped, ProcessTyped,
              disk, locked
<1>. QED BY <1>1, <1>2, StillStep

LEMMA InvConfigSaved ==
  ASSUME Inv, ~exited, configSaved
  PROVE  Inv'
<1>1. Quiet /\ action' = Idle /\ Free(action)
  BY DEF configSaved, Fails, Act, Free, Quiet, Inv, Stored, disk, locked
<1>2. rpc' \in {rpc, "open"} /\ preview' \in {preview, None} /\ refresh' \in {refresh, "reading", "none"}
  BY DEF configSaved
<1>3. TypeOK'
  BY <1>1, <1>2 DEF configSaved, Inv, TypeOK, DiskTyped, MemoryTyped, OperationsTyped, ProcessTyped,
                    Operation, disk, locked
<1>. QED BY <1>1, <1>3, EndStep

-----------------------------------------------------------------------------
(* Addresses and payments.                                                 *)

\* Operations that only read the session, or end.
LEMMA InvStill ==
  ASSUME Inv, ~exited, cancelSendPreview \/ refreshes \/ refreshEnds
  PROVE  Inv'
<1>1. Quiet /\ UNCHANGED action
  BY DEF cancelSendPreview, refreshes, refreshEnds, Quiet, Inv, Stored, disk, locked, process
<1>2. TypeOK'
  BY <1>1 DEF cancelSendPreview, refreshes, refreshEnds, Inv, TypeOK, DiskTyped, MemoryTyped,
              OperationsTyped, ProcessTyped, disk, locked, process
<1>. QED BY <1>1, <1>2, StillStep

LEMMA InvPaymentEnds ==
  ASSUME Inv, ~exited, paymentEnds
  PROVE  Inv'
<1>1. Quiet /\ action' = Idle /\ Free(action)
  BY DEF paymentEnds, Paying, Fails, Act, Free, Quiet, Inv, Stored, disk, locked, process
<1>2. TypeOK'
  BY <1>1 DEF paymentEnds, Inv, TypeOK, DiskTyped, MemoryTyped, OperationsTyped, ProcessTyped,
              Operation, disk, locked, process
<1>. QED BY <1>1, <1>2, EndStep

\* A session that is open holds content of the file, with indices in range.
LEMMA Unlocked ==
  ASSUME Inv, session # None
  PROVE  /\ session \in Content /\ Belongs(session)
         /\ session.receive \in Nat /\ session.change \in Nat
         /\ ~closed /\ action.kind \notin {"create", "unlock"}
<1>1. session \in Content
  BY DEF Inv, TypeOK, MemoryTyped
<1>2. session.receive \in Nat /\ session.change \in Nat
  BY <1>1 DEF Content
<1>. QED BY <1>1, <1>2 DEF Inv, Opened, Closing, Acting, Created, Entering

LEMMA InvPreviewSend ==
  ASSUME Inv, ~exited, previewSend
  PROVE  Inv'
<1>1. /\ session # None /\ preview' = session.change
      /\ UNCHANGED <<file, durable, backups, torn, session, walletExists, replacement, setup, consent, action,
                     refresh, saves, rpc, relock, draining, closed, exited, installed, issued>>
  BY DEF previewSend, disk, locked, process
<1>2. session.change \in 0..MaxIndex
  BY <1>1, Unlocked DEF Content
<1>3. TypeOK'
  BY <1>1, <1>2 DEF Inv, TypeOK, DiskTyped, MemoryTyped, OperationsTyped, ProcessTyped
<1>4. Opened'
  BY <1>1, <1>2 DEF Inv, Opened, Belongs, Remembers, Covers, Wallet
<1>5. Stored' /\ WalletsKept'
  BY <1>1, DiskKept DEF Inv, Stored
<1>6. Queued' /\ Waits' /\ Closing'
  BY <1>1 DEF Inv, Queued, Waits, Closing, Belongs, Remembers, Covers, Wallet
<1>7. Acting'
  BY <1>1 DEF Inv, Acting, Created, Entering, Rotated, Paid, Belongs, Remembers, Covers, Wallet
<1>. QED BY <1>3, <1>4, <1>5, <1>6, <1>7 DEF Inv

LEMMA InvConfirmSend ==
  ASSUME Inv, ~exited, confirmSend
  PROVE  Inv'
<1>. DEFINE op == [kind |-> "confirmSend", pc |-> "network", index |-> preview, stale |-> FALSE]
<1>1. /\ session # None /\ preview # None /\ preview' = None /\ action' = op /\ action = Idle
      /\ UNCHANGED <<disk, session, locked, refresh, saves, process, installed, issued>>
  BY DEF confirmSend, Act, MayAct
<1>2. preview \in 0..MaxIndex /\ preview <= session.change /\ ~closed
  BY <1>1, Unlocked DEF Inv, TypeOK, MemoryTyped, Opened
<1>3. op \in Payment
  BY <1>2 DEF Payment
<1>4. Free(action)
  BY <1>1 DEF Free, Idle
<1>5. Quiet
  BY <1>1 DEF Quiet, Inv, Stored, disk, locked, process
<1>6. Acting'
  BY <1>1, <1>2, <1>4, NobodyWaits DEF Inv, Acting, Created, Entering, Rotated, Paid
<1>. HIDE DEF op
<1>7. TypeOK'
  BY <1>1, <1>3 DEF Inv, TypeOK, DiskTyped, MemoryTyped, OperationsTyped, ProcessTyped, Operation,
                    disk, locked, process
<1>. QED BY <1>2, <1>4, <1>5, <1>6, <1>7, QuietStep

\* A save is requested: it goes last.
LEMMA Queueing ==
  ASSUME Inv, NEW data \in Content, NEW by \in {"newAddress", "confirmSend", "refresh"},
         Queue(data, by), Belongs(data), UNCHANGED <<file, issued>>
  PROVE  /\ saves' \in Seq(Save) /\ Queued'
         /\ Len(saves) \in Nat /\ DOMAIN saves = 1..Len(saves)
         /\ Len(saves') = Len(saves) + 1 /\ DOMAIN saves' = 1..(Len(saves) + 1)
         /\ \A k \in 1..Len(saves) : saves'[k] = saves[k]
         /\ saves'[Len(saves) + 1].data = data /\ saves'[Len(saves) + 1].by = by
<1>. DEFINE s == [data |-> data, by |-> by, pc |-> "verify"]
<1>1. s \in Save /\ s.data = data /\ s.by = by /\ s.pc = "verify"
  BY DEF Save
<1>2. saves' = Append(saves, s) /\ saves \in Seq(Save)
  BY DEF Queue, Inv, TypeOK, OperationsTyped
<1>. HIDE DEF s
<1>3. /\ saves' \in Seq(Save) /\ Len(saves) \in Nat /\ DOMAIN saves = 1..Len(saves)
      /\ Len(saves') = Len(saves) + 1 /\ DOMAIN saves' = 1..(Len(saves) + 1)
      /\ \A k \in 1..Len(saves) : saves'[k] = saves[k]
      /\ saves'[Len(saves) + 1] = s
  BY <1>1, <1>2
<1>4. Belongs(data)'
  BY DEF Belongs, Remembers, Covers, Wallet
<1>5. ASSUME NEW k \in DOMAIN saves'
      PROVE  Belongs(saves[k].data)' /\ (k > 1 => saves'[k].pc = "verify")
  <2>1. CASE k \in 1..Len(saves)
    BY <1>3, <2>1 DEF Inv, Queued, Belongs, Remembers, Covers, Wallet
  <2>2. CASE k = Len(saves) + 1
    BY <1>1, <1>3, <1>4, <2>2
  <2>. QED BY <1>3, <2>1, <2>2
<1>6. saves'[1].pc = "flush" => file = saves'[1].data
  <2>1. CASE Len(saves) = 0
    BY <1>1, <1>3, <2>1
  <2>2. CASE Len(saves) > 0
    <3>1. 1 \in 1..Len(saves) /\ saves # <<>>
      BY <1>2, <1>3, <2>2
    <3>. QED BY <1>3, <3>1 DEF Inv, Queued
  <2>. QED BY <1>3, <2>1, <2>2
<1>. QED BY <1>1, <1>3, <1>5, <1>6 DEF Queued

\* An unlocked session grows and is saved.
LEMMA Grows ==
  ASSUME Inv, ~exited, session # None, session' \in Content,
         Wallet(session') = Wallet(session),
         session'.receive >= session.receive, session'.change >= session.change,
         NEW by \in {"newAddress", "confirmSend", "refresh"}, Queue(session', by),
         UNCHANGED <<disk, locked, preview, process, installed, issued>>,
         action' \in Operation, action'.kind \notin {"create", "unlock"},
         action'.kind = "begin" => action = action',
         refresh' \in {"none", "reading", "saving"}, Waits', Rotated', Paid'
  PROVE  Inv'
<1>1. /\ session \in Content /\ Belongs(session) /\ ~closed
      /\ session.receive \in Nat /\ session.change \in Nat
      /\ session'.receive \in Nat /\ session'.change \in Nat
  <2>1. session'.receive \in Nat /\ session'.change \in Nat
    BY DEF Content
  <2>. QED BY <2>1, Unlocked
<1>2. Belongs(session')
  <2>1. ASSUME NEW i \in issued PROVE Covers(session', i)
    <3>1. i.index \in Nat
      BY DEF Inv, TypeOK, ProcessTyped
    <3>2. Covers(session, i)
      BY <1>1 DEF Belongs, Remembers
    <3>. QED BY <1>1, <3>1, <3>2 DEF Covers
  <2>. QED BY <1>1, <2>1 DEF Belongs, Remembers
<1>3. UNCHANGED <<file, durable, backups, torn, walletExists, replacement, setup, consent, preview, rpc, relock,
                  draining, closed, exited, installed, issued>>
  BY DEF disk, locked, process
<1>4. saves' \in Seq(Save) /\ Queued'
  BY <1>2, <1>3, Queueing
<1>5. TypeOK'
  BY <1>3, <1>4 DEF Inv, TypeOK, DiskTyped, MemoryTyped, OperationsTyped, ProcessTyped
<1>6. Stored' /\ WalletsKept'
  BY <1>3, DiskKept DEF Inv, Stored
<1>7. Opened'
  <2>1. Belongs(session)'
    BY <1>2, <1>3 DEF Belongs, Remembers, Covers, Wallet
  <2>2. preview' # None => session' # None /\ preview' <= session'.change
    <3>1. preview # None => preview \in Nat /\ preview <= session.change
      BY DEF Inv, TypeOK, MemoryTyped, Opened
    <3>. QED BY <1>1, <1>3, <3>1, NoneAssumption
  <2>. QED BY <2>1, <2>2 DEF Opened
<1>8. Created' /\ Entering'
  BY <1>3 DEF Inv, Acting, Created, Entering
<1>9. Closing'
  BY <1>1, <1>3 DEF Closing
<1>. QED BY <1>4, <1>5, <1>6, <1>7, <1>8, <1>9 DEF Inv, Acting

LEMMA InvNewAddress ==
  ASSUME Inv, ~exited, newAddress
  PROVE  Inv'
<1>. DEFINE op == [kind |-> "newAddress", previous |-> session.receive, stale |-> FALSE]
            n == Len(saves)
<1>1. /\ action = Idle /\ session # None /\ ~session.needsRecovery /\ session.receive < MaxIndex
      /\ session' = [session EXCEPT !.receive = @ + 1] /\ action' = op
      /\ Queue(session', "newAddress")
      /\ UNCHANGED <<disk, locked, preview, refresh, process, installed, issued>>
  BY DEF newAddress, MayAct, Act
<1>2. session \in Content /\ Belongs(session)
  BY <1>1, Unlocked
<1>3. /\ session' \in Content /\ session'.receive = session.receive + 1
      /\ session'.change = session.change /\ session'.needsRecovery = session.needsRecovery
      /\ Wallet(session') = Wallet(session) /\ session.receive \in 0..MaxIndex
      /\ session.change \in Nat
  BY <1>1, <1>2, SessionAssumption DEF Content, Wallet
<1>4. op \in Operation /\ op.kind = "newAddress" /\ op.previous = session.receive
  BY <1>3 DEF Operation, Rotation
<1>. HIDE DEF op
<1>5. Free(action)
  BY <1>1 DEF Free, Idle
<1>6. \A k \in 1..n : saves[k].by \notin {"newAddress", "confirmSend"}
  BY <1>5, NobodyWaits DEF Inv, TypeOK, OperationsTyped
<1>7. \A i \in issued : Covers(session, i) /\ i.index \in Nat
  BY <1>2 DEF Belongs, Remembers, Inv, TypeOK, ProcessTyped
<1>8. \A i \in issued : Covers(session', i)
  BY <1>3, <1>7 DEF Covers
<1>9. Belongs(session')
  BY <1>2, <1>3, <1>8 DEF Belongs, Remembers
<1>10. /\ n \in Nat /\ Len(saves') = n + 1 /\ DOMAIN saves' = 1..(n + 1)
       /\ \A k \in 1..n : saves'[k] = saves[k]
       /\ saves'[n + 1].data = session' /\ saves'[n + 1].by = "newAddress"
  BY <1>1, <1>3, <1>9, Queueing DEF disk
<1>11. \A k \in DOMAIN saves' : saves'[k].by \in {"newAddress", "confirmSend"} => k = n + 1
  BY <1>6, <1>10
<1>12. Waits'
  BY <1>1, <1>4, <1>10, <1>11 DEF Waits
<1>13. Rotated'
  <2>1. session' # None /\ ~session'.needsRecovery /\ session'.receive = op.previous + 1
    BY <1>1, <1>3, <1>4, NoneAssumption
  <2>2. \A i \in issued' : i.chain = "receive" => i.index <= op.previous
    BY <1>1, <1>4, <1>7, <1>3 DEF Covers
  <2>3. ASSUME NEW k \in DOMAIN saves', saves'[k].by = "newAddress",
               NEW l \in k..Len(saves')
        PROVE  saves'[l].data.receive >= session'.receive
    <3>1. l = n + 1
      BY <1>10, <1>11, <2>3
    <3>. QED BY <1>3, <1>10, <3>1
  <2>. QED BY <1>1, <2>1, <2>2, <2>3 DEF Rotated
<1>14. Paid'
  BY <1>1, <1>4 DEF Paid
<1>15. session'.receive >= session.receive /\ session'.change >= session.change
  BY <1>3
<1>16. /\ action' \in Operation /\ action'.kind \notin {"create", "unlock", "begin"}
       /\ refresh' \in {"none", "reading", "saving"}
  BY <1>1, <1>4 DEF Inv, TypeOK, OperationsTyped
<1>. QED BY <1>1, <1>3, <1>12, <1>13, <1>14, <1>15, <1>16, Grows

LEMMA InvChangeSaved ==
  ASSUME Inv, ~exited, changeSaved
  PROVE  Inv'
<1>. DEFINE op == [action EXCEPT !.pc = "saving"]
            n == Len(saves)
<1>1. /\ action.kind = "confirmSend" /\ action.pc = "network" /\ ~action.stale /\ session # None
      /\ session.change < MaxIndex /\ action.index <= session.change
      /\ session' = [session EXCEPT !.change = IF @ > action.index THEN @ ELSE action.index + 1]
      /\ action' = op /\ Queue(session', "confirmSend")
      /\ UNCHANGED <<disk, locked, preview, refresh, process, installed, issued>>
  BY DEF changeSaved, Paying, Act, Inv, Acting, Paid
<1>2. session \in Content /\ Belongs(session) /\ action \in Payment
  BY <1>1, Unlocked, Kinds DEF Inv, TypeOK, OperationsTyped
<1>3. action.index \in 0..MaxIndex /\ session.change \in 0..MaxIndex /\ session.receive \in Nat
  BY <1>2 DEF Payment, Content
<1>4. /\ session' \in Content /\ session'.receive = session.receive
      /\ session'.change \in Nat /\ session'.change >= session.change
      /\ session'.change > action.index /\ Wallet(session') = Wallet(session)
  <2>1. CASE session.change > action.index
    BY <1>1, <1>2, <1>3, <2>1 DEF Content, Wallet
  <2>2. CASE ~(session.change > action.index)
    <3>1. action.index + 1 \in 0..MaxIndex /\ action.index = session.change
      BY <1>1, <1>3, <2>2, SessionAssumption
    <3>2. session' = [session EXCEPT !.change = action.index + 1]
      BY <1>1, <2>2
    <3>. QED BY <1>2, <1>3, <3>1, <3>2 DEF Content, Wallet
  <2>. QED BY <2>1, <2>2
<1>5. /\ op \in Operation /\ op.kind = "confirmSend" /\ op.pc = "saving" /\ op.index = action.index
  BY <1>1, <1>2 DEF Operation, Payment
<1>. HIDE DEF op
<1>6. Free(action)
  BY <1>1 DEF Free
<1>7. \A k \in 1..n : saves[k].by \notin {"newAddress", "confirmSend"}
  BY <1>6, NobodyWaits DEF Inv, TypeOK, OperationsTyped
<1>8. Belongs(session')
  <2>1. \A i \in issued : Covers(session, i) /\ i.index \in Nat
    BY <1>2 DEF Belongs, Remembers, Inv, TypeOK, ProcessTyped
  <2>2. \A i \in issued : Covers(session', i)
    BY <1>3, <1>4, <2>1 DEF Covers
  <2>. QED BY <1>2, <1>4, <2>2 DEF Belongs, Remembers
<1>9. /\ n \in Nat /\ Len(saves') = n + 1 /\ DOMAIN saves' = 1..(n + 1)
      /\ \A k \in 1..n : saves'[k] = saves[k]
      /\ saves'[n + 1].data = session' /\ saves'[n + 1].by = "confirmSend"
  BY <1>1, <1>4, <1>8, Queueing DEF disk
<1>10. \A k \in DOMAIN saves' : saves'[k].by \in {"newAddress", "confirmSend"} => k = n + 1
  BY <1>7, <1>9
<1>11. Waits'
  BY <1>1, <1>5, <1>9, <1>10 DEF Waits
<1>12. Rotated'
  BY <1>1, <1>5 DEF Rotated
<1>13. Paid'
  <2>1. session' # None /\ op.index < session'.change /\ op.index <= session'.change
    BY <1>3, <1>4, <1>5, NoneAssumption
  <2>2. ASSUME NEW k \in DOMAIN saves', saves'[k].by = "confirmSend",
               NEW l \in k..Len(saves')
        PROVE  saves'[l].data.change > op.index
    <3>1. l = n + 1
      BY <1>9, <1>10, <2>2
    <3>. QED BY <1>4, <1>5, <1>9, <3>1
  <2>. QED BY <1>1, <2>1, <2>2 DEF Paid
<1>14. session'.receive >= session.receive
  BY <1>3, <1>4
<1>15. /\ action' \in Operation /\ action'.kind \notin {"create", "unlock", "begin"}
       /\ refresh' \in {"none", "reading", "saving"}
  BY <1>1, <1>5 DEF Inv, TypeOK, OperationsTyped
<1>. QED BY <1>1, <1>4, <1>11, <1>12, <1>13, <1>14, <1>15, Grows

\* The refresh saves what it found while another operation may wait.
LEMMA InvRefreshSaves ==
  ASSUME Inv, ~exited, recovered \/ usageFound
  PROVE  Inv'
<1>. DEFINE n == Len(saves)
<1>1. /\ session # None /\ refresh' = "saving" /\ Queue(session', "refresh")
      /\ UNCHANGED <<disk, locked, preview, action, process, installed, issued>>
  BY DEF recovered, usageFound
<1>2. session \in Content /\ Belongs(session) /\ action.kind \notin {"create", "unlock"}
  BY <1>1, Unlocked
<1>3. session.receive \in 0..MaxIndex /\ session.change \in 0..MaxIndex
  BY <1>2 DEF Content
<1>4. /\ session' \in Content /\ Wallet(session') = Wallet(session)
      /\ session'.receive >= session.receive /\ session'.change >= session.change
      /\ session'.receive \in Nat /\ session'.change \in Nat
      /\ ~session.needsRecovery => session' = session
  <2>1. CASE usageFound
    BY <1>2, <1>3, <2>1 DEF usageFound
  <2>2. CASE recovered
    <3>1. PICK r, c \in 0..MaxIndex :
            session' = [session EXCEPT !.needsRecovery = FALSE,
                     !.receive = IF @ > r THEN @ ELSE r, !.change = IF @ > c THEN @ ELSE c]
      BY <2>2 DEF recovered
    <3>. DEFINE x == IF session.receive > r THEN session.receive ELSE r
                y == IF session.change > c THEN session.change ELSE c
    <3>2. x \in 0..MaxIndex /\ y \in 0..MaxIndex /\ x >= session.receive /\ y >= session.change
      BY <1>3
    <3>3. session' = [session EXCEPT !.needsRecovery = FALSE, !.receive = x, !.change = y]
      BY <1>2, <3>1 DEF Content
    <3>. HIDE DEF x, y
    <3>4. session.needsRecovery
      BY <2>2 DEF recovered
    <3>5. session' \in Content /\ Wallet(session') = Wallet(session)
      BY <1>2, <3>2, <3>3 DEF Content, Wallet
    <3>6. session'.receive = x /\ session'.change = y
      BY <1>2, <3>3 DEF Content
    <3>. QED BY <3>2, <3>4, <3>5, <3>6
  <2>. QED BY <1>1, <2>1, <2>2
<1>5. Belongs(session')
  <2>1. \A i \in issued : Covers(session, i) /\ i.index \in Nat
    BY <1>2 DEF Belongs, Remembers, Inv, TypeOK, ProcessTyped
  <2>2. \A i \in issued : Covers(session', i)
    BY <1>3, <1>4, <2>1 DEF Covers
  <2>. QED BY <1>2, <1>4, <2>2 DEF Belongs, Remembers
<1>6. /\ n \in Nat /\ DOMAIN saves = 1..n /\ Len(saves') = n + 1 /\ DOMAIN saves' = 1..(n + 1)
      /\ \A k \in 1..n : saves'[k] = saves[k]
      /\ saves'[n + 1].data = session' /\ saves'[n + 1].by = "refresh"
  BY <1>1, <1>4, <1>5, Queueing DEF disk
<1>7. Waits'
  BY <1>1, <1>6 DEF Inv, Waits
<1>8. Rotated'
  <2>. SUFFICES ASSUME action.kind = "newAddress", ~action.stale PROVE Rotated'
    BY <1>1 DEF Rotated
  <2>1. /\ session' = session /\ ~session.needsRecovery /\ session.receive = action.previous + 1
        /\ \A i \in issued : i.chain = "receive" => i.index <= action.previous
        /\ \A k \in DOMAIN saves : saves[k].by = "newAddress" =>
             \A l \in k..Len(saves) : saves[l].data.receive >= session.receive
    BY <1>4 DEF Inv, Acting, Rotated
  <2>2. ASSUME NEW k \in DOMAIN saves', saves'[k].by = "newAddress", NEW l \in k..Len(saves')
        PROVE  saves'[l].data.receive >= session'.receive
    <3>1. CASE l = n + 1
      BY <1>3, <1>6, <2>1, <3>1
    <3>2. CASE l # n + 1
      <4>1. k \in 1..n /\ l \in k..n /\ l \in 1..n
        BY <1>6, <3>2
      <4>. QED BY <1>6, <2>1, <2>2, <4>1
    <3>. QED BY <3>1, <3>2
  <2>. QED BY <1>1, <2>1, <2>2 DEF Rotated
<1>9. Paid'
  <2>. SUFFICES ASSUME action.kind = "confirmSend", ~action.stale PROVE Paid'
    BY <1>1 DEF Paid
  <2>1. /\ action.index <= session.change /\ (action.pc # "network" => action.index < session.change)
        /\ \A k \in DOMAIN saves : saves[k].by = "confirmSend" =>
             \A l \in k..Len(saves) : saves[l].data.change > action.index
    BY DEF Inv, Acting, Paid
  <2>2. action.index \in Nat
    BY Kinds DEF Inv, TypeOK, OperationsTyped, Payment
  <2>3. ASSUME NEW k \in DOMAIN saves', saves'[k].by = "confirmSend", NEW l \in k..Len(saves')
        PROVE  saves'[l].data.change > action.index
    <3>0. k \in 1..n
      BY <1>6, <2>3
    <3>1. CASE l = n + 1
      <4>1. action.pc = "saving"
        BY <1>6, <2>3, <3>0 DEF Inv, Waits
      <4>. QED BY <1>3, <1>4, <1>6, <2>1, <2>2, <3>1, <4>1
    <3>2. CASE l # n + 1
      <4>1. l \in k..n /\ l \in 1..n
        BY <1>6, <3>0, <3>2
      <4>. QED BY <1>6, <2>1, <2>3, <3>0, <4>1
    <3>. QED BY <3>1, <3>2
  <2>4. session' # None /\ action.index <= session'.change
        /\ (action.pc # "network" => action.index < session'.change)
    BY <1>3, <1>4, <2>1, <2>2, NoneAssumption
  <2>. QED BY <1>1, <2>3, <2>4 DEF Paid
<1>10. action' \in Operation /\ action'.kind \notin {"create", "unlock"}
  BY <1>1, <1>2 DEF Inv, TypeOK, OperationsTyped
<1>. QED BY <1>1, <1>4, <1>7, <1>8, <1>9, <1>10, Grows

-----------------------------------------------------------------------------
(* The save at the head of the chain.                                      *)

LEMMA HeadMoves ==
  ASSUME saves \in Seq(Save), saves # <<>>, NEW pc \in {"write", "publish", "flush"}, SaveStep(pc)
  PROVE  /\ saves' \in Seq(Save) /\ Len(saves') = Len(saves) /\ DOMAIN saves' = DOMAIN saves
         /\ saves' # <<>> /\ 1 \in DOMAIN saves /\ saves'[1].pc = pc
         /\ \A k \in DOMAIN saves :
              /\ saves'[k].data = saves[k].data /\ saves'[k].by = saves[k].by
              /\ k > 1 => saves'[k].pc = saves[k].pc
<1>1. /\ Len(saves) \in Nat /\ DOMAIN saves = 1..Len(saves) /\ 1 \in DOMAIN saves
      /\ \A k \in DOMAIN saves : saves[k] \in Save
  OBVIOUS
<1>. DEFINE s == [saves[1] EXCEPT !.pc = pc]
<1>2. s \in Save /\ s.data = saves[1].data /\ s.by = saves[1].by /\ s.pc = pc
  BY <1>1 DEF Save
<1>3. saves' = [saves EXCEPT ![1] = s]
  BY <1>1 DEF SaveStep
<1>. HIDE DEF s
<1>4. saves' \in Seq(Save) /\ Len(saves') = Len(saves) /\ DOMAIN saves' = DOMAIN saves
  BY <1>1, <1>2, <1>3
<1>5. saves'[1] = s /\ \A k \in DOMAIN saves : k # 1 => saves'[k] = saves[k]
  BY <1>1, <1>3
<1>. QED BY <1>1, <1>2, <1>4, <1>5

\* What waits for the saves does not see that the first of them goes on.
LEMMA SaveMoves ==
  ASSUME Inv, ~exited, saves # <<>>, NEW pc \in {"write", "publish", "flush"}, SaveStep(pc),
         UNCHANGED <<session, locked, preview, action, refresh, process, installed, issued>>
  PROVE  /\ OperationsTyped' /\ ProcessTyped' /\ Waits' /\ Rotated' /\ Paid' /\ Closing'
         /\ Created' /\ MemoryTyped'
<1>1. /\ saves' \in Seq(Save) /\ Len(saves') = Len(saves) /\ DOMAIN saves' = DOMAIN saves
      /\ \A k \in DOMAIN saves : saves'[k].data = saves[k].data /\ saves'[k].by = saves[k].by
      /\ Len(saves) \in Nat /\ DOMAIN saves = 1..Len(saves)
  BY HeadMoves DEF Inv, TypeOK, OperationsTyped
<1>2. /\ UNCHANGED <<session, preview, action, refresh, rpc, relock, draining, closed, exited>>
      /\ UNCHANGED <<walletExists, replacement, setup, consent, installed, issued>>
  BY DEF process, locked
<1>3. OperationsTyped' /\ ProcessTyped' /\ MemoryTyped'
  BY <1>1, <1>2 DEF Inv, TypeOK, OperationsTyped, ProcessTyped, MemoryTyped
<1>4. Waits'
  BY <1>1, <1>2 DEF Inv, Waits
<1>5. \A k \in DOMAIN saves' : \A l \in k..Len(saves') : l \in DOMAIN saves
  BY <1>1
<1>6. Rotated' /\ Paid'
  BY <1>1, <1>2, <1>5 DEF Inv, Acting, Rotated, Paid
<1>7. Created' /\ Closing'
  BY <1>2 DEF Inv, Acting, Created, Closing
<1>. QED BY <1>3, <1>4, <1>6, <1>7

LEMMA InvSaveMoves ==
  ASSUME Inv, ~exited, saveVerified \/ saveWritten \/ savePublished
  PROVE  Inv'
<1>1. saves # <<>> /\ saves \in Seq(Save)
      /\ UNCHANGED <<session, locked, preview, action, refresh, process, installed, issued>>
  BY DEF saveVerified, saveWritten, savePublished, Saving, Inv, TypeOK, OperationsTyped
<1>2. PICK pc \in {"write", "publish", "flush"} :
        /\ SaveStep(pc)
        /\ pc # "flush" => UNCHANGED disk
        /\ pc = "flush" => file' = Head(saves).data /\ durable' = durable \cup {file'}
                           /\ UNCHANGED <<backups, torn>>
  BY DEF saveVerified, saveWritten, savePublished
<1>3. /\ OperationsTyped' /\ ProcessTyped' /\ Waits' /\ Rotated' /\ Paid' /\ Closing' /\ Created'
      /\ MemoryTyped'
  BY <1>1, <1>2, SaveMoves
<1>4. /\ saves' # <<>> /\ 1 \in DOMAIN saves /\ saves'[1].pc = pc /\ DOMAIN saves' = DOMAIN saves
      /\ \A k \in DOMAIN saves : /\ saves'[k].data = saves[k].data
                                 /\ k > 1 => saves'[k].pc = saves[k].pc
  BY <1>1, <1>2, HeadMoves
<1>5. /\ Belongs(saves[1].data) /\ saves[1].data \in Content /\ saves[1].data # None
      /\ Head(saves) = saves[1]
  <2>1. saves[1] \in Save /\ Head(saves) = saves[1]
    BY <1>1, <1>4
  <2>2. saves[1].data \in Content
    BY <2>1 DEF Save
  <2>. QED BY <1>4, <2>1, <2>2, NoneAssumption DEF Inv, Queued
<1>6. /\ file' = file \/ file' = saves[1].data
      /\ file' \in durable' /\ durable \subseteq durable' /\ durable' \subseteq durable \cup {file'}
      /\ UNCHANGED <<backups, torn>>
      /\ file # None /\ file' # None /\ Wallet(file') = Wallet(file) /\ Remembers(file')
      /\ pc = "flush" => file' = saves[1].data
  <2>1. file # None /\ Remembers(file)
    BY <1>5 DEF Belongs, Inv, Stored
  <2>. QED BY <1>2, <1>5, <2>1 DEF disk, Belongs, Inv, Stored
<1>7. DiskTyped'
  BY <1>5, <1>6 DEF Inv, TypeOK, DiskTyped
<1>8. UNCHANGED <<session, preview, action, installed, issued, walletExists>>
  BY <1>1 DEF locked
<1>9. Stored'
  BY <1>6, <1>8 DEF Inv, Stored, Remembers, Covers
<1>10. WalletsKept'
  <2>. SUFFICES ASSUME NEW w \in installed, NEW c \in durable' \cup {file'}
                PROVE  (c # None /\ Wallet(c) = w) \/ \E b \in backups : Wallet(b) = w
    BY <1>6, <1>8 DEF WalletsKept, Wallet
  <2>1. CASE c \in durable
    BY <2>1 DEF Inv, WalletsKept
  <2>2. CASE c = file'
    BY <1>6, <2>2 DEF Inv, WalletsKept
  <2>. QED BY <1>6, <2>1, <2>2
<1>11. Opened'
  BY <1>6, <1>8 DEF Inv, Opened, Belongs, Remembers, Covers, Wallet
<1>12. Queued'
  <2>1. ASSUME NEW k \in DOMAIN saves'
        PROVE  Belongs(saves[k].data)' /\ (k > 1 => saves'[k].pc = "verify")
    BY <1>4, <1>6, <1>8 DEF Inv, Queued, Belongs, Remembers, Covers, Wallet
  <2>. QED BY <1>4, <1>6, <2>1 DEF Queued
<1>13. Entering'
  BY <1>6, <1>8 DEF Inv, Acting, Entering, Belongs, Remembers, Covers, Wallet
<1>. QED BY <1>3, <1>7, <1>9, <1>10, <1>11, <1>12, <1>13 DEF Inv, TypeOK, Acting

LEMMA Tails ==
  ASSUME saves \in Seq(Save), saves # <<>>
  PROVE  /\ Head(saves) = saves[1] /\ Tail(saves) \in Seq(Save) /\ 1 \in DOMAIN saves
         /\ Len(saves) \in Nat /\ DOMAIN saves = 1..Len(saves)
         /\ Len(Tail(saves)) = Len(saves) - 1 /\ DOMAIN Tail(saves) = 1..(Len(saves) - 1)
         /\ \A k \in 1..(Len(saves) - 1) : Tail(saves)[k] = saves[k + 1]
OBVIOUS

\* A save settles: what it changes besides the operation that waits for it.
LEMMA Settles ==
  ASSUME Inv, ~exited, saves # <<>>, saves' = Tail(saves),
         UNCHANGED <<file, backups, installed, locked, preview, process>>,
         action' \in Operation, refresh' \in {"none", "reading", "saving"},
         issued \subseteq issued', torn' \in BOOLEAN, durable' \in {durable, {file}},
         issued' # issued => durable' = {file} /\ file = saves[1].data,
         \A i \in issued' \ issued :
           /\ i \in [chain : {"receive", "change"}, index : 0..MaxIndex]
           /\ \A k \in DOMAIN saves : Covers(saves[k].data, i),
         session = None => session' = None,
         session # None =>
           /\ session' \in Content /\ Wallet(session') = Wallet(session)
           /\ session'.change = session.change
           /\ \A i \in issued' : Covers(session', i),
         Waits', Acting', closed => action' = Idle \/ action'.stale
  PROVE  Inv'
<1>1. /\ saves' \in Seq(Save) /\ 1 \in DOMAIN saves /\ Len(saves) \in Nat
      /\ DOMAIN saves = 1..Len(saves) /\ DOMAIN saves' = 1..(Len(saves) - 1)
      /\ \A k \in DOMAIN saves' : saves'[k] = saves[k + 1] /\ k + 1 \in DOMAIN saves /\ k + 1 > 1
  BY Tails DEF Inv, TypeOK, OperationsTyped
<1>2. UNCHANGED <<walletExists, replacement, setup, consent, rpc, relock, draining, closed, exited>>
  BY DEF locked, process
<1>3. file \in durable' /\ durable' \subseteq durable /\ file # None
  BY <1>1 DEF Inv, Stored, Queued, Belongs
<1>4. TypeOK'
  <2>1. DiskTyped' /\ MemoryTyped'
    BY <1>2, <1>3 DEF Inv, TypeOK, DiskTyped, MemoryTyped
  <2>2. OperationsTyped' /\ ProcessTyped'
    BY <1>1, <1>2 DEF Inv, TypeOK, OperationsTyped, ProcessTyped
  <2>. QED BY <2>1, <2>2 DEF TypeOK
<1>5. \A c \in durable' \ {None} : Remembers(c)'
  <2>1. CASE issued' = issued
    BY <1>3, <2>1 DEF Inv, Stored, Remembers, Covers
  <2>2. CASE issued' # issued
    <3>1. \A i \in issued' : Covers(file, i)
      BY <1>1, <1>3, <2>2 DEF Inv, Stored, Remembers
    <3>. QED BY <2>2, <3>1 DEF Remembers, Covers
  <2>. QED BY <2>1, <2>2
<1>6. Stored' /\ WalletsKept'
  BY <1>2, <1>3, <1>5 DEF Inv, Stored, WalletsKept, Wallet
<1>7. Opened'
  <2>1. CASE session = None
    BY <2>1 DEF Inv, Opened
  <2>2. CASE session # None
    <3>1. session' # None /\ Wallet(session) = Wallet(file)
      BY <2>2, NoneAssumption DEF Inv, Opened, Belongs
    <3>2. Belongs(session)'
      BY <1>3, <2>2, <3>1 DEF Belongs, Remembers, Covers, Wallet
    <3>. QED BY <2>2, <3>1, <3>2 DEF Inv, Opened
  <2>. QED BY <2>1, <2>2
<1>8. Queued'
  <2>1. ASSUME NEW k \in DOMAIN saves'
        PROVE  saves'[k].pc = "verify" /\ Belongs(saves[k].data)'
    <3>1. saves[k + 1].pc = "verify" /\ Belongs(saves[k + 1].data)
      BY <1>1 DEF Inv, Queued
    <3>2. \A i \in issued' : Covers(saves[k + 1].data, i)
      BY <1>1, <3>1 DEF Belongs, Remembers
    <3>. QED BY <1>1, <3>1, <3>2 DEF Belongs, Remembers, Covers, Wallet
  <2>2. saves' # <<>> => 1 \in DOMAIN saves'
    BY <1>1
  <2>. QED BY <2>1, <2>2 DEF Queued
<1>9. Closing'
  BY <1>2 DEF Inv, Closing
<1>. QED BY <1>4, <1>6, <1>7, <1>8, <1>9 DEF Inv

\* The operation that waits for no save is not the one that settles.
LEMMA InvSettledAlone ==
  ASSUME Inv, ~exited, saves # <<>>, NEW ok \in BOOLEAN, Settled(ok), saves[1].by # action.kind,
         UNCHANGED <<file, backups>>, torn' \in BOOLEAN, durable' \in {durable, {file}}
  PROVE  Inv'
<1>1. /\ Head(saves) = saves[1] /\ 1 \in DOMAIN saves /\ Len(saves) \in Nat
      /\ DOMAIN saves = 1..Len(saves) /\ DOMAIN Tail(saves) = 1..(Len(saves) - 1)
      /\ Len(Tail(saves)) = Len(saves) - 1
      /\ \A k \in 1..(Len(saves) - 1) : Tail(saves)[k] = saves[k + 1]
  BY Tails DEF Inv, TypeOK, OperationsTyped
<1>2. /\ saves' = Tail(saves) /\ refresh' \in {"none", refresh}
      /\ UNCHANGED <<action, session, issued, locked, preview, process, installed>>
  BY <1>1 DEF Settled
<1>3. \A k \in DOMAIN saves' : k + 1 \in DOMAIN saves /\ saves'[k] = saves[k + 1] /\ k \in Nat
  BY <1>1, <1>2
<1>4. Waits'
  <2>1. \A k, l \in DOMAIN saves' : k + 1 = l + 1 => k = l
    BY <1>3
  <2>. QED BY <1>2, <1>3, <2>1 DEF Inv, Waits
<1>5. \A k \in DOMAIN saves' : \A l \in k..Len(saves') :
        l + 1 \in (k + 1)..Len(saves) /\ saves'[l] = saves[l + 1]
  BY <1>1, <1>2
<1>6. Rotated' /\ Paid'
  BY <1>2, <1>3, <1>5 DEF Inv, Acting, Rotated, Paid
<1>7. Created' /\ Entering'
  BY <1>2 DEF Inv, Acting, Created, Entering, Belongs, Remembers, Covers, Wallet
<1>8. /\ action' \in Operation /\ refresh' \in {"none", "reading", "saving"}
      /\ closed => action' = Idle \/ action'.stale
  BY <1>2 DEF Inv, TypeOK, OperationsTyped, Closing
<1>9. session # None => session \in Content /\ \A i \in issued : Covers(session, i)
  BY Unlocked DEF Belongs, Remembers
<1>. QED BY <1>2, <1>4, <1>6, <1>7, <1>8, <1>9, Settles DEF Acting

\* The save of a rotated address settles: handed out, or taken back.
LEMMA InvAddressSettled ==
  ASSUME Inv, ~exited, saves # <<>>, NEW ok \in BOOLEAN, Settled(ok),
         saves[1].by = "newAddress", action.kind = "newAddress",
         UNCHANGED <<file, backups>>, torn' \in BOOLEAN, durable' \in {durable, {file}},
         ok => durable' = {file} /\ file = saves[1].data
  PROVE  Inv'
<1>. DEFINE i == [chain |-> "receive", index |-> session.receive]
<1>1. /\ Head(saves) = saves[1] /\ 1 \in DOMAIN saves /\ Len(saves) \in Nat
      /\ DOMAIN saves = 1..Len(saves) /\ DOMAIN Tail(saves) = 1..(Len(saves) - 1)
      /\ \A k \in 1..(Len(saves) - 1) : Tail(saves)[k] = saves[k + 1]
  BY Tails DEF Inv, TypeOK, OperationsTyped
<1>2. /\ saves' = Tail(saves) /\ refresh' = refresh /\ action' = Idle
      /\ UNCHANGED <<locked, preview, process, installed>>
      /\ issued' = (IF ok /\ ~action.stale /\ session # None THEN issued \cup {i} ELSE issued)
      /\ session' = (IF ~ok /\ ~action.stale /\ session # None
                     THEN [session EXCEPT !.receive = action.previous] ELSE session)
  BY <1>1 DEF Settled
<1>3. session # None => /\ session \in Content /\ session.receive \in 0..MaxIndex
                        /\ \A j \in issued : Covers(session, j)
  BY Unlocked DEF Belongs, Remembers, Content
<1>4. action.previous \in 0..MaxIndex
  BY Kinds DEF Inv, TypeOK, OperationsTyped, Rotation
<1>5. Waits'
  <2>1. ASSUME NEW k \in DOMAIN saves'
        PROVE  saves'[k].by \notin {"newAddress", "confirmSend"}
    <3>1. k + 1 \in DOMAIN saves /\ saves'[k] = saves[k + 1] /\ k + 1 # 1
      BY <1>1, <1>2
    <3>. QED BY <1>1, <3>1 DEF Inv, Waits
  <2>. QED BY <2>1 DEF Waits
<1>6. Acting'
  BY <1>2 DEF Acting, Created, Entering, Rotated, Paid, Idle
<1>. HIDE DEF i
<1>7. ASSUME i \in issued' \ issued
      PROVE  /\ ok /\ session # None /\ i \in [chain : {"receive", "change"}, index : 0..MaxIndex]
             /\ Covers(session, i) /\ \A k \in DOMAIN saves : Covers(saves[k].data, i)
  <2>1. ok /\ ~action.stale /\ session # None
    BY <1>2, <1>7
  <2>2. \A l \in 1..Len(saves) : saves[l].data.receive >= session.receive
    BY <1>1, <2>1 DEF Inv, Acting, Rotated
  <2>3. Covers(session, i) /\ i \in [chain : {"receive", "change"}, index : 0..MaxIndex]
    BY <1>3, <2>1 DEF i, Covers
  <2>4. \A k \in DOMAIN saves : Covers(saves[k].data, i)
    BY <1>1, <2>2 DEF i, Covers
  <2>. QED BY <2>1, <2>3, <2>4
<1>8. issued \subseteq issued' /\ \A j \in issued' \ issued : j = i
  BY <1>2
<1>9. session # None =>
        /\ session' \in Content /\ Wallet(session') = Wallet(session)
        /\ session'.change = session.change
        /\ \A j \in issued' : Covers(session', j)
  <2>. SUFFICES ASSUME session # None
                PROVE  /\ session' \in Content /\ Wallet(session') = Wallet(session)
                       /\ session'.change = session.change
                       /\ \A j \in issued' : Covers(session', j)
    OBVIOUS
  <2>1. CASE session' = session
    BY <1>3, <1>7, <1>8, <2>1
  <2>2. CASE session' # session
    <3>1. ~ok /\ ~action.stale /\ session' = [session EXCEPT !.receive = action.previous]
          /\ issued' = issued
      BY <1>2, <2>2
    <3>2. /\ session' \in Content /\ session'.change = session.change
          /\ session'.receive = action.previous /\ Wallet(session') = Wallet(session)
      BY <1>3, <1>4, <3>1 DEF Content, Wallet
    <3>3. \A j \in issued : j.chain = "receive" => j.index <= action.previous
      BY <3>1 DEF Inv, Acting, Rotated
    <3>4. \A j \in issued : j.index \in Nat
      BY DEF Inv, TypeOK, ProcessTyped
    <3>5. \A j \in issued : Covers(session', j)
      BY <1>3, <1>4, <3>2, <3>3, <3>4 DEF Covers
    <3>. QED BY <3>1, <3>2, <3>5
  <2>. QED BY <2>1, <2>2
<1>10. /\ action' \in Operation /\ refresh' \in {"none", "reading", "saving"}
       /\ session = None => session' = None
       /\ issued' # issued => durable' = {file} /\ file = saves[1].data
       /\ closed => action' = Idle \/ action'.stale
  BY <1>2 DEF Operation, Inv, TypeOK, OperationsTyped
<1>. QED BY <1>2, <1>5, <1>6, <1>7, <1>8, <1>9, <1>10, Settles

\* The save of a change address settles: the payment is broadcast, or is over.
LEMMA InvChangeSettled ==
  ASSUME Inv, ~exited, saves # <<>>, NEW ok \in BOOLEAN, Settled(ok),
         saves[1].by = "confirmSend", action.kind = "confirmSend",
         UNCHANGED <<file, backups>>, torn' \in BOOLEAN, durable' \in {durable, {file}},
         ok => durable' = {file} /\ file = saves[1].data
  PROVE  Inv'
<1>. DEFINE i == [chain |-> "change", index |-> action.index]
            goesOn == ok /\ ~action.stale /\ session # None
            op == [action EXCEPT !.pc = "broadcast"]
<1>1. /\ Head(saves) = saves[1] /\ 1 \in DOMAIN saves /\ Len(saves) \in Nat
      /\ DOMAIN saves = 1..Len(saves) /\ DOMAIN Tail(saves) = 1..(Len(saves) - 1)
      /\ \A k \in 1..(Len(saves) - 1) : Tail(saves)[k] = saves[k + 1]
  BY Tails DEF Inv, TypeOK, OperationsTyped
<1>2. /\ saves' = Tail(saves) /\ refresh' = refresh /\ session' = session
      /\ UNCHANGED <<locked, preview, process, installed>>
      /\ goesOn => issued' = issued \cup {i} /\ action' = op
      /\ ~goesOn => issued' = issued /\ action' = Idle
  BY <1>1 DEF Settled
<1>3. /\ action.pc = "saving" /\ action \in Payment /\ action.index \in 0..MaxIndex
  BY <1>1, Kinds DEF Inv, TypeOK, OperationsTyped, Payment, Waits
<1>4. /\ op \in Operation /\ op.kind = "confirmSend" /\ op.pc = "broadcast"
      /\ op.index = action.index /\ op.stale = action.stale
  BY <1>3 DEF Operation, Payment
<1>. HIDE DEF op
<1>5. session # None => session \in Content /\ \A j \in issued : Covers(session, j)
  BY Unlocked DEF Belongs, Remembers
<1>6. ASSUME NEW k \in DOMAIN saves'
      PROVE  saves'[k].by \notin {"newAddress", "confirmSend"}
  <2>1. k + 1 \in DOMAIN saves /\ saves'[k] = saves[k + 1] /\ k + 1 # 1
    BY <1>1, <1>2
  <2>. QED BY <1>1, <2>1 DEF Inv, Waits
<1>7. Waits'
  BY <1>6 DEF Waits
<1>8. goesOn => /\ session # None /\ action.index < session.change
                /\ \A l \in 1..Len(saves) : saves[l].data.change > action.index
  BY <1>1, <1>3 DEF Inv, Acting, Paid
<1>9. Acting'
  <2>1. CASE goesOn
    <3>1. session.change \in Nat
      BY <2>1, Unlocked
    <3>. QED BY <1>2, <1>3, <1>4, <1>6, <1>8, <2>1, <3>1 DEF Acting, Created, Entering, Rotated, Paid
  <2>2. CASE ~goesOn
    BY <1>2, <2>2 DEF Acting, Created, Entering, Rotated, Paid, Idle
  <2>. QED BY <2>1, <2>2
<1>. HIDE DEF i
<1>10. issued \subseteq issued' /\ \A j \in issued' \ issued : j = i
  BY <1>2
<1>11. ASSUME NEW j \in issued' \ issued
       PROVE  /\ j \in [chain : {"receive", "change"}, index : 0..MaxIndex]
              /\ Covers(session, j) /\ \A k \in DOMAIN saves : Covers(saves[k].data, j)
  <2>1. goesOn /\ j = i
    BY <1>2, <1>10
  <2>2. Covers(session, i) /\ i \in [chain : {"receive", "change"}, index : 0..MaxIndex]
    <3>1. session.change \in Nat
      BY <2>1, Unlocked
    <3>. QED BY <1>3, <1>8, <2>1, <3>1 DEF i, Covers
  <2>3. \A k \in DOMAIN saves : Covers(saves[k].data, i)
    BY <1>1, <1>8, <2>1 DEF i, Covers
  <2>. QED BY <2>1, <2>2, <2>3
<1>12. /\ action' \in Operation /\ refresh' \in {"none", "reading", "saving"}
       /\ issued' # issued => durable' = {file} /\ file = saves[1].data
  <2>1. Idle \in Operation
    BY DEF Operation
  <2>. QED BY <1>2, <1>4, <2>1 DEF Inv, TypeOK, OperationsTyped
<1>13. closed => action' = Idle \/ action'.stale
  BY <1>2 DEF Inv, Closing
<1>14. \A j \in issued' : session # None => Covers(session', j)
  BY <1>2, <1>5, <1>11
<1>. QED BY <1>2, <1>5, <1>7, <1>9, <1>10, <1>11, <1>12, <1>13, <1>14, Settles

LEMMA InvSaveSettles ==
  ASSUME Inv, ~exited, saveFlushed \/ saveFails
  PROVE  Inv'
<1>1. /\ saves # <<>> /\ saves \in Seq(Save) /\ Head(saves) = saves[1] /\ 1 \in DOMAIN saves
  BY Tails DEF saveFlushed, saveFails, Saving, Inv, TypeOK, OperationsTyped
<1>2. PICK ok \in BOOLEAN :
        /\ Settled(ok) /\ UNCHANGED <<file, backups>> /\ torn' \in BOOLEAN
        /\ durable' \in {durable, {file}}
        /\ ok => durable' = {file} /\ saves[1].pc = "flush"
  <2>1. CASE saveFlushed
    BY <1>1, <2>1 DEF saveFlushed, Saving
  <2>2. CASE saveFails
    BY <2>2 DEF saveFails, Inv, TypeOK, DiskTyped
  <2>. QED BY <2>1, <2>2
<1>3. ok => durable' = {file} /\ file = saves[1].data
  BY <1>1, <1>2 DEF Inv, Queued
<1>4. CASE saves[1].by # action.kind
  BY <1>1, <1>2, <1>4, InvSettledAlone
<1>5. CASE saves[1].by = action.kind
  <2>1. saves[1].by \in {"newAddress", "confirmSend", "refresh", "dropped"}
    <3>1. saves[1] \in Save
      BY <1>1
    <3>. QED BY <3>1 DEF Save
  <2>2. saves[1].by \in {"newAddress", "confirmSend"}
    BY <1>5, <2>1, Kinds DEF Inv, TypeOK, OperationsTyped
  <2>. QED BY <1>1, <1>2, <1>3, <1>5, <2>2, InvAddressSettled, InvChangeSettled
<1>. QED BY <1>4, <1>5

-----------------------------------------------------------------------------
(* Quitting and starting again.                                            *)

LEMMA InvExit ==
  ASSUME Inv, ~exited, exit
  PROVE  Inv'
<1>1. /\ UNCHANGED <<file, durable, backups, torn, session, walletExists, replacement, setup, consent, preview,
                     action, refresh, saves, relock, draining, closed, installed, issued>>
      /\ saves = <<>> /\ action.kind # "create" /\ exited' = TRUE /\ rpc' = "closed"
  BY DEF exit, disk, locked
<1>2. TypeOK'
  BY <1>1 DEF Inv, TypeOK, DiskTyped, MemoryTyped, OperationsTyped, ProcessTyped
<1>3. Stored' /\ WalletsKept'
  BY <1>1, DiskKept DEF Inv, Stored
<1>4. Opened' /\ Queued' /\ Waits' /\ Closing'
  BY <1>1 DEF Inv, Opened, Queued, Waits, Closing, Belongs, Remembers, Covers, Wallet
<1>5. Acting'
  BY <1>1 DEF Inv, Acting, Created, Entering, Rotated, Paid, Belongs, Remembers, Covers, Wallet
<1>. QED BY <1>2, <1>3, <1>4, <1>5 DEF Inv

\* Whatever the disk kept, the program starts from it alone.
LEMMA InvRestart ==
  ASSUME Inv, restart
  PROVE  Inv'
<1>1. /\ session' = None /\ walletExists' = (file' # None) /\ replacement' = None /\ setup' = None
      /\ preview' = None /\ action' = Idle /\ refresh' = "none" /\ saves' = <<>>
      /\ rpc' = "open" /\ relock' = FALSE /\ draining' = FALSE /\ closed' = FALSE /\ exited' = FALSE
      /\ consent' = "none" /\ torn' \in BOOLEAN /\ UNCHANGED <<backups, installed, issued>>
  BY DEF restart, Forget, Withdraws
<1>2. file' \in durable /\ file' \in durable' /\ durable' \subseteq durable
  BY DEF restart, Inv, Stored
<1>3. TypeOK'
  <2>1. <<>> \in Seq(Save) /\ Idle \in Operation
    BY DEF Operation
  <2>2. DiskTyped' /\ MemoryTyped'
    BY <1>1, <1>2 DEF Inv, TypeOK, DiskTyped, MemoryTyped
  <2>3. OperationsTyped' /\ ProcessTyped'
    BY <1>1, <2>1 DEF Inv, TypeOK, OperationsTyped, ProcessTyped
  <2>. QED BY <2>2, <2>3 DEF TypeOK
<1>4. Stored' /\ WalletsKept'
  BY <1>1, <1>2 DEF Inv, Stored, WalletsKept, Remembers, Covers, Wallet
<1>5. Opened' /\ Queued' /\ Waits'
  BY <1>1 DEF Opened, Queued, Waits
<1>6. Acting' /\ Closing'
  BY <1>1 DEF Acting, Created, Entering, Rotated, Paid, Closing, Idle
<1>. QED BY <1>3, <1>4, <1>5, <1>6 DEF Inv

LEMMA InvStutter ==
  ASSUME Inv, UNCHANGED vars
  PROVE  Inv'
<1>1. UNCHANGED <<file, durable, backups, torn, session, walletExists, replacement, setup, consent, preview,
                  action, refresh, saves, rpc, relock, draining, closed, exited, installed, issued>>
  BY DEF vars, disk, locked, process
<1>2. TypeOK'
  BY <1>1 DEF Inv, TypeOK, DiskTyped, MemoryTyped, OperationsTyped, ProcessTyped
<1>3. Stored' /\ WalletsKept'
  BY <1>1, DiskKept DEF Inv, Stored
<1>4. Opened' /\ Queued' /\ Waits' /\ Closing'
  BY <1>1 DEF Inv, Opened, Queued, Waits, Closing, Belongs, Remembers, Covers, Wallet
<1>5. Acting'
  BY <1>1 DEF Inv, Acting, Created, Entering, Rotated, Paid, Belongs, Remembers, Covers, Wallet
<1>. QED BY <1>2, <1>3, <1>4, <1>5 DEF Inv

-----------------------------------------------------------------------------
(* The invariant and what follows.                                         *)

LEMMA InvUser ==
  ASSUME Inv, ~exited, user
  PROVE  Inv'
BY InvPrepareWallet, InvRestoreConfirm, InvBegins, InvCancel, InvLock, InvNewAddress, InvPreviewSend,
   InvStill, InvConfirmSend DEF user

LEMMA InvBackground ==
  ASSUME Inv, ~exited, background
  PROVE  Inv'
BY InvExpireSetup, InvReplacementBegins, InvCreation, InvPublished, InvFlushed, InvCreationDone,
   InvUnlockReads, InvUnlocked, InvUnlockFails, InvLockEnds, InvConfigSaved, InvChangeSaved,
   InvPaymentEnds, InvStill, InvRefreshSaves, InvSaveMoves, InvSaveSettles DEF background

LEMMA InvNext ==
  ASSUME Inv, [Next]_vars
  PROVE  Inv'
BY InvUser, InvBackground, InvExit, InvRestart, InvStutter DEF Next

LEMMA InvAlways == Spec => []Inv
BY InvInit, InvNext, PTL DEF Spec

\* Every variable keeps its type, so no index, save or backup leaves its range.
THEOREM SessionTypes == Spec => []TypeOK
<1>1. Inv => TypeOK
  BY DEF Inv
<1>. QED BY <1>1, InvAlways, PTL

\* A saved wallet is on the disk or among the flushed backups whatever a power
\* loss leaves, for any number of wallets, replacements and saves
\* (createVault, replaceVault and updateVault of vault.mjs).
THEOREM SessionWalletsKept == Spec => []WalletsKept
<1>1. Inv => WalletsKept
  BY DEF Inv
<1>. QED BY <1>1, InvAlways, PTL

\* An address in use is remembered by whatever the disk holds (newAddress and
\* confirmSend of wallet-service.mjs hand an index out only once it is saved).
THEOREM SessionIssuedRemembered == Spec => []IssuedRemembered
<1>1. Inv => IssuedRemembered
  BY DEF Inv, Stored, Remembers, Covers, IssuedRemembered
<1>. QED BY <1>1, InvAlways, PTL

\* Only a publication changes the file while the process runs.
LEMMA FileChanges ==
  ASSUME ~exited, user \/ background \/ exit, file' # file
  PROVE  vaultReplaced \/ vaultCreated \/ savePublished
<1>1. ~user
  BY DEF user, prepareWallet, restoreWallet, confirmWallet, Creates, beginWalletReplacement,
         cancelWalletReplacement, unlock, lock, close, Locks, saveConfig, newAddress, previewSend,
         cancelSendPreview, confirmSend, disk
<1>2. ~exit
  BY DEF exit, disk
<1>3. ~(creationDrained \/ creationEncrypted \/ creationWritten \/ creationRefused \/ creationFlushed
        \/ creationDone \/ expireSetup \/ replacementBegins)
  BY DEF creationDrained, creationEncrypted, creationWritten, creationRefused, creationFlushed,
         creationDone, CreationFails, expireSetup, replacementBegins, disk
<1>4. ~(unlockReads \/ unlocked \/ unlockFails \/ lockEnds \/ configSaved \/ changeSaved \/ paymentEnds
        \/ refreshes \/ recovered \/ usageFound \/ refreshEnds)
  BY DEF unlockReads, unlocked, unlockFails, lockEnds, configSaved, changeSaved, paymentEnds, refreshes,
         recovered, usageFound, refreshEnds, disk
<1>5. ~(saveVerified \/ saveWritten \/ saveFlushed \/ saveFails)
  BY DEF saveVerified, saveWritten, saveFlushed, saveFails, disk
<1>. QED BY <1>1, <1>2, <1>3, <1>4, <1>5 DEF background

\* The file that a replacement overwrites is among the backups, a save stays in
\* its own wallet, and a creation overwrites nothing (replaceVault, updateVault
\* and createVault of vault.mjs).
THEOREM SessionReplacedFilesKept == Spec => ReplacedFilesKept
<1>1. ASSUME Inv, [Next]_vars, file # None, file' # file
      PROVE  \/ file \in backups'
             \/ file' # None /\ Wallet(file') = Wallet(file)
             \/ file' \in durable
  <2>1. CASE vaultReplaced
    BY <1>1, <2>1 DEF vaultReplaced, Creating, Publishable, Inv, Acting, Created
  <2>2. CASE vaultCreated
    BY <1>1, <2>2 DEF vaultCreated, Publishable
  <2>3. CASE savePublished
    <3>1. saves # <<>> /\ file' = saves[1].data /\ 1 \in DOMAIN saves /\ DOMAIN saves = 1..Len(saves)
      BY <2>3, <1>1, Tails DEF savePublished, Saving, Inv, TypeOK, OperationsTyped
    <3>2. saves[1].data # None
      <4>1. saves \in Seq(Save)
        BY <1>1 DEF Inv, TypeOK, OperationsTyped
      <4>2. saves[1] \in Save
        BY <3>1, <4>1
      <4>3. saves[1].data \in Content
        BY <4>2 DEF Save
      <4>. QED BY <4>3, NoneAssumption
    <3>. QED BY <1>1, <3>1, <3>2 DEF Inv, Queued, Belongs
  <2>4. CASE restart
    BY <1>1, <2>4 DEF restart
  <2>5. CASE UNCHANGED vars
    BY <1>1, <2>5 DEF vars, disk
  <2>. QED BY <1>1, <2>1, <2>2, <2>3, <2>4, <2>5, FileChanges DEF Next
<1>2. Inv /\ [Next]_vars =>
        [file # None /\ file' # file =>
           \/ file \in backups'
           \/ file' # None /\ Wallet(file') = Wallet(file)
           \/ file' \in durable]_vars
  BY <1>1
<1>. QED BY <1>2, InvAlways, PTL DEF Spec, ReplacedFilesKept

-----------------------------------------------------------------------------
(* What the user agreed to.  The history variable is written by what the     *)
(* user, the timer and quitting do; that the epoch an operation compares     *)
(* says the same is the invariant.                                           *)

Agreed ==
  /\ action.kind = "unlock" /\ ~action.stale => consent = "password"
  /\ action.kind = "create" /\ ~action.stale =>
       IF action.confirms THEN setup # None => consent = "setup" ELSE consent = "password"

\* No operation is left that could open a session.
LEMMA AgreedWithout ==
  ASSUME action'.kind \notin {"create", "unlock"} \/ action'.stale
  PROVE  Agreed'
BY DEF Agreed

\* An operation goes on.
LEMMA AgreedKept ==
  ASSUME Agreed, UNCHANGED consent, setup' \in {setup, None},
         action'.kind = action.kind, action'.stale = action.stale,
         action.kind = "create" => action'.confirms = action.confirms
  PROVE  Agreed'
BY DEF Agreed

LEMMA AgreedUser ==
  ASSUME Inv, Agreed, ~exited, user
  PROVE  Agreed'
<1>1. action \in Operation
  BY DEF Inv, TypeOK, OperationsTyped
<1>2. ASSUME NEW s \in Seeds, NEW p \in Passwords, prepareWallet(s, p) PROVE Agreed'
  BY <1>2, AgreedWithout DEF prepareWallet, MayAct, Idle
<1>3. ASSUME NEW data, NEW confirms \in BOOLEAN, Creates(data, confirms) PROVE Agreed'
  BY <1>3 DEF Creates, Act, Agreed
<1>4. CASE confirmWallet \/ \E s \in Seeds, p \in Passwords : restoreWallet(s, p)
  BY <1>3, <1>4 DEF confirmWallet, restoreWallet
<1>5. CASE \E m \in {"recover", "switch"} : beginWalletReplacement(m)
  BY <1>5, AgreedWithout DEF beginWalletReplacement, NewEpoch
<1>6. CASE cancelWalletReplacement \/ lock \/ close
  <2>1. action' = Aged(action)
    BY <1>6 DEF cancelWalletReplacement, NewEpoch, lock, close, Locks
  <2>. QED BY <1>1, <2>1, AgedKinds, AgreedWithout DEF Idle
<1>7. CASE unlock
  BY <1>7 DEF unlock, NewEpoch, Agreed
<1>8. CASE saveConfig \/ newAddress \/ confirmSend
  BY <1>8, AgreedWithout DEF saveConfig, NewEpoch, newAddress, confirmSend, Act
<1>9. CASE previewSend \/ cancelSendPreview
  BY <1>9, AgreedKept DEF previewSend, cancelSendPreview, locked
<1>. QED BY <1>2, <1>4, <1>5, <1>6, <1>7, <1>8, <1>9 DEF user

LEMMA AgreedCreation ==
  ASSUME Inv, Agreed,
         \/ creationDrained \/ creationEncrypted \/ creationWritten \/ creationRefused
         \/ vaultReplaced \/ vaultCreated \/ creationFlushed \/ creationDone
  PROVE  Agreed'
<1>1. action.kind = "create" /\ action \in Creation
  BY Alone DEF creationDrained, creationEncrypted, creationWritten, creationRefused, vaultReplaced,
               vaultCreated, creationFlushed, creationDone, Creating
<1>2. CASE action' = Idle
  BY <1>2, AgreedWithout DEF Idle
<1>3. ASSUME NEW next \in {"encrypt", "write", "publish", "flush", "done"},
             action' = [action EXCEPT !.pc = next], UNCHANGED <<consent, setup>>
      PROVE  Agreed'
  BY <1>1, <1>3, CreationMoves, AgreedKept
<1>4. CASE creationDrained \/ creationEncrypted \/ creationWritten \/ creationRefused
  BY <1>2, <1>3, <1>4 DEF creationDrained, creationEncrypted, creationWritten, creationRefused,
                          CreationStep, CreationFails, Fails, Act, locked
<1>5. CASE vaultReplaced \/ vaultCreated \/ creationFlushed
  BY <1>2, <1>3, <1>5 DEF vaultReplaced, vaultCreated, creationFlushed, NewEpoch, Act, locked
<1>6. CASE creationDone
  BY <1>2, <1>6 DEF creationDone, openSession, Fails, Act
<1>. QED BY <1>4, <1>5, <1>6

LEMMA AgreedBackground ==
  ASSUME Inv, Agreed, ~exited, background
  PROVE  Agreed'
<1>1. CASE expireSetup
  BY <1>1 DEF expireSetup, Agreed
<1>2. CASE replacementBegins \/ unlocked \/ unlockFails \/ configSaved \/ paymentEnds
  BY <1>2, AgreedWithout
     DEF replacementBegins, unlocked, openSession, unlockFails, configSaved, paymentEnds, Fails, Act, Idle
<1>3. CASE unlockReads
  <2>1. CASE action' = Idle
    BY <2>1, AgreedWithout DEF Idle
  <2>2. CASE action' = [action EXCEPT !.pc = "derive", !.data = file]
    <3>1. action \in Unlocking
      BY <1>3, Kinds DEF unlockReads, Inv, TypeOK, OperationsTyped
    <3>2. action'.kind = action.kind /\ action'.stale = action.stale /\ action.kind = "unlock"
      BY <2>2, <3>1 DEF Unlocking
    <3>. QED BY <1>3, <3>2, AgreedKept DEF unlockReads, locked
  <2>. QED BY <1>3, <2>1, <2>2 DEF unlockReads, Fails, Act
<1>4. CASE changeSaved
  <2>1. action \in Payment
    BY <1>4, Kinds DEF changeSaved, Paying, Inv, TypeOK, OperationsTyped
  <2>. QED BY <1>4, <2>1, AgreedWithout DEF changeSaved, Act, Payment
<1>5. CASE lockEnds \/ refreshes \/ recovered \/ usageFound \/ refreshEnds \/ saveVerified \/ saveWritten
           \/ savePublished
  BY <1>5, AgreedKept DEF lockEnds, refreshes, recovered, usageFound, refreshEnds, saveVerified,
                          saveWritten, savePublished, locked
<1>6. CASE saveFlushed \/ saveFails
  <2>1. UNCHANGED locked
    BY <1>6 DEF saveFlushed, saveFails, Settled
  <2>2. CASE action' = action
    BY <2>1, <2>2, AgreedKept DEF locked
  <2>3. CASE action' = Idle
    BY <2>3, AgreedWithout DEF Idle
  <2>4. CASE action.kind = "confirmSend" /\ action' = [action EXCEPT !.pc = "broadcast"]
    <3>1. action \in Payment
      BY <2>4, Kinds DEF Inv, TypeOK, OperationsTyped
    <3>. QED BY <2>4, <3>1, AgreedWithout DEF Payment
  <2>. QED BY <1>6, <2>2, <2>3, <2>4 DEF saveFlushed, saveFails, Settled
<1>. QED BY <1>1, <1>2, <1>3, <1>4, <1>5, <1>6, AgreedCreation DEF background

LEMMA AgreedNext ==
  ASSUME Inv, Agreed, [Next]_vars
  PROVE  Agreed'
<1>1. CASE exit
  BY <1>1, AgreedKept DEF exit, locked
<1>2. CASE restart
  BY <1>2, AgreedWithout DEF restart, Idle
<1>3. CASE UNCHANGED vars
  BY <1>3, AgreedKept DEF vars, locked
<1>. QED BY <1>1, <1>2, <1>3, AgreedUser, AgreedBackground DEF Next

\* A session grows within its wallet.
LEMMA SessionGrows ==
  ASSUME Inv, session # None,
         newAddress \/ changeSaved \/ recovered \/ saveFlushed \/ saveFails
  PROVE  Wallet(session') = Wallet(session)
<1>1. session \in Content
  BY Unlocked
<1>2. CASE newAddress \/ changeSaved
  BY <1>1, <1>2 DEF newAddress, changeSaved, Wallet, Content
<1>3. CASE recovered
  BY <1>1, <1>3 DEF recovered, Wallet, Content
<1>4. CASE saveFlushed \/ saveFails
  BY <1>1, <1>4 DEF saveFlushed, saveFails, Settled, Wallet, Content
<1>. QED BY <1>2, <1>3, <1>4

\* Only these steps leave a session that was not there before.
LEMMA SessionChanges ==
  ASSUME ~exited, user \/ background \/ exit, session' # session, session' # None
  PROVE  \/ newAddress \/ changeSaved \/ recovered \/ saveFlushed \/ saveFails
         \/ creationDone \/ unlocked
<1>1. user => newAddress
  BY DEF user, prepareWallet, restoreWallet, confirmWallet, Creates, beginWalletReplacement,
         cancelWalletReplacement, unlock, lock, close, Locks, saveConfig, previewSend,
         cancelSendPreview, confirmSend
<1>2. ~exit
  BY DEF exit
<1>3. ~(creationDrained \/ creationEncrypted \/ creationWritten \/ creationRefused \/ creationFlushed
        \/ vaultReplaced \/ vaultCreated \/ expireSetup \/ replacementBegins)
  BY DEF creationDrained, creationEncrypted, creationWritten, creationRefused, creationFlushed,
         vaultReplaced, vaultCreated, CreationStep, CreationFails, expireSetup, replacementBegins
<1>4. ~(unlockReads \/ unlockFails \/ lockEnds \/ configSaved \/ paymentEnds
        \/ refreshes \/ usageFound \/ refreshEnds)
  BY DEF unlockReads, unlockFails, lockEnds, configSaved, paymentEnds, refreshes, usageFound, refreshEnds
<1>5. ~(saveVerified \/ saveWritten \/ savePublished)
  BY DEF saveVerified, saveWritten, savePublished
<1>. QED BY <1>1, <1>2, <1>3, <1>4, <1>5 DEF background

\* A session opens only while the password, the phrase or the setup that the user
\* gave for it has not been taken back by a lock, a cancellation, an expired
\* setup, a new configuration or by quitting, for any interleaving of them (the
\* epochs of createWalletInternal, unlock and lock in wallet-service.mjs).
THEOREM SessionOpensWithConsent == Spec => OpensWithConsent
<1>1. Init => Agreed
  BY DEF Init, Agreed, Idle
<1>2. ASSUME Inv, Agreed, [Next]_vars, session' # None,
             session = None \/ Wallet(session') # Wallet(session)
      PROVE  consent # "none"
  <2>1. session' # session
    BY <1>2
  <2>2. ~restart /\ ~UNCHANGED vars
    BY <1>2, <2>1 DEF restart, vars
  <2>3. ~(newAddress \/ changeSaved \/ recovered \/ saveFlushed \/ saveFails)
    <3>1. session # None \/ ~(newAddress \/ recovered)
      BY DEF newAddress, recovered
    <3>2. session # None \/ ~changeSaved
      BY <1>2, Kinds DEF changeSaved, Paying, Inv, TypeOK, OperationsTyped, Acting, Paid
    <3>3. session # None \/ ~(saveFlushed \/ saveFails)
      BY <1>2 DEF saveFlushed, saveFails, Settled
    <3>. QED BY <1>2, <3>1, <3>2, <3>3, SessionGrows
  <2>4. CASE creationDone
    <3>1. ~action.stale /\ (action.confirms => setup # None) /\ action.kind = "create"
      BY <1>2, <2>1, <2>4 DEF creationDone, Creating
    <3>. QED BY <1>2, <3>1 DEF Agreed
  <2>5. CASE unlocked
    BY <1>2, <2>5 DEF unlocked, Agreed
  <2>. QED BY <1>2, <2>1, <2>2, <2>3, <2>4, <2>5, SessionChanges DEF Next
<1>3. Inv /\ Agreed /\ [Next]_vars =>
        [session' # None /\ (session = None \/ Wallet(session') # Wallet(session))
           => consent # "none"]_vars
  BY <1>2
<1>4. Inv /\ Agreed /\ [Next]_vars => Agreed'
  BY AgreedNext
<1>. QED BY <1>1, <1>3, <1>4, InvAlways, PTL DEF Spec, OpensWithConsent

-----------------------------------------------------------------------------
(* What the disk holds when the program exits, unless a flush has failed.    *)

\* Between a rename and its flush a save or a creation is under way.
Flushing == saves # <<>> /\ saves[1].pc = "flush"
CreationFlushing == action.kind = "create" /\ action.pc = "flush"
Flushed ==
  /\ durable = {file} \/ torn \/ Flushing \/ CreationFlushing
  /\ exited => saves = <<>> /\ action.kind # "create"

LEMMA FlushedKept ==
  ASSUME Flushed, ~exited', UNCHANGED <<file, durable, torn>>,
         Flushing => Flushing', CreationFlushing => CreationFlushing'
  PROVE  Flushed'
BY DEF Flushed

LEMMA FlushingKept ==
  ASSUME Inv, \/ saves' = saves \/ saves' = Orphaned
              \/ \E data \in Content, by \in {"newAddress", "confirmSend", "refresh"} : Queue(data, by)
  PROVE  Flushing => Flushing'
<1>1. saves \in Seq(Save)
  BY DEF Inv, TypeOK, OperationsTyped
<1>2. CASE saves' = Orphaned
  <2>1. Flushing => 1 \in DOMAIN saves
    BY <1>1 DEF Flushing
  <2>. QED BY <1>1, <1>2, <2>1, OrphanedSaves DEF Flushing
<1>3. ASSUME NEW data \in Content, NEW by \in {"newAddress", "confirmSend", "refresh"}, Queue(data, by)
      PROVE  Flushing => Flushing'
  <2>. DEFINE s == [data |-> data, by |-> by, pc |-> "verify"]
  <2>1. s \in Save /\ saves' = Append(saves, s)
    BY <1>3 DEF Queue, Save
  <2>. HIDE DEF s
  <2>2. saves # <<>> => saves' # <<>> /\ saves'[1] = saves[1]
    BY <1>1, <2>1
  <2>. QED BY <2>2 DEF Flushing
<1>. QED BY <1>2, <1>3 DEF Flushing

LEMMA FlushedUser ==
  ASSUME Inv, Flushed, ~exited, user
  PROVE  Flushed'
<1>1. /\ UNCHANGED <<file, durable, torn, exited>>
      /\ \/ saves' = saves \/ saves' = Orphaned
         \/ \E data \in Content, by \in {"newAddress", "confirmSend", "refresh"} : Queue(data, by)
  <2>1. CASE newAddress
    <3>1. session' \in Content
      <4>1. session \in Content /\ session.receive + 1 \in 0..MaxIndex
        BY <2>1, Unlocked, SessionAssumption DEF newAddress, Content
      <4>. QED BY <2>1, <4>1 DEF newAddress, Content
    <3>. QED BY <2>1, <3>1 DEF newAddress, disk, process
  <2>2. CASE ~newAddress
    BY <2>2 DEF user, prepareWallet, restoreWallet, confirmWallet, Creates, beginWalletReplacement,
       cancelWalletReplacement, unlock, lock, close, Locks, saveConfig, NewEpoch, previewSend,
       cancelSendPreview, confirmSend, disk, process
  <2>. QED BY <2>1, <2>2
<1>2. CreationFlushing => CreationFlushing'
  <2>1. action \in Operation
    BY DEF Inv, TypeOK, OperationsTyped
  <2>2. CASE cancelWalletReplacement \/ lock \/ close
    <3>1. action' = Aged(action)
      BY <2>2 DEF cancelWalletReplacement, NewEpoch, lock, close, Locks
    <3>. QED BY <2>1, <3>1, AgedKinds DEF CreationFlushing
  <2>3. CASE cancelSendPreview
    BY <2>3 DEF cancelSendPreview, CreationFlushing
  <2>4. CASE MayAct
    BY <2>4 DEF MayAct, CreationFlushing, Idle
  <2>. QED BY <2>2, <2>3, <2>4
          DEF user, prepareWallet, restoreWallet, confirmWallet, beginWalletReplacement, unlock,
              saveConfig, newAddress, previewSend, confirmSend
<1>. QED BY <1>1, <1>2, FlushingKept, FlushedKept

LEMMA FlushedCreation ==
  ASSUME Inv, Flushed, ~exited,
         \/ creationDrained \/ creationEncrypted \/ creationWritten \/ creationRefused
         \/ vaultReplaced \/ vaultCreated \/ creationFlushed \/ creationDone
  PROVE  Flushed'
<1>1. action.kind = "create" /\ action \in Creation
  BY Alone DEF creationDrained, creationEncrypted, creationWritten, creationRefused, vaultReplaced,
               vaultCreated, creationFlushed, creationDone, Creating
<1>3. UNCHANGED exited
  BY DEF creationDrained, creationEncrypted, creationWritten, creationRefused, vaultReplaced,
         vaultCreated, creationFlushed, creationDone, CreationStep, CreationFails, process
<1>4. CASE creationDrained \/ creationEncrypted \/ creationWritten \/ creationRefused
  <2>1. UNCHANGED <<file, durable, torn, saves>> /\ ~CreationFlushing
    BY <1>4 DEF creationDrained, creationEncrypted, creationWritten, creationRefused, CreationStep,
                CreationFails, disk, Creating, CreationFlushing
  <2>. QED BY <1>3, <2>1, FlushingKept, FlushedKept
<1>5. CASE vaultReplaced \/ creationFlushed
  BY <1>3, <1>5 DEF vaultReplaced, creationFlushed, Flushed
<1>6. CASE vaultCreated
  <2>1. action' = [action EXCEPT !.pc = "flush"]
    BY <1>6 DEF vaultCreated, Act
  <2>2. CreationFlushing'
    BY <1>1, <2>1, CreationMoves DEF CreationFlushing
  <2>. QED BY <1>3, <2>2 DEF Flushed
<1>7. CASE creationDone
  <2>1. UNCHANGED <<file, durable, torn>> /\ ~CreationFlushing /\ (saves' = saves \/ saves' = Orphaned)
    BY <1>7 DEF creationDone, openSession, disk, Creating, CreationFlushing
  <2>. QED BY <1>3, <2>1, FlushingKept, FlushedKept
<1>. QED BY <1>4, <1>5, <1>6, <1>7

LEMMA FlushedSaves ==
  ASSUME Inv, Flushed, ~exited,
         saveVerified \/ saveWritten \/ savePublished \/ saveFlushed \/ saveFails
  PROVE  Flushed'
<1>1. UNCHANGED exited
  BY DEF saveVerified, saveWritten, savePublished, saveFlushed, saveFails, Settled, process
<1>2. /\ saves \in Seq(Save) /\ saves # <<>> /\ Head(saves) = saves[1]
  BY Tails DEF saveVerified, saveWritten, savePublished, saveFlushed, saveFails, Saving, Inv, TypeOK,
               OperationsTyped
<1>3. CASE saveVerified \/ saveWritten
  <2>1. ~Flushing /\ UNCHANGED <<file, durable, torn, action>>
    BY <1>2, <1>3 DEF saveVerified, saveWritten, Saving, Flushing, disk
  <2>. QED BY <1>1, <2>1, FlushedKept DEF CreationFlushing
<1>4. CASE savePublished
  BY <1>1, <1>2, <1>4, HeadMoves DEF savePublished, Flushed, Flushing
<1>5. CASE saveFlushed
  BY <1>1, <1>5 DEF saveFlushed, Flushed
<1>6. CASE saveFails /\ Flushing
  BY <1>1, <1>2, <1>6 DEF saveFails, Saving, Flushed, Flushing
<1>7. CASE saveFails /\ ~Flushing
  <2>1. UNCHANGED <<file, durable>> /\ (torn => torn')
    BY <1>7 DEF saveFails
  <2>2. CreationFlushing => CreationFlushing'
    <3>1. saves[1] \in Save
      BY <1>2
    <3>. QED BY <1>2, <1>7, <3>1 DEF saveFails, Settled, CreationFlushing, Save
  <2>. QED BY <1>1, <1>7, <2>1, <2>2 DEF Flushed
<1>. QED BY <1>3, <1>4, <1>5, <1>6, <1>7

LEMMA FlushedBackground ==
  ASSUME Inv, Flushed, ~exited, background
  PROVE  Flushed'
<1>1. CASE expireSetup \/ replacementBegins \/ unlockReads \/ unlocked \/ unlockFails \/ lockEnds
           \/ configSaved \/ paymentEnds \/ refreshes \/ refreshEnds
  <2>1. UNCHANGED <<file, durable, torn, exited>> /\ (saves' = saves \/ saves' = Orphaned)
    BY <1>1 DEF expireSetup, replacementBegins, unlockReads, unlocked, openSession, unlockFails,
                lockEnds, configSaved, paymentEnds, refreshes, refreshEnds, disk, process
  <2>2. CreationFlushing => CreationFlushing'
    BY <1>1 DEF expireSetup, replacementBegins, unlockReads, unlocked, unlockFails, lockEnds, configSaved,
                paymentEnds, Paying, refreshes, refreshEnds, CreationFlushing
  <2>. QED BY <2>1, <2>2, FlushingKept, FlushedKept
<1>2. CASE changeSaved \/ recovered \/ usageFound
  <2>1. session # None /\ UNCHANGED <<file, durable, torn, exited>>
    BY <1>2, Kinds DEF changeSaved, Paying, recovered, usageFound, disk, process, Inv, TypeOK,
                       OperationsTyped, Acting, Paid
  <2>2. session' \in Content
    <3>1. session \in Content
      BY <2>1, Unlocked
    <3>2. CASE changeSaved
      <4>1. action \in Payment /\ action.kind = "confirmSend" /\ action.index <= session.change
        BY <3>2, Kinds DEF changeSaved, Paying, Inv, TypeOK, OperationsTyped, Acting, Paid
      <4>2. action.index + 1 \in 0..MaxIndex
        BY <3>1, <3>2, <4>1, SessionAssumption DEF changeSaved, Payment, Content
      <4>. QED BY <3>1, <3>2, <4>2 DEF changeSaved, Content
    <3>3. CASE recovered
      BY <3>1, <3>3 DEF recovered, Content
    <3>4. CASE usageFound
      BY <3>1, <3>4 DEF usageFound
    <3>. QED BY <1>2, <3>2, <3>3, <3>4
  <2>3. \E data \in Content, by \in {"newAddress", "confirmSend", "refresh"} : Queue(data, by)
    BY <1>2, <2>1, <2>2, Unlocked DEF changeSaved, recovered, usageFound
  <2>4. CreationFlushing => CreationFlushing'
    BY <1>2 DEF changeSaved, Paying, recovered, usageFound, CreationFlushing
  <2>. QED BY <2>1, <2>3, <2>4, FlushingKept, FlushedKept
<1>. QED BY <1>1, <1>2, FlushedCreation, FlushedSaves DEF background

LEMMA FlushedNext ==
  ASSUME Inv, Flushed, [Next]_vars
  PROVE  Flushed'
<1>1. CASE exit
  BY <1>1 DEF exit, Flushed, Flushing, CreationFlushing, disk
<1>2. CASE restart
  BY <1>2 DEF restart, Flushed, Idle
<1>3. CASE UNCHANGED vars
  BY <1>3 DEF vars, disk, process, Flushed, Flushing, CreationFlushing
<1>. QED BY <1>1, <1>2, <1>3, FlushedUser, FlushedBackground DEF Next

\* Unless a flush has failed, the program exits with the file as the only content
\* a power loss can leave: every rename has been flushed, whatever saves and
\* creations closing has interrupted (close of wallet-service.mjs, createVault,
\* replaceVault and updateVault of vault.mjs).
THEOREM SessionExitsFlushed == Spec => []ExitsFlushed
<1>1. Init => Flushed
  BY DEF Init, Flushed, Idle
<1>2. Inv /\ Flushed /\ [Next]_vars => Flushed'
  BY FlushedNext
<1>3. Flushed => ExitsFlushed
  BY DEF Flushed, Flushing, CreationFlushing, ExitsFlushed
<1>. QED BY <1>1, <1>2, <1>3, InvAlways, PTL DEF Spec
=============================================================================

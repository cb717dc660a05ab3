# A TLA+ verification of beanstore

beanstore is a per-node storage daemon: it manages LVM thin volumes behind a
gRPC API and moves detached volumes from one node to another.  This directory
models the parts of it that decide whether data survives, checks them with TLC
on small instances and proves the safety results with TLAPS for instances of
any size.

Definitions are named after the code and `PROJECT.json` maps each of them to
the lines it stands for.

## 1. The system

There is no coordinator.  An orchestrator outside beanstore calls *verbs* on
nodes; a node accepts a verb only in the volume states the verb lists.  All
durable state is in LVM: whether an lv exists, its state tag, its transfer and
target tags, whether its device is active.  Everything else is in memory and a
crash loses it.

| component | state | operations | what is hard | what makes it correct |
|---|---|---|---|---|
| move protocol: `api/push.go`, `api/resolve.go`, `storage/pushes.go`, commit in `api/api.go` | state, transfer and target tag of the volume on each node; the push goroutine and its attempt counter | `PushVolume`, `runPush`, `streamVolume`, `MarkCommitting`, `commitPush`, `settlePush`, `resolvePush`, `AbortPush`, `RetirePushed`, the resolver after a restart | two nodes, lost requests and lost answers, a crash of either at any step, questions whose answers go stale | one authoritative copy, never none, goroutines end |
| transfer table: `storage/transfers.go` | sessions, dead ids, committed ids, stream slot, grace timers, open device, digest | `PrepareReceive`, `Attach`, `Write`, `Detach`, `Commit`, `Abort`, grace timer, `finish`, `destroy` | every operation takes the mutex several times and calls lvm in between | the inbound limit, no orphaned volume, no transfer touches another one's volume, truthful answers, spent ids, every session ends |
| data stream: `streamOnce`, `Receive`, `Write`, `reader.go`, `digest.go` | device contents, digest, next offset | read, skip zero chunks, send, query offset and resume, write, compare digests | drops at any frame, a handler that outlives its connection, a failed write, zero runs and short last chunks | a committed copy is identical, the offset is honest, a good copy is not refused |
| rollback: `api/rollback.go`, `storage/rollback.go`, `recover.go` | the volume, its temporary copy, name reservations | sweep, create copy, remove, rename, retag; the same at boot | failure and crash between any two commands, crash during recovery | the volume or its replacement always exists, boot heals |
| volume verbs: `storage/volumes.go`, `api/api.go`, `createfromsnapshot.go`, `pushsnapshot.go`, `storage/exports.go` | state tags, activation, export pins | create, attach, detach, snapshot, delete (forced or not), clone, export | check and change are separate, no lock per volume | attached volumes keep their device, snapshots rest inactive; one state per volume, readers keep their snapshot (both can be raced, section 5) |
| operation table: `operations/table.go` | state of each long-running operation | `Begin`, `Done`, `Fail`, `Progress` | ended by goroutines with many error paths | operations end, DONE is true |
| startup: `storage/recover.go`, `cmd/beanstore/main.go` | none of its own | one case per state tag | decides by a list taken at the start | whatever a crash left is made usable or removed |
| lvm library: `lvm/` | the client's device scoping and autobackup | 49 operations, each one lvm command | short flags mean different options in different subcommands, nil differs from empty, stderr and reports are text | the command is the one the caller asked for and reaches only its objects; no answer hides an object |
| daemon: `cmd/beanstore/main.go`, `storage/storage.go` | where startup is, the thin pool | load, `Setup`, recover, serve, drain, stop | crash between two commands, a pool it created itself, SIGTERM at any step | serves only a pool that transfers are safe in, comes up when it can, ends when told |
| configuration: `config/config.go` | three layers | `Load`, `validate`, `parsePoolSize` | layers mix key by key, 64-bit products | configured TLS is never off, the pool has the size asked for |
| authorisation and TLS: `api/authz.go`, `api/tls.go` | the server's credentials | handshake, `authorize` | two interceptors, certificates with several roles | every handler runs for a role that may call it |
| capacity verbs: `ResizeVolume`, `GetNodeStatus`, `ListVolumes` | volume sizes | look up, then one command | the check is stale when the command runs | no volume shrinks under its user, the scan is whole |
| logging, test PKI, generated client | none that changes | – | – | – |

Interactions.  The source of a push calls `QueryTransfer`, `Receive`,
`CommitTransfer`, `QueryVolume` and `AbortTransfer` of the target.  Verbs,
goroutines, gRPC handlers and timers of one node share LVM, and, under one
mutex each, the transfer table, the reservations, the pins and the operation
table.  Recovery runs before the node serves and leaves COMMITTING volumes to a
resolver goroutine.

## 2. The modules

| module | models | composed with |
|---|---|---|
| `Authority` | what a cluster promises about one volume: one owner, handed on while detached, gone only when deleted | abstract specification, implemented by `Move` |
| `Move` | the move protocol of one volume between any nodes | refines `Authority` (`OneOwner`) |
| `Transfers` | the transfer table of one target, lock region by lock region | the inside of a target of `Move` |
| `Stream` | the contents of one transfer, chunk by chunk | the stream step of `Move` |
| `Rollback` | one volume's rollback and its recovery, command by command | |
| `Volumes` | the verbs of one node on a volume, a snapshot and a copy | |
| `Lvm` | package `lvm`: from a call to a command line, and from its outcome to an answer | used by `Node` |
| `Node` | the daemon as a process: configuration, setup, transport, roles, capacity verbs, stop | extends `Lvm`; its resize is the command `Lvm` renders |
| `MoveSafetyProofs`, `MoveOwnerProofs` | theorems about `Move`: types and the inductive invariant; ownership and refinement | the second extends the first |
| `TransfersProofs`, `StreamProofs`, `RollbackProofs`, `VolumesProofs` | theorems | extend the module they are about |
| `LvmProofs`, `NodeProofs` | lemmas about the library, theorems about the daemon and the library together | `NodeProofs` extends `Node` and `LvmProofs` |
| `MCMove`, `MCTransfers`, `MCStream`, `MCRollback`, `MCVolumes`, `MCNode` | instances for TLC | extend the module they instantiate |

### Move

`state[n]`, `transfer[n]` and `active` are what LVM of node `n` says about the
volume; they survive `Crash(n)`.  `job[n]` and `attempt[n]` are the goroutine
that works on it, `session[t]` the entry of transfer `t` in the table of its
target `prepared[t]`, `call[t][k]` the `k`-th `CommitTransfer` request of the
push.  A request that arrives runs on the target by itself (`CommitVerifies`,
`CommitLands`, `CommitFinishes`, or a failure) while its caller waits, retries
or has given up.  `Restart` is `Recover` followed by the start of the resolver.

Three constants say how unkind the environment is:

* `Linger`: a commit request may still be served after its caller gave up;
* `DestroyRaces`: the grace timer or an abort may destroy the session while a
  commit runs;
* `EarlyDelete`: the orchestrator deletes the target's copy although a source
  still is COMMITTING towards it.

### Transfers

All transfers carry the same volume id, the only case in which they can harm
each other.  `table`, `committed`, `streaming`, `timer`, `open` are the fields
of `Transfers` and its sessions; `prepare`, `commit` and `destroy` are the
program counters of the handlers.  `timer[t]` can hold a `"leaked"` timer:
`armGrace` overwrites the pointer to a timer that may still run.  `Overlap`
lets handlers of the same transfer interleave; without it, they run one after
the other while handlers of different transfers still interleave.

### Stream

A byte is 0 or 1, a chunk has `Chunk` bytes, the device may end in a short
chunk.  The digest is the list of chunks it was fed plus the size, that is,
sha256 is taken as injective.  `Drop` cuts a connection: the
target notices at once, or its handler still reads a prefix of what was in
flight and keeps the stream slot until it meets the cut (`lingered`).

### Rollback

`vstate`, `vdata` and `temp` are the lv of the volume and of its temporary
copy.  One step per lvm command of the handler (`Sweep` to `RetagCopy`) and of
recovery (`List` to `BootRetag`).  `creator` is a verb that creates an lv under the
id, each check a step of its own and in the order of the code: `PrepareReceive` asks
for the reservation and then for the lv (`PrepareUnreserved`, `PrepareLooksUp`),
`CreateVolume` the other way round, `CreateVolumeFromSnapshot` and `CreateSnapshot`
ask for the lv only; `Creates` is the `lvcreate`.  `raced` records that `Attach` or
`Detach` came between two steps of a rollback, or that a creating verb took the name
while it was free; the properties of the passing run speak of histories without such a race
(section 5 says what happens in the others).

### Volumes

Each handler is a check followed by its commands.  `tags[x]` is a *set* of
state tags, since `lvchange --deltag a --addtag b` on an lv that lacks `a` just
adds `b`.  `Callers` says when the orchestrator makes its next call: `"racing"`
callers do not wait, which is what the code allows; `"polling"` callers wait for the
answer or the end of the operation.  Exports overlap with each other and with every
verb under both.

### Lvm

An operation is a row of a table: its subcommand, the flag of each option, the
flags every call has, its positional arguments and how it is addressed.
`Refused` holds the checks a call meets before any command, `Render` is
`command`, `metadataCommand`, `appendSelector` and the operation's own appends.
A command line is a function from flags to values, not text; a value keeps what
can go wrong with it, which is its unit, the y/n of a flag and zero as opposed
to absent.  `Call`, `Run`, `Return` are one call of a program that uses the
library: `Run` is one lvm command or none, `Return` is `Client.run`, `classify`
and the report parsers.

lvm is external.  `Common` and `Own` say which option a flag is in a subcommand,
`Parses` which command lines it takes, `Reach` which objects they address,
`Resized` which size they leave: written after lvm's manual pages and
independently of the table of operations, so that `AsAsked` compares the two.
The library runs with several versions of lvm, and where they differ the model takes
either: `OldRejects` are the three forms that the library's comments and tests know
2.03.16 to reject (`--errorwhenfull` with a new pool, `--setautoactivation` with a new
thin volume, `--devices` with `pvck --dump`), and in `Resized` only an active lv that is
resized without `-f` and without `-r` is sure to keep its size; an inactive one, or one
resized with its filesystem, may shrink or not.

### Node

`pc` is where `run()` of `main.go` is, one value per fallible step: `load`,
`setup` (the vg), `pool`, `create`, `reread`, `recover`, `listen`, `creds`,
`register`, `ready`, `serve`, `drain`.  `cfg` is what `validate` makes of the
three layers, `pool` the lv under the pool's name, `seen` the free space Setup
read.  `Fails` is an error return at any step, `Crash` a kill, `Restart` is
systemd, `Signal` is SIGTERM, which cancels the context the commands take.
`OtherAdmin` uses lvm beside the daemon, also between the creation of the pool and
the look at it.  While it serves, `Serve` is a handler
of any service for any certificate; a unary one ends by itself (`Served`), a stream
when its client lets it (`StreamServed`), since `Send` waits for a client that does not
read.  `vols` has the state, the size and the device of each lv.  `ResizeVolume`,
`LookUp`, `Resize` and `GetNodeStatus`, `Scan`, `Sent` are two verbs command by command, and
`OtherVerb` changes the volume's state between any two of their steps.
Recovery itself is in `Move`, `Transfers`, `Rollback` and `Volumes`.

## 3. What TLC checks

Deadlock is checked in `MCNode`.  The other instances may come to rest, because
an orchestrator need not call.  Every module has one type invariant, on its own
or as a conjunct of the first property below.

| run | instance | properties | distinct states |
|---|---|---|---|
| `MCMove` | 3 nodes, 2 transfers, 2 attempts, 3 faults | `SingleCopy`, `RestsInactive`, `NeverLost`, `OneOwner` | 807 k |
| `MCMoveLive` | 2 nodes, 2 transfers, 2 attempts, 2 faults | `MovesEnd` | 232 k |
| `MCMoveLinger` | as above with `Linger` | `SingleCopy` violated | – |
| `MCMoveGrace` | as above with `DestroyRaces` | `NeverLost` violated | – |
| `MCTransfers` | 3 transfers, limit 2, 1 fault, 1 restart | `LimitHolds`, `NoOrphan`, `OwnVolume`, `LandedStays` | 363 k |
| `MCTransfersOverlap` | 1 transfer, 2 commits, `Overlap` | `AnswersTrue`, `IdsSpent`, `SessionsEnd` | 503 k |
| `MCStream` | contents of 1 and 5 bytes, chunk 2, 3 attempts, 2 drops, 1 write error | `Integrity`, `NoFalseLoss`, `Continues`, `StreamEnds` | 868 k |
| `MCStreamWrite` | two chunks, 1 write error | `LossIsReal` violated | – |
| `MCRollback` | 3 tries, 4 faults, 2 crashes | `NothingLost`, `CrashesHeal`, `OKMeansDone`, `CallEnds` | 134 k |
| `MCVolumes` | a clone and an export, 1 fault, 1 crash, polling callers | `AttachedActive`, `SnapshotsRest`, `DoneMeansDone`, `OperationsEnd` | 172 k |
| `MCVolumesExport` | an export that names an attached volume | `AttachedActive` violated | – |
| `MCNode` | 2 devices, sizes to 3; 12 pool sizes, 4 free spaces, 2 resizes, 1 fault | `AsAsked`, `NeverInvalid`, `AbsenceReal`, `ShrinkOnlyAsked`, `SafePool`, `Authorised`, `ResizeSafe`, `StartsWhenSafe`, `StopEnds` | 694 k |

What the properties say:

* **`SingleCopy`, `NeverLost`, `OneOwner`** (Move).  Two nodes never hold a
  usable copy, and no node holds one while another waits for a commit that has
  not landed; the last copy goes only by a delete; the protocol implements
  `Authority` with the owner mapped to the node that is READY, ATTACHED,
  PUSHING, or COMMITTING with its commit not yet landed.  `RestsInactive`: no
  detached volume keeps a device.
* **`LimitHolds`, `NoOrphan`, `OwnVolume`, `LandedStays`** (Transfers).  The
  limit holds; an INCOMING volume has a session that will end it; a transfer
  removes or readies only the volume it created; a READY volume is not removed
  by the table.
* **`AnswersTrue`, `IdsSpent`, `SessionsEnd`**.  OK from `CommitTransfer` means
  that this transfer's retag ran, however two commits, an abort and the timers
  interleave; an ended id stays ended; every session ends.
* **`MovesEnd`** (Move): `JobsEnd` for the source's goroutine and `SessionsEnd`
  for the target's session.
* **`Integrity`, `NoFalseLoss`, `Continues`, `StreamEnds`** (Stream).  A committed
  copy is identical and the queried offset covers only written bytes; a copy
  whose writes all succeeded is never DATA_LOSS; a resumed stream is refused only
  when an older handler ran on; the stream ends.
* **`NothingLost`, `CrashesHeal`, `OKMeansDone`, `CallEnds`**
  (Rollback).  The volume or its copy exists, boot leaves a usable volume and no
  copy, OK means the snapshot's content, calls end.  `NameHeld`, that no verb that asks
  for the reservation takes the id while the rollback runs, is false (section 5).
* **`AttachedActive`, `SnapshotsRest`** (Volumes).  However verbs, exports and crashes
  interleave, an attached volume keeps its device and a snapshot has one only while it is
  read.  **`DoneMeansDone`, `OperationsEnd`**, of callers that wait for answers: DONE is
  true, operations end.  A caller who makes a snapshot beside a delete of its volume finds
  the snapshot there after the delete is DONE.  `OneState`, `ReaderKeepsSnapshot` and
  `OwnCopy` (one state tag per lv, snapshots kept for their readers, a clone removes only
  its own copy) are false (section 5).
* **`AsAsked`** (Lvm): what lvm reads in a command line is exactly what the
  caller set, in bytes where bytes were meant, on exactly the objects addressed
  within the scoping of the call or else the client.  **`NeverInvalid`**:
  `ErrInvalidCommand` reaches only a caller who lists no device for one of the
  three operations that need one (`CreateVolumeGroup`, `ExtendVolumeGroup`,
  `ImportClonedVolumeGroup`), uses `All` with `lvremove` or `lvchange`, or uses one of
  the three forms of `OldRejects`.  **`ShrinkOnlyAsked`**: whatever the size expression and
  the options, an active lv is shrunk only by `ReduceLogicalVolume`, or together with its
  filesystem (`ResizeFilesystem`), and `ExtendLogicalVolume` shrinks none.
* **`AbsenceReal`** (Lvm and Node): `ErrNotFound` is not a denied access, an
  answered list and an answered status lack no object.
* **`SafePool`** (Node): the daemon serves only a pool whose chunks divide a
  frame, and one it creates has the size the configuration asks for.
  **`Authorised`**: the transport is the configured one and handlers run only
  for roles that may call them.  **`ResizeSafe`**: a volume that has its device never gets
  smaller, and a resize that is answered OK has just left the size it asked for.  That
  it stays (`ResizeKept`) is false (section 5).  **`StartsWhenSafe`**: a node with a good
  configuration and pool comes up again through faults.  **`StopEnds`**: one that is told
  to stop ends, if its clients let their streams end.

### Bounds

`PushAttempts` is 5 in the code.  Two attempts give a first, a repeated and a
last request, each with its own fate; a third in `Stream` lets a drop meet the
handler of an earlier drop.  `MaxFaults` 3 in `Move` covers a lost answer, a
crash and a failed command in one history; two transfers are a move there and
back, or a retry of a failed move, and the third node the case that a volume is
moved on.  Five bytes with chunks of two have a full, an inner and a short last
chunk; the contents put zero and non-zero chunks in every order.  `Rollback` with `Tries` 3 and 4 faults
exhausts the retries, and with 2 crashes a crash also hits recovery; the
theorems remove these bounds.  The names of the bounds are the constants
starting with `Max`, `PushAttempts`, `Tries`, `Calls`, `Exports`,
`Contents`, `Resizers`, `Requests` and `DeviceLists`; a bound that is a conjunct of a guard has a comment that
starts with `bound:`.

`Node` scales numbers: a word holds 1024 values, K is 4, a whole is 10, so that
every suffix, a product that wraps and a percentage that rounds to nothing
happen.  A configuration file has at most one bad or missing key besides the
pool size, TLS and insecure, which take all combinations.  Calls are made where
no pool is created, and of them only the two resizes and the volume's other
verbs overlap, since the others share nothing; a handler that is only admitted
comes before them.  `MCNode` tries every option alone,
all together and none, with every target; scoping and autobackup vary with the
options left out, sizes only for the operations that take one, and two messages
at a time on stderr.  The daemon and the library share no variable of their
state, so `MCNode` runs either of them and not the product.

### Fairness

Liveness is checked under weak fairness of what runs by itself: the push
goroutine, a commit being served, the delete goroutine, an armed timer, and the
restart of a crashed daemon (`Move`; `packaging/beanstore.service` has
`Restart=on-failure`); handlers, timers and `destroy` (`Transfers`); both ends
of the stream (`Stream`); the handler and the boot (`Rollback`); the goroutines
of operations (`Volumes`); startup, unary handlers, the goroutine that
waits for the signal, and systemd (`Node`).  No verb is ever assumed to be called.
A stream of `Node` has no fairness: it may wait for its client for ever, and `StopEnds`
says what holds if none does; nor has an export of `Volumes`, where no operation waits
for one.
`Transfers` takes strong fairness for `Detach`: a stream may go on with
frames for as long as it has some, but frames advance the offset up to the
volume's size, so it ends.  Two things are assumed and not enforced by the
code: an RPC to a peer that vanished returns (calls have no deadline and
connections no keepalive), and a crashed target comes back, without which a
COMMITTING source asks for ever.

## 4. What is proved

All theorems are checked by TLAPS to the last leaf.  They hold for every value of
the constants that satisfies the named assumption of the module (`MoveAssumption`,
`TransfersAssumption`, ...: numbers are natural, counts positive, null values are
not nodes or ids), so for any number of nodes, transfers, calls, attempts, faults,
crashes, drops and any content, where the runs have small ones.  Every inductive
invariant was first checked with TLC on the instance of the module's run, `VerbsInv` of
`Volumes` with racing callers too.

| module | theorem | states | under |
|---|---|---|---|
| `MoveSafetyProofs` | `TypeCorrect` | `[]TypeOK` | – |
| | `OneCopyServes` | `[]SingleCopy` | `Calm` |
| | `RestingIsInactive` | `[]RestsInactive` | `Calm` |
| `MoveOwnerProofs` | `LastCopyStays` | `NeverLost` | `Calm` |
| | `MoveRefinesAuthority` | `OneOwner`, the refinement of `Authority` | `Calm` |
| `TransfersProofs` | `LimitIsKept`, `OkIsTrue`, `IdsAreSpent` | `[]LimitHolds`, `[]AnswersTrue`, `IdsSpent` | any interleaving |
| | `NoOrphanLeft`, `OnlyItsOwn`, `ReadyIsKept` | `[]NoOrphan`, `OwnVolume`, `LandedStays` | `~Overlap` |
| `StreamProofs` | `CopyIsExact` | `[]Integrity` | – |
| | `OnlyWritesLose` | `[]NoFalseLoss` | – |
| | `ReconnectContinues` | `[]Continues` | – |
| `RollbackProofs` | `RollbackLosesNothing`, `RecoveryHeals` | `[]NothingLost`, `[]CrashesHeal` | – |
| | `OKIsDone` | `OKMeansDone` | – |
| | `RollbackTypeCorrect` | `[]TypeOK` | – |
| `VolumesProofs` | `VolumesTyped`, `SnapshotsComeToRest` | `[]TypeOK`, `[]SnapshotsRest` | any callers |
| | `AttachedIsActive` | `[]AttachedActive` | any callers, exports name snapshots |
| | `DoneIsDone` | `DoneMeansDone` | polling callers |
| `NodeProofs` | `NodeTyped`, `PoolSafety`, `AccessSafety` | `[]NodeTypeOK`, `[]SafePool`, `[]Authorised` | – |
| | `ResizeSafety`, `AbsenceSafety` | `ResizeSafe`, `[]AbsenceReal` | – |
| | `CommandSafety`, `CommandAccepted` | `[]AsAsked`, `[]NeverInvalid` | – |
| | `ShrinkSafety` | `ShrinkOnlyAsked` | – |

The conditions in the last column are needed: they exclude exactly the races of
section 5, where a run that expects a violation, or the constant named there, shows what
happens without them.  `Calm` is `~Linger /\ ~DestroyRaces /\ ~EarlyDelete`.  "Polling
callers" is `Callers # "racing"`: they wait for the answer, or the end of the operation,
before the next verb, while exports overlap with each other and with every verb, and the
cleanup of a clone overlaps with the verbs after it.  Crashes, lost and repeated calls,
failed commands and dropped streams are in every theorem.

### The arguments

**Move.**  `SingleCopy` alone is not inductive: whether a source may go back to READY
depends on what is in flight.  `MoveInv` adds

* `TagsInv`: a push names a transfer of its own, prepared on a node, and spends it;
* `JobInv`: the goroutine is where LVM says it is, leaves a commit only when no
  request of it can still run, and has the right idea of whether it landed;
* `CallInv`: one request of a transfer runs, on a live session, for a COMMITTING
  source, and what is true on the target at each of its steps;
* `TargetInv`: the target holds the volume exactly when the commit landed.  This is
  what makes the answer of `QueryVolume` right, and each of the three constants breaks
  one conjunct of it or of `CallInv`.

There is one lemma per action.  For the refinement, `NextOwner` shows that every
step leaves the set of owners alone, hands it from the source to the target
(`CommitLands`), empties it (a delete), or changes whether the owner is in use; the
mapping takes the one member of `Owners`.

**Transfers.**  For `LimitHolds` the invariant is that the live rows of the table are
finite in number and within the limit, since `PrepareReceive` counts and reserves in
one lock region.  `CommittedInv` ties an OK answer and the committed mark to the
retag that landed.  `TableInv` is one `Row` per transfer: one handler at work
(`OneHandler`), an unused id has nothing (`Unused`), a handler at work has a live
session (`InTable`), the device is closed before the deactivation (`Closed`), a
handler about to touch the volume made it (`HasVolume`), and an INCOMING volume has
its session (`NotOrphaned`).  A step about one transfer leaves the rows of the others
alone unless it touches the shared volume (`RowStep`).

**Stream.**  `ShapeInv`: what is in flight are whole chunks of the source at their
places.  `OrderInv`: streams follow each other, and a stream whose call failed is cut
before its end.  `CarriedInv` is the crux: in every stream a handler may read, all
bytes after the target's offset that are not zero are carried before the message
that would move the offset past them, also when an older handler moves the offset
meanwhile.  `BytesInv`: the device has the source's byte or zero.  So a copy that is
committed is identical, whatever the digest says; the digest only has to accept it,
which is `DigestInv` with `NoFalseLoss`: without a failed write it is the list of
the source's chunks up to the offset, zero runs filled in.  `SteadyInv` is the order of
the frames when no handler outlives its connection; it gives `Continues`.  The lemmas
on `ChunkAt`, on frames and on multiples of `Chunk` come first.

**Rollback.**  Each property depends on what the handler and the recovery know at
every step.  The inductive invariant is

    IInv == TypeOK /\ (~raced => Held /\ RollbackKnows /\ BootKnows /\ NoFaultYet)

`Held` says what LVM can hold until a verb races (no lv under the id implies that the
tagged copy exists).  A creating verb may be anywhere between its checks: what it found
does not matter, because the name is free only during a rollback or after a failed one,
and taking it then is the race.  `RollbackKnows` is the crux of the safety
argument: the volume is READY from `create` to `remove`, so the copy exists
when the volume is removed; the copy is alone in `look` and `rename`; the retag
hits the renamed copy.  `BootKnows` says that `listed`, read once, still tells
whether the volume exists when the copy is judged: recovering the volume itself
does not change that.  `NoFaultYet` adds that, before the first failed command,
a state at rest has a usable volume and no copy.

**Volumes.**  `VerbsInv` holds for every kind of caller: handlers are at steps of their
own (`StepsInv`); the volume may have any set of state tags, the snapshot and the copy
only one (`TagsInv`); the pin count of an lv is the number of readers that hold it
(`PinsInv`, by the library's facts on cardinality); a device is there unless a verb is
about to make or has just removed it (`VolDevice`), and that of the snapshot only while a
reader is (`SnapDevice`): the reader that brings the count to zero deactivates, so when
another is left, it still comes.  `CallsInv` adds what polling callers give: one verb runs
(`OneVerb`), besides a clone that is only cleaning up behind its answer (`Behind`); an
operation whose goroutine is not yet behind its answer is pending (`PendingInv`), so a
caller who polls does see that it runs; and a delete that has marked leaves no snapshot to
be used (`MarkedInv`), which is where a racing `CreateSnapshot` would break `DoneMeansDone`.

**Node and Lvm.**  The theorems are about `NodeSpec`, the daemon and a program that
uses the library in any interleaving; `MCNode` checks a part of its behaviours, as
section 3 says.  `NodeInv` is a conjunction over what each stage has established:

* `ConfigInv`: from Setup on the configuration is one that `validate` took, with all
  TLS files or none, insecure exactly without them, and a pool size parsed from the
  one asked for.  That holds of every merge of the layers (`MergedKnown`,
  `ValidateSafe`);
* `PoolInv`: at `reread` the pool is the one just made, and from `recover` on its
  chunk was checked, whoever made it.  `SafePool` follows by arithmetic:
  `ChunkDivides`, and `PercentClose`, which bounds what dividing before multiplying
  loses by the percentage;
* `TransportInv` and `PeerInv`: the credentials follow the configuration, and a running
  handler was admitted under them; `RoleNamed` gives the OU behind the role;
* `VolumesInv` and `ReplyInv`: the lvs, and that an answer of the library is the
  translation of its command's outcome;
* `CallInv`: the call is one its operation can be given, and lvm hears only of calls
  that passed `Refused`.

`AsAsked` is proved in two halves over all 49 rows.  Settings: each row `Says` to its
subcommand the option it is for and no other, reading the flag in lvm's own table
(`AllReadable`); a rendered value is taken for the value it was, unit and y/n included
(`TakenRendered`); the flags of every call `Means` the `Intent` of its operation
(`AlwaysMean`); since settings distribute over the flags of a line, the options given
come back (`OptionsBack`), whatever set of them it is.  Objects: `ReachAsAsked`, from
the order call, client, devices file in `Scope`.  The set of requests is a constant
(`Requests`, `DeviceLists`) of which only `RequestsAssumption` is assumed, that a
request sets options of its operation, each to one value; the run takes every option
alone, all together and none.  `NeverInvalid` comes from `Accepted`: per operation, the
form lvm requires (`Formed`) and the number of arguments (`Argued`, `ArgsLength`).

`OldForms` adds the calls whose line is one of `OldRejects`: what a line means is the
caller's options and the operation's intent, and no intent has the options at issue.

`ResizeSafe` and `ShrinkOnlyAsked` rest on `ResizeUnforced`: no option of
`ResizeLogicalVolume` renders `-f`, and only `ResizeFilesystem` renders `-r`, so an active
lv keeps its tail (`NotForced`); the daemon gives no option at all (`ResizeGrows`).
`AbsenceReal` rests on the order of
`stderrPatterns`: the denial comes first (`DeniedFirst`).

### Only model-checked

* Liveness (`MovesEnd`, `SessionsEnd`, `StreamEnds`, `CallEnds`, `OperationsEnd`,
  `StartsWhenSafe`, `StopEnds`): fairness and ENABLED are outside this prover.
* That sha256 tells contents apart is assumed in `Stream`, not proved.

## 5. Where code and claims disagree

Four runs show it; `PROJECT.json` quotes the sentences.

* `MCMoveLinger`: `settlePush` asks the target with `QueryVolume`, hears
  "not committed", then aborts and reverts to READY.  A commit request it gave
  up on may be served between question and abort: both nodes are READY.
* `MCMoveGrace`: `Commit` leaves the grace timer armed until `finish`.  Fired
  after the retag, `destroy` still finds the session live and removes the READY
  volume, while the source retires its copy.  A commit that is slow to sync and
  a short grace period are enough.
* `MCStreamWrite`: `Write` feeds the digest before `WriteAt`; if that fails the
  chunk is fed again by the reconnect and a complete copy is refused.
* `MCVolumesExport`: `Export` pins and releases also what it refuses; the
  release deactivates an attached volume whose device nobody holds open.

Races without a run of their own, and how to see them:

* `Move`, `EarlyDelete = TRUE`, `SingleCopy`: the target's copy is deleted or
  moved on before the source resolved; "absent" then reads as "not committed"
  and the source comes back to life.
* `Transfers`, `Overlap = TRUE`, `NoOrphan`: an abort between the reservation
  and the `lvcreate` of `PrepareReceive` leaves an INCOMING volume without
  session until the next boot.  Same constant, `OwnVolume`: `destroy` removes by
  name outside the lock and can hit the volume of a later transfer; and
  `LandedStays`, the table's view of `MCMoveGrace`.
* `Stream`, `Continues` without `lingered`: the queried offset is stale when the
  handler of a dropped stream still applies frames; the resumed stream is then
  refused and the push given up.  No data is harmed.
* `Node`, `Resize`: the state is looked at before the command, so a push that
  starts in between has its volume resized while PUSHING, although
  `README.md` says "a verb in the wrong state is refused, never absorbed".
* `Node`, `CreatePool`: a pool so large that lvm gives it chunks above 1 MiB is
  created, then refused by `checkChunkSize`, and by every restart after it.
  A `pool_size` whose product does not fit 64 bits wraps without an error.
* `Node`, `Environments`: the nested TLS keys cannot be set by `BEANSTORE_`
  variables, since the name of the variable becomes a flat key.
* `Node`, `Ready`: a SIGTERM before `Serve` makes `Serve` return an error and the
  daemon exit with 1.  And `Register` says "The context must outlive the server",
  but `main` passes the one the signal cancels, so background operations lose
  their context while `GracefulStop` still drains.
* `Lvm`, `NeverInvalid`: `All` with `lvremove` and `lvchange`, and the three operations
  that need devices with an empty list of them, reach lvm as command lines it rejects, while the comment of
  `ErrInvalidCommand` leaves only a bug in the library or bad selection criteria.
  `lvremove` and `vgremove` change metadata but go through `command`, so the
  client's autobackup does not reach them.  The forms of `OldRejects` fail with older lvm
  although the library offers the options.
* `Rollback`, `NameHeld` on the instance of `MCRollback`: `PrepareReceive` asks for the
  reservation before a rollback makes it and looks for the lv after the rollback removed
  it, so both checks pass and it takes the id, although the reservations are there "so
  the creating verbs cannot take an id while it is briefly unclaimed in lvm"
  (`rollback.go:16-18`).  The rename fails and the copy is all that is left of the volume;
  the next boot finds an lv under the id and takes the copy for a leftover.  `CreateVolume`
  asks in the other order and needs two rollbacks in a row for the same.
* `Rollback`, properties without `~raced`: `CreateVolumeFromSnapshot` and
  `CreateSnapshot` do not look at the reservations and can take the id between
  remove and rename; after a rollback that failed past the point of no return
  the id is free for `CreateVolume`; an `Attach` between the state check and the
  remove loses its volume.
* `Volumes`, `Callers = "racing"`, `OneState`: an attach and a delete both find READY and
  both retag.  The volume is ATTACHED and DELETING and the delete goes on to remove it,
  although "a verb in the wrong state is refused, never absorbed".  Same callers,
  `DoneMeansDone`: a snapshot made while a delete of its volume runs outlives the delete.
* `Volumes`, `ReaderKeepsSnapshot` on the instance of `MCVolumes`: an export pins between
  the pin check and the remove of `DeleteSnapshot` (`volumes.go:262-266`), finds the
  snapshot, and loses it, although `pushsnapshot.go:33-34` pins first "so a racing delete
  cannot slip between them".  A forced delete looks at the pins once as well.
* `Volumes`, `OwnCopy` on the same instance: a clone reports FAILED before its cleanup
  removes its target by name; a volume that the caller creates in between goes with it.
* `Node`, `ResizeKept` on the instance of `MCNode`: two resizes to 3 and to 2 of a READY
  volume of size 1 pass their checks; the second command shrinks what the first was
  answered OK for, where lvm does not ask about an inactive lv, although "volumes cannot
  shrink" (`volumes.go:332`) and "Shrinking prompts and fails" (`lv.go:977`).
* `Node`, `StopEnds` without its premise: an `Export` whose client stays connected and does
  not read never returns from `Send`; `GracefulStop` waits for it, `main` has no timeout
  and no `Stop` after it.  systemd kills the daemon after its own stop timeout, which is
  a `Crash`.

## 6. What is not modelled

* Logging, test PKI and the generated client: no state that changes, or no code
  of the project's own.
* YAML, X.509 and gRPC: libraries; a key is good, bad or missing, a certificate
  verified or not.
* LVM itself: a command is atomic and succeeds or fails without effect.  `Lvm`
  abstracts names to devices and does not split text.
* `GetNodeStatus` counts volumes; its byte counts are floating point.  The size of
  volumes appears in `Stream`, `Lvm` and `Node` only.
* The transfer that `PushSnapshot` runs (it is a reader in `Volumes`); progress
  percentages.
* In `Rollback`, an lv that a caller made under the temporary name; in
  recovery, the lineage tag given to snapshots of older versions
  (`recover.go:54-67`): no property of these modules reads a lineage.
* `Move` has one step for a whole stream attempt and `Transfers` does not look
  into frames: `Stream` does.

Smaller steps of the code that the models leave out, where a neighbouring step has the
same effect on their state:

* `Move`: a second commit that is answered Busy counts as having summed the digest
  (`FirstToSum`; `Transfers` has the answer itself); an `AbortPush` that fails half way
  and a resolver that does not start because `ListVolumes` fails (`resolve.go:24-29`) are
  the failure and the crash before `Restart`, with the volume left as it was; a stream that
  is refused for good (`push.go:308-317`) ends like one that used up its attempts; a
  `GetVolume` that fails after the activation (`push.go:98-101`) ends like the activation
  that fails.
* `Transfers`: a leaked and a current grace timer of one session share a program counter,
  so their two destroys do not run side by side.  With `Overlap = FALSE` the daemon's own
  timer does not fire during a commit either; what it does then is `MCMoveGrace`.
* `Stream`: Busy retries of a commit are a wait; an offset plus a length is not taken
  modulo 2^64 (`transfers.go:185`), which a frame of a real volume does not reach; a
  failed `WriteAt` writes nothing of its chunk, and the chunk is written again before the
  offset passes it.

## 7. Plan

Done: every component above but those of section 6, their runs, and every safety
property of the runs as a theorem.  Next, in this order:

1. extend: the transfer of `PushSnapshot`; a composition of `Transfers` and
   `Stream` in which the digest decides the commit; snapshots in `Rollback` shared
   with the verbs of `Volumes`;
2. prove the same of those, with the invariants above as lemmas.

## 8. Running it

    tlc -config MCMove.cfg MCMove        # and so on, one .cfg per run
    tlapm MoveSafetyProofs.tla           # and so on, one per *Proofs module

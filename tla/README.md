# Catapult server: TLA+ models, model checking and proofs

TLA+ modules that model the parts of the catapult server where several threads
or processes share state, the TLC configurations that check them on small
instances, and theorems about them that TLAPS has checked for every instance.
`PROJECT.json` maps every definition to the lines it models and lists the
hazards and what covers them. Paths below are relative to `src/`
(`catapult/...` stands for `src/src/catapult/...`).

## 1. The system and its parts

A node is one server process. An optional broker process reads what the server
spools to disk and feeds a database. A recovery process runs when lock files
show that one of the others did not end properly.

| Part | State | Operations | What is hard about it |
|---|---|---|---|
| disruptor (`catapult/disruptor`) | ring of elements, one barrier per level, count of active elements | `processElement`, one thread per consumer level, inspector, completion, `shutdown` | several producers; a slot is reused while the last level still completes its element; skipping |
| reader-writer lock (`catapult/utils/SpinReaderWriterLock.h`) | one 16-bit atomic word | `acquireReader`, `promoteToWriter`, the two guard destructors | compare-exchange on stale words, carries between packed fields, two promotions at once |
| block chain sync consumer (`catapult/consumers`) | storage, cache, score | `preprocess`, unwind, compare scores, execute, `commitAll` | many steps under nested locks, then many files in sequence |
| cache (`catapult/cache`) | sub caches, height, detached deltas | `createView`, `createDelta`, `rebase`, `tryLock`, `commit` | sub caches are locked and committed one at a time |
| unconfirmed transactions (`catapult/cache_tx`, `chain/UtUpdater`) | pool, detached cache | add, update after a block, revert | two threads update one pool; rebase in the middle |
| harvesting (`extensions/harvesting`) | last block, facade, pending flag | build a block | three reads at three moments |
| commit checkpoints (`extensions/sync`, `catapult/extensions/LocalNodeStateFileStorage`) | `commit_step.dat`, `state/`, `state.tmp/`, spool | save, move, publish | a stop between any two file operations |
| recovery (`catapult/local/recovery`) | all files | repair spooling, load, replay, move, reset, save | works on what an earlier process left, and may itself stop |
| block storage, file queue (`catapult/io`) | block files and index, message files and three indexes | save, drop, move; write, read, skip | index and data are written separately; two processes use one queue |
| broker | reader index, database | ingest | reads while the server writes |
| chain synchronizer (`catapult/chain`) | unprocessed elements, dirty flag, pending flag | start, compare, pull, add, remove, clear | callbacks of the dispatcher from another thread; the local chain changes during a round |
| partial transactions (`extensions/partialtransaction`) | aggregates and cosignatures | update, check completeness, refresh, purge | check under one lock, act under another, in many tasks at once |
| connections (`catapult/net`, `catapult/ionet`, `catapult/extensions`) | writers, reserved identities, known nodes with ages and bans | connect, accept, check out, broadcast, close, age, ban, prune, select | callbacks and timeouts in any order, also after their socket was replaced |
| ledger: core system and plugins (`plugins`, `catapult/chain`, `catapult/model`, `catapult/observers`) | one or two sub caches each | validators; observers that notify or undo; block execution, rollback, harvesting | undo must restore what notify changed, with pruning, expiry and several transactions of one block |
| the rest | | | stateless, sequential or I/O; reasons in `PROJECT.json` |

The synchronizer pulls blocks from peers over the connections and hands them to
the block dispatcher. The block and transaction dispatchers run the consumers.
The sync consumer executes blocks on the ledger, changes the storage and the
cache and tells the `UtUpdater`. The harvester reads the cache and the pool and
feeds its block back to the block dispatcher. The partial transactions updater
hands complete aggregates to the transaction dispatcher. The commit writes the
files from which recovery and the broker work. Storage, cache, pools and the
known nodes are guarded by `SpinReaderWriterLock`.

## 2. Modules

| Module | Models | Used by |
|---|---|---|
| `ConsumerDispatcher` | the disruptor, one shared memory access per step | refines `OrderedPipeline` |
| `OrderedPipeline` | what a dispatcher promises: every accepted input goes once, in order, through the levels up to the one that aborts it, and is reported once, in order | |
| `SpinReaderWriterLock` | the lock on its packed word, one atomic operation per step | refines `ReaderWriterLock` |
| `ReaderWriterLock` | what the lock promises | `ChainState` builds its lock steps from its operators |
| `ChainState` | sync, transaction and harvesting threads over storage, cache and pool | composition |
| `CommitRecovery` | the commit, boot, shutdown, broker and recovery, file operation by file operation, with crashes | composition |
| `ChainSynchronizer` | the synchronizer task, the chain comparison, and the block dispatcher by its promise | composition |
| `PtUpdater` | the partial transactions cache and the tasks that update it | |
| `PacketWriters` | the container of the connections and the callbacks on it | `PeerConnections` |
| `PeerConnections` | the known nodes and the connect peers task over the writers | composition |
| `LedgerCache` | the sub caches as one record, cache mixins, identifier groups, core notifications | every ledger module |
| `Namespaces`, `AccountStates`, `Locks`, `Mosaics`, `Multisigs`, `AccountLinks`, `Metadata`, `AccountRestrictions`, `MosaicRestrictions` | one plugin each (`AccountStates` is the core system, `Multisigs` has the aggregate plugin too): notifications, validators, observers | each extends the one before |
| `Plugins` | transfer and hash cache plugins, and which validators and observers exist | `Ledger` |
| `Ledger` | execution, undo and rollback of transactions and blocks; the harvester's facade and strategies | `LedgerChain` |
| `LedgerChain` | the chain of a node with every plugin | composition |
| `ConsumerDispatcherProofs`, `SpinReaderWriterLockProofs`, `PeerConnectionsProofs`, `PtUpdaterProofs`, `ChainSynchronizerProofs`, `CommitRecoveryProofs`, `ChainStateProofs` | theorems and proofs | |
| `ChainStateInvariant` | the lemmas and the first half of the steps of `ChainStateProofs` | `ChainStateProofs` |
| `MC*` | instances for TLC | |

### ConsumerDispatcher

`ppc` and `cpc` are the program counters of producers and consumer threads. A
producer takes `m_addSpinLock` (`AcquireAddLock`), reads the last and then the
first barrier (`ReadMinPosition`, then `RejectFull` or `CountActive`), adds the
element (`Add`) and moves barrier 0 (`Publish`). A consumer thread reads
`m_keepRunning` (`CheckKeepRunning`), its barrier (`ReadBarrier`) and the skip
mark (`CheckSkipped`), calls its consumer (`Consume`), marks an aborted element
(`MarkSkipped`) and moves on (`Advance`). The last level then runs the inspector
and the callback *after* it has moved its barrier (`Inspect`, `Complete`,
`UncountActive`), which is why the capacity test keeps one slot in reserve.
A full ring throws or returns 0 depending on an option; the producer changes
nothing in either case. `MaxElements` bounds the elements that are ever added.

### SpinReaderWriterLock

`ReaderField` and `WriterField` are the numbers of values of the two counters,
2^8 and 2^7 in the code. The arithmetic wraps at the word. `local` is the word a
thread has loaded and will compare with.

### ChainState

A chain is a sequence of blocks above the nemesis block. A sub cache is known by
the chain that it reflects, and a transaction may require or exclude others,
which is all that validation tells apart here. Every acquisition of a lock that
can block is a step, and so is every sub cache of a commit or a copy. Releasing
never blocks, so locks released together are released in one step. The commit
counters by which a detached delta notices that it is outdated are kept. The
loops over blocks and transactions (`TransactionsOf`, `AddAll`, `Apply`,
`Without`) are recursive functions of the number of elements already visited,
which is the form the proofs can reason about.
A fee is below the minimum of this node or not (`LowFee`). The spam throttle lets
everything pass while the pool holds less than a block of transactions; above
that, bonded aggregates (`Bonded`) and reverted transactions are exempt, and for
the others the share of the signer, which depends on importances, is a free
choice (`Throttled`). A full pool refuses everything. Left out: difficulties and
hits (a weight stands for a block's score), and state hashes. `MaxHeight` bounds
harvesting.

### CommitRecovery

The block at a height is identified with the chain that ends in it, a cache
value with the chain whose execution produces it. File operations are atomic and
reach the disk in program order. A stop may come after every step, in the
server or in the recovery. A step is one file operation, with these exceptions:

- a directory is written, or purged, in two steps, whatever the number of its
  files; in between it is incomplete (`Torn`, `PartlyPurged`). A `state.tmp/`
  that does not exist (`Absent`) is told from one without `supplemental.dat`
  (`Missing`), because the recovery tells them apart too;
- a block or a message is written together with the index that counts it, and a
  message is read and removed together with its index, because nobody looks at a
  file that its index does not count;
- the locks and the queue of the broker are left out.

An exception that leaves boot or recovery ends the process without unwinding, so
the lock files stay. The broker is taken to be stopped during a recovery, as a comment in `RepairSpooling.cpp` requires.
`MaxHeight`, `Weights` and `MaxCrashes` are the bounds.

**Crash windows.** Some stops leave a directory that the recovery does not
repair. `Crash` follows the code into them all the same, and records in
`windows` which of eight conditions the files met:

| Window | What was left behind |
|---|---|
| `state` | `state/` purged, `state.tmp/` not yet renamed |
| `height` | `state/` ahead of the block storage |
| `index` | first commit not published, no `index.dat` |
| `unpublished` | messages of a complete commit above `index.dat` |
| `replayed` | a recovery has read messages whose changes are not in `state/` yet; the next one does not see them |
| `staging` | staged blocks partly purged |
| `unlocked` | a recovery stopped after it removed the lock and before it reset `State_Written`, so the server may boot |
| `fork` | without the database, saved or stored blocks of another fork |

The passing properties are stated for behaviours with `windows = {}`. They
therefore say that outside these eight windows the commit is atomic; they say
nothing inside. The `recovery` run does not follow a behaviour beyond its first
window (`OutsideWindows`). That hides no violation: every property is conditional
on `windows = {}`, only `Crash` leads into a window, and no fairness is assumed
of `Crash`, so no fair behaviour is cut off that would have to be seen. Two runs
look at single windows (section 5).

### The ledger

The catapult cache is one record with a field per sub cache. A plugin is three
kinds of operators: transactions that publish notifications, validators of a
notification, and observers from a notification, a context and a cache to the
changed cache. An exception that leaves an observer sets `c.thrown` and nothing
after it happens. `Ledger` publishes an entity, resolves its aliases, validates
and observes notification after notification, and undoes them in the opposite
order, with the observers of each notification reversed as well. `LedgerChain`
has three actions: a valid block is executed, the last block is rolled back, and
the harvester builds a block. An exception that leaves a rollback or an
execution drops the delta and ends the behaviour. Each action is one step because
it works on a delta that nobody else sees until it is committed; the interleaving
of these threads is the subject of `ChainState`.

Abstractions: an address and its public key are one value, a name is its id, a
hash or a secret is a value, sets stand for bit fields; receipts, state hashes
as numbers, serializers and the touch observers of the caches are left out.
Blocks are one unit of time apart and the hash cache is pruned at every block.
Where the registration order of plugins is free, one order is chosen. Where
`std::sort` leaves the order of equal elements open, `Candidates` allows every
order. `RollbackBlock` goes as deep as the sync consumer does: once it has begun
to undo blocks (`unwinding`), up to `MaxRollbackBlocks + 1` of them below the
height the chain had (`peak`), one more than pruning relies on. The deadline of a
bonded aggregate has a limit of its own (`MaxLifetimeOf`). `skewed` is history:
the accounts whose thresholds may be wrong since a rollback (section 5).

### ChainSynchronizer

A block is identified with the chain that it ends. `sync` is the round of the
task: `ShouldStartSync`, then either the comparison (`LocalHeight`,
`LocalScore`, `CompareChainInfos`, `LocalHashes`, `CompareHashes`) or the
expansion of what is in the dispatcher (`Expand`), then `PullBlocks` until the
fork is covered, `Add`, `ClearPendingSync`. Every read of the local chain or of
the queue is a step of its own, because the code takes and gives back a lock
around each. `RemoteError` is a failure of any request. The dispatcher is a
queue of inputs whose completions come in order, which is what
`OrderedPipeline` promises and the `dispatcher` run checks; `Push` is any other
producer, `Accept`, `Commit` and `Abort` the consumers. The local score changes
before the local storage does, as in `commitAll`.

`sync.base` and `sync.failed` are history: the element on top of which the round
pulls blocks, and whether it has failed.

### PtUpdater

A task of the pool is a record with a program counter, and the pool is a bag of
them, so that identical tasks are counted. A step is one stretch under the lock
of the cache. While a task validates cosignatures one by one it keeps its view,
which keeps writers out (`CanModify`); the chain state it validates against may
change all the same. A state of the chain is what it makes of cosignatories:
which are eligible, which are required, and whether validation fails for another
reason. `added`, `handed`, `accepted` and `excused` are history.

### PacketWriters and PeerConnections

A writer is a peer, a socket and whether it is available. An io that was checked
out, and a broadcast that is not yet written, keep a reference to their socket;
sockets are used again only when nobody refers to them, as with shared pointers.
The callbacks of an io come in any order: an error before or after its timeout,
the timeout handler after the completion handler, the destructor after both.
`Accept` mixed with `StartConnect` is the case that `PacketWriters.cpp:130` calls
a failsafe that is currently unused.

The connect peers task reads the identities, ages the nodes, selects, closes,
connects, waits for every result and records it, while nodes are added and
pruned. All nodes have the service role. Ages and failure counts stop at the
limits they are compared with. The iterator that hands out the writers in turn
is abstracted to any available writer, and the weights to any selection of the
right number.

## 3. Runs

| Run | Instance | Checks |
|---|---|---|
| `dispatcher` | 2 producers, 2 levels, 3 slots, 5 elements | `TypeOK`, `NoSlotRace`, `SlotHoldsPosition`, `ActiveCount`, `ImplementsPipeline`, `EveryInputCompletes`, `ShutdownJoins` |
| `lock` | 3 threads, 2 and 4 counter values | `TypeOK`, `MutualExclusion`, `WordCountsGuards`, `ImplementsLock`, `PromotionServed` |
| `recovery` | database and broker, or neither; height 3, weights 1 and 3, 3 crashes | `NodeConsistent`, `RecoverySucceeds`, `ReplicaFollows`, `CommitIsAtomic`, `ComesBack` |
| `recovery_reorganization`, `recovery_ignored_messages` | database and broker, 1 crash | violated, section 5 |
| `chain_state` | 4 transactions with a dependency and a conflict, one with a low fee and one bonded, a pool of 2, 2 sub caches, 4 peer chains, one of them invalid | `StorageAgreesWithCache`, `ViewConsistent`, `PoolValid`, `HarvestedBlockValid`, `NoTransactionLost`, `EveryThreadReturns` |
| `chain_state_reverted` | same | violated, section 5 |
| `ledger` | twelve networks of one plugin or two that interact, heights up to 7, blocks of up to 2 transactions | `OnlyPrunedNamespacesThrow`, `RollbackRestores`, `SupplyConserved`, `LookupsAgree`, `MultisigGraphValid`, `LinksSymmetric`, `RestrictionsEscapable`, `ConfirmedOnce`, `ImportanceBounded`, `HarvestedBlockExecutes` |
| `synchronizer` | two branches up to height 4, rollback of 1, ring of 2, one push of another producer | `CompletionsMatch`, `NoRangeBehindFailure`, `CatchesUp` |
| `partial` | 2 aggregates, room for one in the cache, 2 signers, 5 tasks, one change of the chain | `HandedOnce`, `LastAdderCompletes` |
| `partial_refresh` | one aggregate, 3 signers, 4 tasks, one change of the chain | violated, section 5 |
| `network` | 3 peers, 2 sockets, 2 known nodes, 1 wanted connection, 2 ios | `NoIdentityStuck`, `CheckedOutOnce` |

Why the bounds are enough to be interesting:

- Five elements lap a ring of three, so stale reads of the barrier meet reused
  slots. Two levels let one abort what the other must skip.
- With two reader values and three threads the reader counter is used up to its
  carry: one more reader makes the word look as if a writer were pending, and the
  next one waits. Three threads fit the four writer values.
- Three crashes include a crash of the recovery that follows a crash, and one of
  the server or the recovery after that. Height 3 and
  two weights give forks that are shorter, equal and longer than the local chain.
- The local chain has two light blocks, so one heavy block of a peer reverts both.
  One transaction needs another and excludes a third, so the order in which a pool
  is rebuilt matters. The pool has room for two, the throttle starts at one, and
  one of the transactions pays too little, so each reason to give up a transaction
  can apply. Three peer chains improve on each other
  and one returns to an earlier block, so a harvester can build on a chain that
  the node has left in between.
- In each network of `ledger` entries are created, changed, expire, are pruned
  and rolled back across the pruning: durations, grace period, retention time and
  history sizes are a few blocks, and the heights exceed their sum. Rollbacks are
  of up to three blocks with a limit of two. In `expired namespaces` a root is
  registered again between its expiry and its pruning, in `settings` an account
  without an entry changes its thresholds. The harvest network has transactions
  that fail after others were applied, or that leave something behind when they
  are undone (`Undoable`), and its three strategies drop some of them.
- A fork one block deep against a limit of one, and answers of two blocks, make
  the synchronizer expand a range that is still processed; the ring of two is full
  when the other producer pushes.
- Five tasks cache an aggregate, add both of its cosignatures, and leave two that
  race with the completion, cache the aggregate again, or meet a full cache with
  the other aggregate. The chain may change to a state that needs one signer
  only, or in which validation fails, so that a refresh and a purge come in
  between. Both properties are also proved without these bounds.
- Two nodes and three peers force pruning; two sockets let a socket be closed,
  the peer connect again over the other, and the callbacks of the first come late.
  Nodes are dynamic or static; with nodes of incoming connections as well
  (`NodeSources = {0, 1, 2}`, 3.1 million states) both properties hold too.

Deadlock is checked in `lock`, `chain_state`, `synchronizer` and `network`. It is
not checked for the dispatcher, which may be shut down, for recovery, where the
crashes and the chains run out, for the ledger, where the heights run out, and
for the partial transactions, where the tasks run out.

**Fairness.** Consumer threads, and threads that want or hold a lock, are weakly
fair: the operating system schedules them, and nothing promises that one
compare-exchange wins against others. Producers, peers and harvesting are not
fair: nothing obliges them to start. A spin lock gives no fairness to a single
thread, so `PromotionServed` promises that *some* waiting thread is served.
`EveryThreadReturns` relies in addition on finitely many transactions and
chains that improve on the local one; with unlimited work of others a spin lock
could starve a thread. In `CommitRecovery` a running process goes on and the
operator restarts it; `ComesBack` needs two recoveries in memory mode, because
the first may end with heights that differ.

In `ChainSynchronizer` the task is scheduled again and its local steps and the
dispatcher's threads are weakly fair. The answers of the peer and the acceptance
of a range are strongly fair: a request that is repeated forever is answered in
the end, and a valid range is not aborted forever. `CatchesUp` would be false
without these two, and also with unlimited pushes of others, which can fill the
ring whenever the synchronizer tries, so `MaxPushes` bounds them. It is checked
with equal scores of all blocks and an attempt that is longer than the rollback
limit, as in the shipped configuration.

`EveryThreadReturns` is where the locks meet: when the height lock is taken
shared instead of exclusively in `commit`, TLC finds a deadlock of all three
threads, which the exclusive height lock prevents.

## 4. Theorems

`tlapm` proves these for all values of the constants, from the named
assumptions in the component modules.

| Theorem | Statement |
|---|---|
| `TypeCorrect` | `Spec => []TypeOK` of the dispatcher |
| `SlotRaceFreedom` | `Spec => []NoSlotRace` |
| `SlotIntegrity` | `Spec => []SlotHoldsPosition` |
| `ActiveCountCorrect` | `Spec => []ActiveCount` |
| `LockExcludes` | `Spec => []MutualExclusion` |
| `LockCounts` | `Spec => [](TypeOK /\ WordCountsGuards)` |
| `LockRefines` | `Spec => ImplementsLock` |
| `IdentitiesReleased` | `Spec => []NoIdentityStuck` |
| `CheckOutsExclusive` | `Spec => []CheckedOutOnce` |
| `CompletedOnce` | `Spec => []HandedOnce` |
| `CompletionNotMissed` | `Spec => []LastAdderCompletes` |
| `DispatcherRefines` | `Spec => ImplementsPipeline` |
| `QueueMatchesDispatcher` | `Spec => []CompletionsMatch` of the synchronizer |
| `FailureStopsExpansion` | `Spec => NoRangeBehindFailure` |
| `StorageMatchesCache` | `Spec => []StorageAgreesWithCache` of `ChainState` |
| `CopiesAreOneState` | `Spec => []ViewConsistent` |
| `PoolStaysValid` | `Spec => []PoolValid` |
| `HarvestedBlocksFit` | `Spec => []HarvestedBlockValid` |
| `NothingIsLost` | `Spec => NoTransactionLost` |
| `CommitAtomic` | `Spec => CommitIsAtomic` of `CommitRecovery` |
| `BlocksAreDurable` | outside of the crash windows, a node between two commits stores the blocks of the last commit that passed `State_Written`, and nothing is staged |

*Dispatcher.* `NoSlotRace` is not inductive: it says nothing of what a producer
knew when it was let in. `IndInv` adds that the add lock serializes producers
(`LockInv`, `AddedInv`), that barriers are ordered by level (`BarrierInv`), that
a stale `minPosition` is only ever too small (`CapacityInv`), that the ring holds
the last `Capacity` elements (`RingInv`) and what the callback has completed
(`CompletedInv`, `CountInv`). Two positions less than a lap apart lie in
different slots (`ModInjective`), and the rest is one lemma per action.
Assumptions: at least one level and one slot, and `None` is no producer.

*Lock.* `IndInv` says that the word is the sum of the three counts, each within
its width, that readers and writers exclude each other, and that a word a
promoting thread compares with has no reader and no active writer in it.
Assumptions: a finite set of threads, non-empty fields, and fewer threads than
the writer counter has values (`WritersFit`). Section 5 shows that the last one
is needed. The number of readers needs no assumption.

*Connections.* `CheckedOutOnce` is not inductive: with two open ios of one
socket, or two writers of one socket, completing one would free what the other
holds. `WriterInv` adds that a socket has one writer and at most one open io
(`OneOwner`), and is proved for the writers in an environment that may connect
to any peer and close any connection at any time (`WriterNext`);
`NextIsWriterNext` then shows that every step of `PeerConnections` is a step of
that environment or leaves the writers alone. No assumption on the constants.

*Partial transactions.* `HandedOnce` needs that an aggregate in the cache has
been handed over less often than it was cached (`Accounts`). `LastAdderCompletes`
needs only that the pool is a bag of tasks, each about one transaction
(`TasksTyped`): a task that adds the last cosignature goes on to look itself, and
between its look and its removal the cache can only lose the aggregate. Lemmas
on bags say which tasks a step leaves in the pool. No assumption on the
constants.

*Pipeline.* The ring forgets an element when its slot is used again, and the
pipeline forgets nothing, so the refinement needs a relation between the two.
`HistoryInv` says that a level was given exactly what it has reached and no
earlier level has aborted (`DeliveredInv`), that the skip flag in the ring tells
whether somebody has aborted the element while the ring holds it (`FlagInv`),
that an element is aborted only by a level that has reached it (`RejecterInv`),
and what a thread knows about the element at its position (`ElementInv`). It is
kept together with `IndInv` of the dispatcher, from which it follows that no two
threads work on one element before they advance (`DistinctElements`). Then four
actions are steps of the pipeline (`Publish`, `Consume`, `MarkSkipped`,
`Complete`) and the others leave it alone.

*Synchronizer.* `CompletionsMatch` says that there is an increasing enumeration
of the synchronizer's own inputs in the dispatcher that matches the queue of
unprocessed elements, id by id. Added to it: the ids in the ring are consecutive
modulo their number (`IdsConsecutive`), so no two inputs in the ring share one; a
round is pending until it clears the flag (`RoundPending`); while a round
pulls, nothing is queued behind the range it builds on (`BaseIsLast`), and the
failure of that range stays visible in the dirty flag until the round ends
(`FailureKnown`). The last one is the argument of the code: the element the
round builds on is the last one, so when it completes the queue is empty, and
nothing else can clear the flag before the round does. Assumptions: blocks are
sequences over the branches and there is a nemesis block (`BlocksAssumption`);
sizes are naturals and the ring is no larger than the range of the ids
(`SizesAssumption`; in the code an id has 64 bits).

*Chain state.* None of the five properties is inductive. Besides the types,
`IndInv` has nine parts. `LockInv` says which locks a thread holds at which place, so that
no two threads are in one critical section. `IndexInv` says where a walk over the
sub caches stands. `InputInv` relates the input of the block consumer to the
chain. `CacheInv` says that the sub caches and the height follow the storage
except while blocks are committed, when the sub caches before the current one are
at the new chain and the others at the old one. `DetachedInv` and `FacadeInv` say how much of a copy
has been made and that it agrees with the cache there. `PoolInv` says that the
pool executes on the confirmed state and is what the detached cache has applied,
`UpdateInv` what is handed to the `UtUpdater`, and `HarvestInv` that a harvested
block executes on the chain it names if that is the one it was built on. `IndInv` holds in the
`chain_state` instance, where TLC checked it before it was proved. There is a
lemma for every action (`LockPoolStep` to `GenerateBlockStep` in
`ChainStateInvariant`, the block consumer in `ChainStateProofs`), on top of lemmas
about the operators: `ApplyFacts` (what is applied to a sound pool keeps it sound,
and what is dropped was refused at its turn for one of the four reasons
`NoTransactionLost` names: its fee, a full cache, the throttle, or because it was
not valid), `AddAllFacts`,
`WithoutFacts`, `TransactionsFacts`, `Split`. These are about loops of any
length. The library's induction theorems cannot be used for them, because they
take an operator as a parameter; `LeastNatural` gives induction over a *set* of
numbers instead (`SegmentInduction`), and `RecursiveFunction` that a recursive
function over a segment is defined by its equations. The assumptions give the
constants their types (`ChainStateAssumption`, `ChainsAssumption`,
`SizesAssumption`). Nothing is assumed of the chains, the dependencies of the
transactions, the weights or the limits.

`HarvestedBlockValid` is as strong as it can be. That a harvested block which links
to the chain *always* executes is not true, which came out when its proof failed:
the facade may be opened while the node is on another chain of the same height,
and the node may then continue on the first one. The block is then built on the
state of a chain that it does not name, and the block consumer refuses it by its
transactions or its state hash. The instance has this case (a peer's `D`, then
`B`, then `DA`), and the theorem says that it is the only one.

*Commit and recovery.* `CommitIsAtomic` is about the block files, `commit_step.dat`
and the lock only, and so is its invariant; the state directories, the spool and
the caches take part in no argument. Outside of the crash windows `IndInv` says
which process runs at which place and what this says of the lock and of the
checkpoint (`ProcessInv`), that the block storage is one chain (`StorageInv`), what
a commit has staged so far (`CommitInv`), that before the checkpoint nothing of
another chain stays staged except while a commit runs or its remains are still to
be purged (`StagingInv`), that past the checkpoint every block of the durable chain
is in one of the two storages until all of them have been moved (`WrittenInv`), how
far a move has come (`MovingInv`), and that the chain the files stand for is the
durable one. The last part alone is not inductive: it does not say that a block
which is no longer staged has been stored. Steps that touch no block file share
one lemma (`QuietStep`); there is one per action for the others. Assumptions: the
constants have their types, and weights are positive. The theorems hold for any
number of crashes, chains of any length and both configurations; `IndInv` holds in
the `recovery` instance, where TLC checked it first.

Only model-checked:

- All liveness properties: fairness and `ENABLED` are out of the prover's reach.
- `NodeConsistent`, `RecoverySucceeds` and `ReplicaFollows` of `CommitRecovery`. They
  depend on the state directories, the caches and the spool as well, and an
  inductive invariant would have to describe these after every step of the commit
  and of the recovery. What they say of the blocks is `BlocksAreDurable`.
- The ledger. Its modules use `Bitwise`, which is defined by a `RECURSIVE` operator
  and keeps the prover's SMT backend from working on them.

## 5. Disagreements between the code and what it says

| Run | The code | What is written |
|---|---|---|
| `recovery_reorganization` | a stop while the blocks of a fork are moved leaves a state above the storage; recovery throws | "both blocks and state have been written out to disk and can be fully restored" (`catapult/consumers/BlockChainSyncConsumer.cpp:259`) |
| `recovery_ignored_messages` | `commit_step.dat` is written before `index.dat`; after a stop between them the messages of a finished commit are dropped | "data in range (index.dat, index_server.dat] is safe to ignore" (`catapult/local/recovery/RepairSpooling.cpp:108`) |
| `chain_state_reverted` | reverted transactions are re-applied newest block first; one that depends on an older reverted block is dropped | "3. add back reverted txes" (`catapult/chain/UtUpdater.cpp:96`) |
| `partial_refresh` | a refresh writes back the cosignatures found eligible under an earlier view; one accepted in between is dropped | "a state change caused one of the previously accepted cosignatures to be invalid, so reprocess all of them" (`extensions/partialtransaction/src/chain/PtUpdater.cpp:336`) |

### Further observations

These were met while modelling. The first group happens in the passing run
`ledger`, and its properties name them as the only exceptions.

- **Depth of a rollback.** The test in `BlockChainSyncConsumer.cpp:156-159`
  compares the difference between the local height and the *first* block of the
  peer, so `MaxRollbackBlocks + 1` blocks can be dropped;
  `model/BlockChainConfiguration.h:66` says "Maximum number of blocks that can be
  rolled back." Pruning relies on the smaller number: locks that expired in the
  lowest of these blocks are gone, and their refunds are not taken back
  (`Refunded`). At this depth a pruned lock can also be added again, because
  uniqueness asks `contains`. (In the synchronizer: `RollbackBounded` as a property
  of `synchronizer`, with `MaxBlocksPerSyncAttempt = BlocksPerAnswer = 3`.)
- **Namespaces.** An owner registers an expired root again before it is pruned.
  When the chain is rolled back past the pruning, the removal of the root throws
  if it has children (`NamespaceCacheDelta.cpp:135`). An alias of an expired
  namespace still resolves in the block that prunes it, and no longer when this
  block is rolled back, so the undo of a transfer to it throws.
  (`OnlyPrunedNamespacesThrow`.)
- **Undo in the harvester.** A transaction that fails after it introduced an
  account leaves that account in the delta, because undo only queues its removal
  (`ProcessingUndoNotificationSubscriber.cpp:32`);
  `ProcessingNotificationSubscriber.h:46` says "Undoes all executions since
  enableUndo was first called." The harvested block then has a state hash that
  its execution does not reproduce. A block whose other transactions rest on such
  a leftover (an alias to the account, or a multisig modification by a signer whose
  modification was undone) may not even be valid. (`HarvestedBlockExecutes`.)
- **Multisig settings.** Deltas of -1 for an account that is not a multisig account
  pass `MultisigInvalidSettingsValidator.cpp:36-42`, and their rollback creates an
  entry with thresholds of one (`MultisigSettingsObserver.cpp:40`). When the
  rollback goes on past the block that removed the last cosignatory, this entry is
  found and raised again: the thresholds are one too high, and with a single
  cosignatory they cannot be met. (`skewed` in `RollbackRestores` and
  `MultisigGraphValid`.)
- **Account links.** The rollback of a link leaves the remote account as
  `Remote_Unlinked`, whatever it was before (`AccountLinkObserver.cpp:49-50`).
  (`LeftByRollback`.)

The second group can be reproduced with the modules, by changing a constant or
the property of a configuration; the passing runs stay away from these cases, and
say nothing about them.

- **Capacity of the lock.** `SpinReaderWriterLock.h:32` says "128 max writers". The
  field has seven bits, and the 128th simultaneous promotion carries into the flag
  of the active writer: nobody is served any more. (`PromotionServed` with
  `Threads <- TwoThreads` and `WriterField = 2`; with one thread more
  `ImplementsLock` fails too.) The node never has that many threads.
- **Dependent state after recovery.** The recovery replays the changes of the
  cache (`StateChangeRepairingSubscriber.cpp:42`) and not those of the dependent
  state, and saves both. (`DependentStateRestored` in place of the invariant of
  `recovery_reorganization`.)
- **Weight of a banned node.** A node that is pruned while it is being connected
  and added again from an incoming connection can be banned; its unsigned weight
  then wraps around (`NodeSelector.cpp:64-65`). (`WeightIsNotNegative` with
  `NodeSources = {0, 1}`.)
- **The connect peers task.** When a node is pruned while it is being connected
  (`NodeContainer.cpp:201`), recording the result throws
  (`PeersConnectionTasks.cpp:151`) and the task is not scheduled again
  (`Scheduler.cpp:125-131`). `UpdateInteractionsThrows` follows the code into this
  state and fires in `network`.

The others come from reading the code. They follow from the definitions in the
modules where these are modelled, and nothing checks them.

- Synchronizer: `compareChains` reads the emptiness of the queue and its height in
  two sections (`ChainSynchronizer.cpp:267`, `272`).
- Partial transactions: completeness is looked at on arrival only when no
  cosignature is attached (`PtUpdater.cpp:195-196`), so an aggregate that needs none
  and carries only ineligible ones waits for its deadline.
- Connections: an io that timed out makes its writer available before it closes
  the socket (`TimedCallback.h:92-103`). `NodeInteractionsContainer.cpp:72` reads
  the last bucket of a list that may be empty.
- Fees: `ApplyFeeSurplus` subtracts from an activity bucket whether or not the fee
  had been added to it.
- Mosaic restrictions: a first global rule that names a reference mosaic is never
  valid, since `isUnset` wants that reference to be zero
  (`MosaicGlobalRestrictionNotificationFacade.h:66`).
- Importances: `RestoreImportanceCalculator` pops a bucket at an equal height,
  which matters for an account whose raw score is zero.
- Mosaics: the divisibility of a definition is combined by XOR and checked before
  it, so two valid values can combine to one above the maximum.
- Comments: `lock_secret/src/observers/Observers.h:34` says that the proof publisher
  is credited, and the code credits the recipient of the lock;
  `MemoryUtCacheUtils.cpp:71` says "use stable_sort", and the code calls `std::sort`.

## 6. Not modelled

Most of the source lines are serializers, cache plumbing, file formats, command
line tools, configuration and I/O around the parts above. About a tenth of the
lines is modelled; the models are where threads, processes or long sequences of
operations meet, which unit tests reach least. What is outside is not checked.

- **Batch range dispatcher.** It groups queued ranges under a lock and passes them
  to the dispatcher on a timer. To the dispatcher it is one more producer. That a
  batch is dropped when the ring is full (`BatchRangeDispatcher.h:79`) is listed as
  a hazard that no property covers.
- **Sockets, handshakes and readers.** Packet framing, key exchange and the read
  loop of one connection: I/O whose state belongs to one connection. The container
  of the readers is the one of the writers without checkout.
- **Delta sets and trees.** Sequential containers. The ledger modules model a
  cache by the function it denotes and a delta by the changed function, which
  takes the containers to be right; the Patricia tree only adds a hash.
- **Transaction synchronizers.** Stateless pulls; what they receive is an input of
  the transaction thread of `ChainState` and of the tasks of `PtUpdater`.
- **Time synchronization and node discovery.** Time synchronization averages
  samples with weights and a decaying coupling that are doubles, which TLA+
  integers do not express. Node discovery feeds `AddNode` of `PeerConnections`.
- **Cryptography.** Out of reach of model checking at any useful size; signatures,
  hashes and hits are taken to be right.
- **Configuration, plugin loading, thread pools, small extensions.** Read once at
  start-up, or registration of tasks and handlers around the parts above.
- **Database and publisher extensions, sdk, tools.** Writers to other services and
  programs outside the node.

Inside the modelled parts the sections above say what is left out. The main
omissions are difficulty and hit arithmetic, the delegation requests of the
harvester, the shutdown of connections, and the crash windows
of section 2, into which the model goes but about which the passing properties
say nothing.

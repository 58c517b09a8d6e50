--------------------------- MODULE ChainState ---------------------------
(***************************************************************************)
(* The in-memory state of a node and the three threads that change it or   *)
(* read it as a whole: the block consumer (BlockChainSyncConsumer), the    *)
(* transaction consumer (UtUpdater) and the harvester.  They share the     *)
(* block storage, the sub caches of CatapultCache, its height and the      *)
(* unconfirmed transactions, each under its own SpinReaderWriterLock.      *)
(* Every lock that can block is a step; letting go never blocks, so locks  *)
(* that are released together are released in one step.                    *)
(*                                                                         *)
(* A chain is the sequence of blocks above the nemesis block, and a sub    *)
(* cache is known by the chain it reflects.  A transaction is recorded in  *)
(* one sub cache and may need or exclude transactions recorded in others,  *)
(* which is all that validation tells apart here.  What a transaction pays *)
(* is compared with the minimum fee of this node only.  Deadlines,         *)
(* difficulties and block hits are left out: every block hits.             *)
(***************************************************************************)
EXTENDS Integers, Sequences, Functions

CONSTANTS
    Txs,                  \* transactions
    NewTxs,               \* the ones that peers send before they are in a block
    Requires,             \* Requires[t]: what must have been executed before t
    Excludes,             \* Excludes[t]: what must not have been executed before t
    LowFee,               \* the ones that pay less than the minimum of this node
    Bonded,               \* the bonded aggregates
    NumSubCaches,         \* the sub caches are 1 .. NumSubCaches
    Home,                 \* Home[t]: the sub cache that records t
    InitialChains,        \* chains the node may start with
    PeerChains,           \* chains that peers send
    HarvestWeights,       \* difficulties of harvested blocks
    MaxCacheSize,         \* unconfirmed transactions that fit
    MaxTransactionsPerBlock,
    MaxRollbackBlocks,
    MaxHeight             \* bound: harvesting stops at this height

SubCaches == 1 .. NumSubCaches
Threads == {"sync", "tx", "harvest"}

Blocks == [txs : Seq(Txs), weight : Nat]
Chains == Seq(Blocks)

ASSUME ChainStateAssumption ==
    /\ NumSubCaches \in Nat \ {0}
    /\ Home \in [Txs -> SubCaches]
    /\ Requires \in [Txs -> SUBSET Txs] /\ Excludes \in [Txs -> SUBSET Txs]

ASSUME ChainsAssumption ==
    /\ InitialChains \subseteq Chains /\ PeerChains \subseteq Chains
    /\ NewTxs \subseteq Txs /\ HarvestWeights \subseteq Nat
    /\ LowFee \subseteq Txs /\ Bonded \subseteq Txs

ASSUME SizesAssumption ==
    /\ MaxCacheSize \in Nat /\ MaxTransactionsPerBlock \in Nat
    /\ MaxRollbackBlocks \in Nat /\ MaxHeight \in Nat

VARIABLES
    chain,        \* blocks in the storage
    sub,          \* sub[i]: the chain sub cache i reflects
    commits,      \* commits[i]: m_commitCounter of sub cache i
    cacheHeight,  \* m_pCacheHeight
    ut,           \* unconfirmed transactions, oldest first
    detached,     \* the detached cache of the UtUpdater
    locks,        \* who holds each lock
    pc,           \* where each thread is
    index,        \* sub cache that each thread works on
    input,        \* what the block consumer works on
    update,       \* transactions the block consumer hands to the UtUpdater
    arrived,      \* transactions received so far
    utInfos,      \* what the transaction consumer works on
    tip,          \* the chain the harvester builds on
    facade,       \* the detached cache of the harvester
    harvested,    \* the block the harvester has built
    pending       \* m_isAnyHarvestedBlockPending

cacheVars == <<sub, commits, cacheHeight>>
poolVars == <<ut, detached>>
syncVars == <<input, update>>
txVars == <<arrived, utInfos>>
harvestVars == <<tip, facade, harvested>>
vars == <<chain, cacheVars, poolVars, locks, pc, index, syncVars, txVars,
          harvestVars, pending>>

L == INSTANCE ReaderWriterLock WITH holder <- locks.storage

---------------------------------------------------------------------------
(* Blocks and transactions *)

Confirmed(blocks) == UNION {Range(blocks[h].txs) : h \in DOMAIN blocks}

(* The transactions that a set of sub caches knows to be confirmed. *)
StateOf(subs) == {t \in Txs : t \in Confirmed(subs[Home[t]])}

Valid(t, executed) ==
    /\ t \notin executed
    /\ Requires[t] \subseteq executed
    /\ Excludes[t] \intersect executed = {}

(* Stateful validation and execution of a sequence of transactions: each   *)
(* one is valid in the state and after the ones before it.                 *)
Execute(state, txs) ==
    \A n \in DOMAIN txs : Valid(txs[n], state \union {txs[m] : m \in 1 .. n - 1})

(* The transactions of a number of blocks, one block after the other. *)
TransactionsOf(blocks) ==
    LET upTo[h \in 0 .. Len(blocks)] ==
            IF h = 0 THEN <<>> ELSE upTo[h - 1] \o blocks[h].txs
    IN  upTo[Len(blocks)]

LastFirst(blocks) == [h \in 1 .. Len(blocks) |-> blocks[Len(blocks) - h + 1]]

SeqsUpTo(S, n) == UNION {[1 .. m -> S] : m \in 0 .. n}

Score(blocks) == SumFunction([h \in DOMAIN blocks |-> blocks[h].weight])

From(blocks, first) == SubSeq(blocks, first, Len(blocks))
Below(blocks, first) == SubSeq(blocks, 1, first - 1)

(* MemoryUtCacheModifier::add takes a transaction that the cache does not  *)
(* hold while there is room.                                               *)
Add(pool, t) ==
    IF MaxCacheSize <= Len(pool) \/ t \in Range(pool) THEN pool ELSE Append(pool, t)

(* UtUpdater::addAll: every transaction in turn, without validation. *)
AddAll(pool, txs) ==
    LET after[n \in 0 .. Len(txs)] ==
            IF n = 0 THEN pool ELSE Add(after[n - 1], txs[n])
    IN  after[Len(txs)]

(* The spam throttle.  Whether a signer has too many transactions in the   *)
(* cache depends on its importance and on the fee: overQuota are the       *)
(* transactions for which that is so, none when throttling is disabled.    *)
Throttled(pool, source, overQuota, t) ==
    \/ MaxCacheSize <= Len(pool)
    \/ /\ MaxTransactionsPerBlock <= Len(pool)
       /\ source # "Reverted" /\ t \notin Bonded
       /\ t \in overQuota

(* UtUpdater::apply: a transaction that pays enough, is not throttled, can *)
(* be added and is valid stays.                                            *)
ApplyOne(pool, base, source, overQuota, t) ==
    IF /\ t \notin LowFee
       /\ ~Throttled(pool.ut, source, overQuota, t)
       /\ Add(pool.ut, t) # pool.ut
       /\ Valid(t, base \union pool.applied)
    THEN [ut |-> Add(pool.ut, t), applied |-> pool.applied \union {t}]
    ELSE pool

Apply(pool, base, source, overQuota, txs) ==
    LET after[n \in 0 .. Len(txs)] ==
            IF n = 0 THEN pool
            ELSE ApplyOne(after[n - 1], base, source, overQuota, txs[n])
    IN  after[Len(txs)]

(* The transactions of a sequence that are not among the given ones. *)
Without(txs, given) ==
    LET kept[n \in 0 .. Len(txs)] ==
            IF n = 0 THEN <<>>
            ELSE IF txs[n] \in given THEN kept[n - 1] ELSE Append(kept[n - 1], txs[n])
    IN  kept[Len(txs)]

---------------------------------------------------------------------------
NoBlocks == <<>>
NoInput == [chain |-> NoBlocks, start |-> 1, source |-> "none", built |-> NoBlocks]
NoUpdate == [reverted |-> <<>>, original |-> <<>>]
NoHarvest == [chain |-> NoBlocks, built |-> NoBlocks]

Detached(subs, counters, height) ==
    [subs |-> subs, commits |-> counters, height |-> height, applied |-> {}]

NoFacade == Detached([i \in SubCaches |-> NoBlocks], [i \in SubCaches |-> 0], 0)

Init ==
    /\ chain \in InitialChains
    /\ sub = [i \in SubCaches |-> chain]
    /\ commits = [i \in SubCaches |-> 0]
    /\ cacheHeight = Len(chain)
    /\ ut = <<>>
    /\ detached = Detached(sub, commits, cacheHeight)
    /\ locks = [storage |-> L!Unlocked, height |-> L!Unlocked, ut |-> L!Unlocked,
                sub |-> [i \in SubCaches |-> L!Unlocked]]
    /\ pc = [t \in Threads |-> "idle"]
    /\ index = [t \in Threads |-> 1]
    /\ input = NoInput
    /\ update = NoUpdate
    /\ arrived = {}
    /\ utInfos = <<>>
    /\ tip = NoBlocks
    /\ facade = NoFacade
    /\ harvested = NoHarvest
    /\ pending = FALSE

Goto(t, from, to) == pc[t] = from /\ pc' = [pc EXCEPT ![t] = to]

(* A step for each sub cache in turn. *)
ForEachSubCache(t, from, to) ==
    /\ Goto(t, from, IF index[t] = NumSubCaches THEN to ELSE from)
    /\ index' = [index EXCEPT ![t] = IF @ = NumSubCaches THEN 1 ELSE @ + 1]

WithAllSubs(lockset, t, status) ==
    [lockset EXCEPT !.sub = [i \in SubCaches |-> L!With(@[i], t, status)]]

AcquireSub(t, i) ==
    /\ L!CanAcquire(locks.sub[i], t)
    /\ locks' = [locks EXCEPT !.sub[i][t] = "reader"]

(* LockableCacheDelta::tryLock of sub cache i: the delta is of no use when *)
(* the sub cache has been committed since the delta was made.              *)
TryLock(t, delta, from, locked, outdated) ==
    LET i == index[t]
    IN  /\ L!CanAcquire(locks.sub[i], t)
        /\ \/ /\ delta.commits[i] = commits[i]
              /\ locks' = [locks EXCEPT !.sub[i][t] = "reader"]
              /\ ForEachSubCache(t, from, locked)
           \/ /\ delta.commits[i] # commits[i]
              /\ locks' = WithAllSubs(locks, t, "none")
              /\ Goto(t, from, outdated)
              /\ index' = [index EXCEPT ![t] = 1]

(* Fault: the effects of unconfirmed transactions survive a rebase. *)
CopyKeepsApplied(t, delta) ==
    LET i == index[t]
    IN  [delta EXCEPT !.subs[i] = sub[i], !.commits[i] = commits[i]]

(* createDetachedDelta of sub cache i: its lock is held for the copy only. *)
Copy(t, delta) ==
    LET i == index[t]
    IN  [delta EXCEPT !.subs[i] = sub[i], !.commits[i] = commits[i], !.applied = {}]

---------------------------------------------------------------------------
(* The block consumer *)

IsLinked(in) ==
    /\ in.start <= Len(chain) + 1
    /\ in.source = "Remote_Pull" \/ Len(chain) <= in.start

PeerInputs ==
    {[chain |-> c, start |-> s, source |-> source, built |-> Below(c, s)] :
        c \in PeerChains, s \in 1 .. MaxHeight,
        source \in {"Remote_Pull", "Remote_Push"}}

Inputs ==
    {in \in PeerInputs : in.start <= Len(in.chain)} \union
    (IF harvested = NoHarvest THEN {}
     ELSE {[chain |-> harvested.chain, start |-> Len(harvested.chain),
            source |-> "Local", built |-> harvested.built]})

(* Returning from the consumer completes a harvested block. *)
Return(from, source) ==
    /\ Goto("sync", from, "idle")
    /\ input' = NoInput
    /\ update' = NoUpdate
    /\ pending' = (pending /\ source # "Local")

(* preprocess, steps 1 to 3: the storage view is held when they succeed.   *)
(* Difficulties are not modelled, so any input may turn out not to match.  *)
preprocess ==
    \E in \in Inputs :
        /\ L!CanAcquire(locks.storage, "sync")
        /\ harvested' = IF in.source = "Local" THEN NoHarvest ELSE harvested
        /\ \/ /\ IsLinked(in) /\ Len(chain) - in.start <= MaxRollbackBlocks
              /\ locks' = [locks EXCEPT !.storage["sync"] = "reader"]
              /\ input' = in
              /\ Goto("sync", "idle", "createDelta")
              /\ UNCHANGED <<update, pending>>
           \/ /\ Return("idle", in.source)
              /\ UNCHANGED locks
        /\ UNCHANGED <<chain, cacheVars, poolVars, index, txVars, tip, facade>>

createDelta ==
    /\ ForEachSubCache("sync", "createDelta", "unwind")
    /\ AcquireSub("sync", index["sync"])
    /\ UNCHANGED <<chain, cacheVars, poolVars, syncVars, txVars, harvestVars, pending>>

(* unwindLocalChain collects the transactions of the blocks it undoes from *)
(* the last block down; the ones that the peer chain holds too are left    *)
(* out by CollectRevertedTransactionInfos.                                 *)
Reverted ==
    Without(TransactionsOf(LastFirst(From(chain, input.start))),
            Confirmed(From(input.chain, input.start)))

ScoreIsBetter ==
    Score(From(input.chain, input.start)) > Score(From(chain, input.start))

(* preprocess, steps 4 to 6: the storage view is given up at the end. *)
unwindLocalChain ==
    /\ \/ /\ ScoreIsBetter
          /\ Goto("sync", "unwind", "process")
          /\ update' = [NoUpdate EXCEPT !.reverted = Reverted]
          /\ locks' = [locks EXCEPT !.storage["sync"] = "none"]
          /\ UNCHANGED <<input, pending>>
       \/ /\ ~ScoreIsBetter
          /\ Return("unwind", input.source)
          /\ locks' = WithAllSubs([locks EXCEPT !.storage["sync"] = "none"],
                                  "sync", "none")
    /\ UNCHANGED <<chain, cacheVars, poolVars, index, txVars, harvestVars>>

(* IsLinked, the batch processor and CheckStateHash of BlockChainProcessor *)
LinksToLocal == Below(chain, input.start) = Below(input.chain, input.start)
Executes ==
    /\ Execute(StateOf([i \in SubCaches |-> Below(sub[i], input.start)]),
               TransactionsOf(From(input.chain, input.start)))
    /\ input.built = Below(input.chain, input.start)

process ==
    /\ \/ /\ LinksToLocal /\ Executes
          /\ Goto("sync", "process", "storageModifier")
          /\ UNCHANGED <<locks, syncVars, pending>>
       \/ /\ ~(LinksToLocal /\ Executes)
          /\ Return("process", input.source)
          /\ locks' = WithAllSubs(locks, "sync", "none")
    /\ UNCHANGED <<chain, cacheVars, poolVars, index, txVars, harvestVars>>

(* A modifier acquires a reader lock and promotes it at once. *)
AskModifier(t, name, from, to) ==
    /\ Goto(t, from, to)
    /\ L!CanAcquire(locks[name], t)
    /\ locks' = [locks EXCEPT ![name][t] = "waiting"]

HasModifier(t, name, from, to) ==
    /\ Goto(t, from, to)
    /\ L!CanWrite(locks[name], t)
    /\ locks' = [locks EXCEPT ![name][t] = "writer"]

(* Fault: the storage modifier does not promote its lock. *)
storageModifierShared ==
    /\ Goto("sync", "storageModifier", "heightModifier")
    /\ L!CanAcquire(locks.storage, "sync")
    /\ locks' = [locks EXCEPT !.storage["sync"] = "reader"]
    /\ UNCHANGED <<chain, cacheVars, poolVars, index, syncVars, txVars,
                   harvestVars, pending>>

(* commitAll, steps 1 and 2: the blocks are staged under the storage lock. *)
storageModifier ==
    /\ \/ AskModifier("sync", "storage", "storageModifier", "stage")
       \/ HasModifier("sync", "storage", "stage", "heightModifier")
    /\ UNCHANGED <<chain, cacheVars, poolVars, index, syncVars, txVars,
                   harvestVars, pending>>

(* Fault: the height modifier does not promote its lock. *)
heightModifierShared ==
    /\ Goto("sync", "heightModifier", "promoteSub")
    /\ L!CanAcquire(locks.height, "sync")
    /\ locks' = [locks EXCEPT !.height["sync"] = "reader"]
    /\ UNCHANGED <<chain, cacheVars, poolVars, index, syncVars, txVars,
                   harvestVars, pending>>

(* CatapultCache::commit: the height lock keeps whole views out. *)
heightModifier ==
    /\ \/ AskModifier("sync", "height", "heightModifier", "lockHeight")
       \/ HasModifier("sync", "height", "lockHeight", "promoteSub")
    /\ UNCHANGED <<chain, cacheVars, poolVars, index, syncVars, txVars,
                   harvestVars, pending>>

(* SynchronizedCache::commit, once for each sub cache *)
promoteSub ==
    /\ Goto("sync", "promoteSub", "commitSub")
    /\ locks' = [locks EXCEPT !.sub[index["sync"]]["sync"] = "waiting"]
    /\ UNCHANGED <<chain, cacheVars, poolVars, index, syncVars, txVars,
                   harvestVars, pending>>

commitSub ==
    LET i == index["sync"]
    IN  /\ L!CanWrite(locks.sub[i], "sync")
        /\ sub' = [sub EXCEPT ![i] = Below(@, input.start)
                                       \o From(input.chain, input.start)]
        /\ commits' = [commits EXCEPT ![i] = @ + 1]
        /\ locks' = [locks EXCEPT !.sub[i]["sync"] = "reader"]
        /\ Goto("sync", "commitSub",
                IF i = NumSubCaches THEN "setHeight" ELSE "promoteSub")
        /\ index' = [index EXCEPT !["sync"] = IF i = NumSubCaches THEN 1 ELSE i + 1]
        /\ UNCHANGED <<chain, cacheHeight, poolVars, syncVars, txVars,
                       harvestVars, pending>>

(* The end of the cache commit, and SyncState::commit lets go of the delta. *)
setHeight ==
    /\ Goto("sync", "setHeight", "commitStorage")
    /\ cacheHeight' = Len(input.chain)
    /\ locks' = WithAllSubs([locks EXCEPT !.height["sync"] = "none"], "sync", "none")
    /\ UNCHANGED <<chain, sub, commits, poolVars, index, syncVars, txVars,
                   harvestVars, pending>>

---------------------------------------------------------------------------
(* UtUpdater::update(confirmed, reverted), on the thread of the block      *)
(* consumer and still under the storage lock                               *)

(* Fault: the cache is rebased before the unconfirmed ones are locked. *)
RebaseFirst(step) ==
    CASE step = "commitStorage" -> "rebase"
      [] step = "rebase" -> "lockPool"
      [] step = "lockPool" -> "applyAll"

(* The unconfirmed transactions are locked before the cache is rebased. *)
NextUpdateStep(step) ==
    CASE step = "commitStorage" -> "lockPool"
      [] step = "lockPool" -> "rebase"
      [] step = "rebase" -> "applyAll"

commitStorage ==
    /\ Goto("sync", "commitStorage", NextUpdateStep("commitStorage"))
    /\ chain' = Below(chain, input.start) \o From(input.chain, input.start)
    /\ UNCHANGED <<cacheVars, poolVars, locks, index, syncVars, txVars,
                   harvestVars, pending>>

removeAll ==
    /\ \/ /\ AskModifier("sync", "ut", "lockPool", "removeAll")
          /\ UNCHANGED <<ut, update>>
       \/ /\ HasModifier("sync", "ut", "removeAll", NextUpdateStep("lockPool"))
          /\ update' = [update EXCEPT !.original = ut]
          /\ ut' = <<>>
    /\ UNCHANGED <<chain, cacheVars, detached, index, input, txVars, harvestVars,
                   pending>>

(* rebaseAndLock holds the height lock until the new delta is locked. *)
rebase ==
    /\ \/ /\ Goto("sync", "rebase", "rebaseSub")
          /\ L!CanAcquire(locks.height, "sync")
          /\ locks' = [locks EXCEPT !.height["sync"] = "reader"]
          /\ detached' = [detached EXCEPT !.height = cacheHeight]
          /\ UNCHANGED index
       \/ /\ ForEachSubCache("sync", "rebaseSub", "lockSub")
          /\ L!CanAcquire(locks.sub[index["sync"]], "sync")
          /\ detached' = Copy("sync", detached)
          /\ UNCHANGED locks
       \/ /\ TryLock("sync", detached, "lockSub", "rebased", "nullDelta")
          /\ UNCHANGED detached
       \/ /\ Goto("sync", "rebased", NextUpdateStep("rebase"))
          /\ locks' = [locks EXCEPT !.height["sync"] = "none"]
          /\ UNCHANGED <<detached, index>>
    /\ UNCHANGED <<chain, cacheVars, ut, syncVars, txVars, harvestVars, pending>>

(* Reverted transactions come back first, then the ones that were there    *)
(* and that the new blocks do not hold.                                    *)
AddedBack(overQuota) ==
    LET base == StateOf(detached.subs)
        empty == [ut |-> ut, applied |-> detached.applied]
        reverted == Apply(empty, base, "Reverted", overQuota, update.reverted)
        confirmed == Confirmed(From(input.chain, input.start))
    IN  Apply(reverted, base, "Existing", overQuota, Without(update.original, confirmed))

applyAll ==
    /\ \E overQuota \in SUBSET (Range(update.reverted) \union Range(update.original)) :
           LET all == AddedBack(overQuota)
           IN  ut' = all.ut /\ detached' = [detached EXCEPT !.applied = all.applied]
    /\ Return("applyAll", input.source)
    /\ locks' = WithAllSubs([locks EXCEPT !.ut["sync"] = "none",
                                          !.storage["sync"] = "none"],
                            "sync", "none")
    /\ UNCHANGED <<chain, cacheVars, index, txVars, harvestVars>>

sync ==
    \/ createDelta \/ unwindLocalChain \/ process \/ storageModifier
    \/ heightModifier \/ promoteSub \/ commitSub \/ setHeight \/ commitStorage
    \/ removeAll \/ rebase \/ applyAll

---------------------------------------------------------------------------
(* UtUpdater::update(new transactions), on the transaction consumer *)

lockPool ==
    /\ \/ /\ \E t \in NewTxs \ arrived :
                 utInfos' = <<t>> /\ arrived' = arrived \union {t}
          /\ AskModifier("tx", "ut", "idle", "lockPool")
       \/ /\ HasModifier("tx", "ut", "lockPool", "getAndTryLock")
          /\ UNCHANGED txVars
    /\ UNCHANGED <<chain, cacheVars, poolVars, index, syncVars, harvestVars, pending>>

getAndTryLock ==
    /\ TryLock("tx", detached, "getAndTryLock", "applyNew", "addAll")
    /\ UNCHANGED <<chain, cacheVars, poolVars, syncVars, txVars, harvestVars, pending>>

UnlockNew(from) ==
    /\ Goto("tx", from, "idle")
    /\ locks' = WithAllSubs([locks EXCEPT !.ut["tx"] = "none"], "tx", "none")
    /\ utInfos' = <<>>
    /\ UNCHANGED <<chain, cacheVars, index, syncVars, arrived, harvestVars, pending>>

(* No valid delta: a block update is coming and will validate the cache. *)
addAll ==
    /\ UnlockNew("addAll")
    /\ ut' = AddAll(ut, utInfos)
    /\ UNCHANGED detached

applyNew ==
    /\ UnlockNew("applyNew")
    /\ \E overQuota \in SUBSET Range(utInfos) :
           LET all == Apply([ut |-> ut, applied |-> detached.applied],
                            StateOf(detached.subs), "New", overQuota, utInfos)
           IN  ut' = all.ut /\ detached' = [detached EXCEPT !.applied = all.applied]

transactions == getAndTryLock \/ addAll \/ applyNew

---------------------------------------------------------------------------
(* The harvester *)

(* The last block element is read under a storage view of its own. *)
lastBlockElement ==
    /\ Goto("harvest", "idle", "createFacade")
    /\ ~pending
    /\ Len(chain) < MaxHeight
    /\ L!CanAcquire(locks.storage, "harvest")
    /\ tip' = chain
    /\ UNCHANGED <<chain, cacheVars, poolVars, locks, index, syncVars, txVars,
                   facade, harvested, pending>>

(* Fault: the facade reads the height and does not keep its lock. *)
LockFacadeHeightBriefly ==
    /\ Goto("harvest", "createFacade", "copySub")
    /\ L!CanAcquire(locks.height, "harvest")
    /\ facade' = [facade EXCEPT !.height = cacheHeight]
    /\ UNCHANGED <<index, locks>>

(* HarvestingUtFacade: the height lock lives as long as the facade. *)
LockFacadeHeight ==
    /\ Goto("harvest", "createFacade", "copySub")
    /\ L!CanAcquire(locks.height, "harvest")
    /\ locks' = [locks EXCEPT !.height["harvest"] = "reader"]
    /\ facade' = [facade EXCEPT !.height = cacheHeight]
    /\ UNCHANGED index

createFacade ==
    /\ \/ LockFacadeHeight
       \/ /\ ForEachSubCache("harvest", "copySub", "lockSub")
          /\ L!CanAcquire(locks.sub[index["harvest"]], "harvest")
          /\ facade' = Copy("harvest", facade)
          /\ UNCHANGED locks
       \/ /\ TryLock("harvest", facade, "lockSub", "generate", "nullDelta")
          /\ UNCHANGED facade
    /\ UNCHANGED <<chain, cacheVars, poolVars, syncVars, txVars, tip, harvested,
                   pending>>

(* Fault: the height of the facade is not compared with the last block. *)
HeightIsIgnored == TRUE

HeightIsConsistent == facade.height = Len(tip)

CloseFacade ==
    /\ Goto("harvest", "generate", "idle")
    /\ locks' = WithAllSubs([locks EXCEPT !.height["harvest"] = "none"],
                            "harvest", "none")
    /\ facade' = NoFacade
    /\ tip' = NoBlocks
    /\ UNCHANGED <<chain, cacheVars, poolVars, index, syncVars, txVars>>

(* No account hits, or the cache has moved on, or GenerateBlock fails. *)
noBlock ==
    /\ \/ /\ Goto("harvest", "createFacade", "idle")
          /\ tip' = NoBlocks
          /\ UNCHANGED <<chain, cacheVars, poolVars, locks, index, syncVars, txVars,
                         facade>>
       \/ /\ ~HeightIsConsistent
          /\ CloseFacade
       \/ /\ HeightIsConsistent /\ L!CanAcquire(locks.ut, "harvest")
          /\ CloseFacade
    /\ UNCHANGED <<harvested, pending>>

(* Every strategy tries the unconfirmed transactions in some order, keeps  *)
(* what the facade can execute and may cut off the end.                    *)
Selectable ==
    {txs \in SeqsUpTo(Range(ut), MaxTransactionsPerBlock) :
        Execute(StateOf(facade.subs), txs)}

generateBlock ==
    /\ CloseFacade
    /\ HeightIsConsistent
    /\ L!CanAcquire(locks.ut, "harvest")
    /\ \E txs \in Selectable, weight \in HarvestWeights :
           harvested' = [chain |-> Append(tip, [txs |-> txs, weight |-> weight]),
                         built |-> facade.subs[1]]
    /\ pending' = TRUE

harvest == createFacade \/ noBlock \/ generateBlock

---------------------------------------------------------------------------
Next == preprocess \/ sync \/ lockPool \/ transactions \/ lastBlockElement \/ harvest

Spec == Init /\ [][Next]_vars

(* Every thread that is at work goes on.  Nothing obliges peers to send    *)
(* blocks or transactions, nor the node to harvest.                        *)
FairSpec ==
    /\ Spec
    /\ WF_vars(sync)
    /\ WF_vars(pc["tx"] # "idle" /\ (lockPool \/ transactions))
    /\ WF_vars(harvest)

---------------------------------------------------------------------------
(* Properties *)

(* Whoever can obtain a storage view sees blocks that agree with every sub *)
(* cache and with the cache height: commitAll holds the storage modifier   *)
(* from before the cache commit until after the storage commit.            *)
StorageAgreesWithCache ==
    (\A t \in Threads : locks.storage[t] # "writer") =>
        /\ \A i \in SubCaches : sub[i] = chain
        /\ cacheHeight = Len(chain)

(* A cache copied for harvesting or for the unconfirmed transactions is    *)
(* one state, although it is copied and locked one sub cache at a time:    *)
(* no commit comes in between and the copy can always be locked.           *)
(* HarvestingUtFacade and UtUpdater use the locked delta without a check.  *)
ViewConsistent ==
    /\ \A t \in Threads : pc[t] # "nullDelta"
    /\ pc["harvest"] = "generate" =>
           \A i \in SubCaches : facade.subs[i] = sub[1] /\ facade.height = Len(sub[1])
    /\ pc["sync"] = "applyAll" =>
           \A i \in SubCaches : detached.subs[i] = chain /\ detached.height = Len(chain)

Rebasing == {"promoteSub", "commitSub", "setHeight", "commitStorage", "lockPool",
             "removeAll", "rebase", "rebaseSub", "lockSub", "rebased", "applyAll"}

(* The unconfirmed transactions always execute one after another on the    *)
(* confirmed state, their effects are the ones in the detached cache, and  *)
(* each of them pays the minimum fee.  It may be otherwise only while a    *)
(* block update is under way, and only then can a new transaction find the *)
(* detached cache outdated and be added without these checks (addAll).     *)
PoolValid ==
    /\ detached.commits # commits => pc["sync"] \in Rebasing
    /\ pc["tx"] = "addAll" => pc["sync"] \in Rebasing
    /\ pc["sync"] \notin Rebasing =>
           /\ Execute(Confirmed(chain), ut)
           /\ detached.applied = Range(ut)
           /\ Range(ut) \intersect LowFee = {}

Tracked ==
    Range(ut) \union Range(update.original) \union Range(update.reverted)
        \union Confirmed(chain)

(* What a block update tries to add back, in this order *)
Attempted ==
    update.reverted \o Without(update.original, Confirmed(From(input.chain, input.start)))

(* Why the unconfirmed transactions do not hold the i-th one: when its     *)
(* turn came, there were n, all of which had had their turn before.        *)
Refused(i, n, pool) ==
    /\ \A m \in DOMAIN pool : \E k \in DOMAIN Attempted :
           pool[m] = Attempted[k] /\ IF m <= n THEN k < i ELSE i < k
    /\ \/ Attempted[i] \in LowFee
       \/ MaxCacheSize <= n
       \/ MaxTransactionsPerBlock <= n /\ Len(update.reverted) < i /\ Attempted[i] \notin Bonded
       \/ ~Valid(Attempted[i], Confirmed(chain) \union {pool[m] : m \in 1 .. n})

(* A transaction that the node has is in a block or unconfirmed, whatever  *)
(* the two overloads of UtUpdater::update do at the same time.  It is given *)
(* up only by a block update, and only for what is the case at its turn:   *)
(* it pays less than the minimum of this node; the cache is full; the      *)
(* cache holds a block of transactions and the throttle applies to this    *)
(* one, which is neither a bonded aggregate nor reverted; or it cannot be  *)
(* executed after the new blocks and the ones kept before it.              *)
NoTransactionLost ==
    [][\A t \in Tracked : t \notin Tracked' =>
           /\ pc["sync"] = "applyAll"
           /\ \E i \in DOMAIN Attempted, n \in 0 .. Len(ut') :
                  Attempted[i] = t /\ Refused(i, n, ut')]_vars

(* The last block, the cache and the unconfirmed transactions that a       *)
(* harvested block is made of are read at three different moments, yet a   *)
(* block that links to the chain is refused for its transactions or its    *)
(* state hash in one case only: the cache was that of another chain of the *)
(* same height, which the node had switched to when the facade was opened  *)
(* and has left again since.                                               *)
HarvestedBlockValid ==
    pc["sync"] = "process" /\ input.source = "Local" /\ LinksToLocal =>
        IF input.built = Below(chain, input.start)
        THEN Executes ELSE Len(input.built) = input.start - 1

(* No thread waits forever for a lock: every block update, transaction     *)
(* update and harvesting attempt that starts comes to its end.             *)
EveryThreadReturns == \A t \in Threads : []<>(pc[t] = "idle")

(* "3. add back reverted txes" (chain/UtUpdater.cpp:96): when the reverted *)
(* transactions pay enough, fit and can all be executed after the new      *)
(* blocks in some order, the block update adds all of them back.           *)
RevertedAddedBack ==
    [][pc["sync"] = "applyAll" /\ Len(update.reverted) <= MaxCacheSize
          /\ Range(update.reverted) \intersect LowFee = {}
          /\ (\E txs \in SeqsUpTo(Range(update.reverted), MaxCacheSize) :
                  /\ Range(txs) = Range(update.reverted)
                  /\ Execute(Confirmed(chain), txs))
       => Range(update.reverted) \subseteq Range(ut')]_vars
=============================================================================

--------------------------- MODULE ChainStateProofs ---------------------------
(***************************************************************************)
(* The steps of the block consumer keep the inductive invariant of         *)
(* ChainStateInvariant, and what follows from it.                          *)
(***************************************************************************)
EXTENDS ChainStateInvariant

USE ChainStateAssumption, ChainsAssumption, SizesAssumption

-------------------------------------------------------------------------------
(* The block consumer.                                                     *)

\* Only the block consumer moves.
SyncGoes(from, to) ==
    /\ pc["sync"] = from /\ pc'["sync"] = to
    /\ pc'["tx"] = pc["tx"] /\ pc'["harvest"] = pc["harvest"] /\ DOMAIN pc' = Threads

LEMMA SyncGoto ==
    ASSUME IndInv, NEW from, NEW to, Goto("sync", from, to)
    PROVE  SyncGoes(from, to)
BY DEF IndInv, TypeOK, Goto, SyncGoes, Threads

LEMMA StorageModifierStep ==
    ASSUME IndInv, storageModifier
    PROVE  IndInv'
<1> USE DEF IndInv, SyncGoes
<1>1. \/ SyncGoes("storageModifier", "stage")
      \/ SyncGoes("stage", "heightModifier") /\ locks'.storage["sync"] = "writer"
  <2>1. CASE AskModifier("sync", "storage", "storageModifier", "stage")
    BY <2>1, SyncGoto DEF AskModifier
  <2>2. CASE HasModifier("sync", "storage", "stage", "heightModifier")
    BY <2>2, SyncGoto, Modifier DEF Threads
  <2>3. QED
    BY <2>1, <2>2 DEF storageModifier
<1>2. locks' \in Locks /\ locks'.height = locks.height /\ locks'.ut = locks.ut
  BY Modifier DEF storageModifier, OthersKept, Threads
<1>3. UNCHANGED <<chain, cacheVars, poolVars, index, syncVars, txVars, harvestVars, pending>>
  BY DEF storageModifier
<1>4. TypeOK'
  BY <1>1, <1>2, <1>3
  DEF TypeOK, cacheVars, poolVars, syncVars, txVars, harvestVars, SyncLabels
<1>5. LockInv'
  BY <1>1, <1>2 DEF LockInv, StorageWriting, Committing, SyncHasPool
<1>6. IndexInv' /\ InputInv' /\ CacheInv'
  BY ZenonT(30), <1>1, <1>3 DEF IndexInv, InputInv, CacheInv, cacheVars, syncVars, LinksToLocal, Linked,
                    Replaced, Committing
<1>7. DetachedInv' /\ FacadeInv' /\ PoolInv' /\ UpdateInv' /\ HarvestInv'
  BY <1>1, <1>3 DEF DetachedInv, FacadeInv, PoolInv, UpdateInv, HarvestInv, cacheVars, poolVars,
                    syncVars, harvestVars, CopyOf, Rebasing, SyncHasPool, Linked
<1>8. QED
  BY <1>4, <1>5, <1>6, <1>7

LEMMA HeightModifierStep ==
    ASSUME IndInv, heightModifier
    PROVE  IndInv'
<1> USE DEF IndInv, SyncGoes
<1>1. \/ SyncGoes("heightModifier", "lockHeight")
      \/ /\ SyncGoes("lockHeight", "promoteSub") /\ locks'.height["sync"] = "writer"
         /\ locks.height["harvest"] # "reader"
  <2>1. CASE AskModifier("sync", "height", "heightModifier", "lockHeight")
    BY <2>1, SyncGoto DEF AskModifier
  <2>2. CASE HasModifier("sync", "height", "lockHeight", "promoteSub")
    BY <2>2, SyncGoto, Modifier DEF Threads
  <2>3. QED
    BY <2>1, <2>2 DEF heightModifier
<1>2. /\ locks' \in Locks /\ locks'.storage = locks.storage /\ locks'.ut = locks.ut
      /\ locks'.height["harvest"] = locks.height["harvest"]
  BY Modifier DEF heightModifier, OthersKept, Threads
<1>3. UNCHANGED <<chain, cacheVars, poolVars, index, syncVars, txVars, harvestVars, pending>>
  BY DEF heightModifier
<1>4. TypeOK'
  BY <1>1, <1>2, <1>3
  DEF TypeOK, cacheVars, poolVars, syncVars, txVars, harvestVars, SyncLabels
<1>5. LockInv'
  BY <1>1, <1>2 DEF LockInv, StorageWriting, Committing, SyncHasPool
<1>6. IndexInv' /\ InputInv'
  BY <1>1, <1>3 DEF IndexInv, InputInv, syncVars, LinksToLocal, Linked, Replaced
<1>7. CacheInv'
  <2>1. \A i \in SubCaches : ~(i < 1)
    BY DEF SubCaches
  <2>2. QED
    BY <1>1, <1>3, <2>1 DEF CacheInv, IndexInv, cacheVars, syncVars, Committing
<1>8. DetachedInv' /\ FacadeInv' /\ PoolInv' /\ UpdateInv' /\ HarvestInv'
  BY <1>1, <1>3 DEF DetachedInv, FacadeInv, PoolInv, UpdateInv, HarvestInv, cacheVars, poolVars,
                    syncVars, harvestVars, CopyOf, Rebasing, SyncHasPool, Linked
<1>9. QED
  BY <1>4, <1>5, <1>6, <1>7, <1>8

LEMMA PromoteSubStep ==
    ASSUME IndInv, promoteSub
    PROVE  IndInv'
<1> USE DEF IndInv, SyncGoes
<1>1. SyncGoes("promoteSub", "commitSub")
  BY SyncGoto DEF promoteSub
<1>2. /\ locks' \in Locks
      /\ locks'.storage = locks.storage /\ locks'.ut = locks.ut /\ locks'.height = locks.height
  <2>1. index["sync"] \in SubCaches /\ locks \in Locks
    BY DEF TypeOK, Threads
  <2>2. QED
    BY Zenon, <2>1 DEF promoteSub, Locks, Lock, Held, Threads
<1>3. UNCHANGED <<chain, cacheVars, poolVars, index, syncVars, txVars, harvestVars, pending>>
  BY DEF promoteSub
<1>4. TypeOK'
  BY <1>1, <1>2, <1>3
  DEF TypeOK, cacheVars, poolVars, syncVars, txVars, harvestVars, SyncLabels
<1>5. LockInv'
  BY <1>1, <1>2 DEF LockInv, StorageWriting, Committing, SyncHasPool
<1>6. IndexInv' /\ InputInv' /\ CacheInv'
  BY Zenon, <1>1, <1>3 DEF IndexInv, InputInv, CacheInv, cacheVars, syncVars, LinksToLocal, Linked,
                    Replaced, Committing
<1>7. DetachedInv' /\ FacadeInv' /\ PoolInv' /\ UpdateInv' /\ HarvestInv'
  BY <1>1, <1>3 DEF DetachedInv, FacadeInv, PoolInv, UpdateInv, HarvestInv, cacheVars, poolVars,
                    syncVars, harvestVars, CopyOf, Rebasing, SyncHasPool, Linked
<1>8. QED
  BY <1>4, <1>5, <1>6, <1>7

\* The new chain is the one the input names.
LEMMA NewChain ==
    ASSUME IndInv, pc["sync"] \in Linked
    PROVE  Below(chain, input.start) \o From(input.chain, input.start) = input.chain
<1>1. input.chain \in Chains /\ input.start \in 1 .. Len(input.chain) /\ Len(input.chain) \in Nat
  <2>1. pc["sync"] # "idle"
    BY DEF Linked
  <2>2. input.start \in 1 .. Len(input.chain)
    BY <2>1 DEF IndInv, InputInv
  <2>3. input.chain \in Chains
    BY DEF IndInv, TypeOK
  <2>4. Len(input.chain) \in Nat
    BY <2>3 DEF Chains
  <2>5. QED
    BY <2>2, <2>3, <2>4
<1>2. LinksToLocal
  BY DEF IndInv, InputInv
<1>3. input.start \in 1 .. Len(input.chain) + 1
  BY <1>1
<1>4. QED
  BY ZenonT(30), <1>1, <1>2, <1>3, Split DEF LinksToLocal

LEMMA CommitSubStep ==
    ASSUME IndInv, commitSub
    PROVE  IndInv'
<1> USE DEF IndInv, SyncGoes
<1> DEFINE i == index["sync"]
<1>1. i \in 1 .. NumSubCaches /\ SubCaches = 1 .. NumSubCaches
  BY DEF TypeOK, Threads, SubCaches
<1>2. \/ i = NumSubCaches /\ SyncGoes("commitSub", "setHeight") /\ index'["sync"] = 1
      \/ i # NumSubCaches /\ SyncGoes("commitSub", "promoteSub") /\ index'["sync"] = i + 1
  BY ZenonT(30), SyncGoto DEF commitSub, TypeOK, Threads
<1>3. index' \in [Threads -> SubCaches] /\ index'["harvest"] = index["harvest"]
  <2> DEFINE next == IF i = NumSubCaches THEN 1 ELSE i + 1
  <2>1. next \in SubCaches
    BY <1>1
  <2>2. index' = [index EXCEPT !["sync"] = next] /\ index \in [Threads -> SubCaches]
    BY DEF commitSub, TypeOK
  <2> HIDE DEF next
  <2>3. QED
    BY <2>1, <2>2 DEF Threads
<1>4. /\ locks' \in Locks
      /\ locks'.storage = locks.storage /\ locks'.ut = locks.ut /\ locks'.height = locks.height
  BY Zenon, <1>1 DEF commitSub, TypeOK, Locks, Lock, Held, Threads
<1>5. UNCHANGED <<chain, cacheHeight, poolVars, syncVars, txVars, harvestVars, pending>>
  BY DEF commitSub
<1>6. sub' = [sub EXCEPT ![i] = input.chain] /\ commits' = [commits EXCEPT ![i] = @ + 1]
  <2>1. sub[i] = chain
    BY <1>1, <1>2 DEF CacheInv
  <2>2. QED
    BY Zenon, <1>2, <2>1, NewChain DEF commitSub, Linked
<1>7. TypeOK'
  <2>1. sub' \in [SubCaches -> Chains] /\ commits' \in [SubCaches -> Nat]
    <3>1. sub \in [SubCaches -> Chains] /\ commits \in [SubCaches -> Nat] /\ input.chain \in Chains
      BY DEF TypeOK
    <3>2. commits[i] + 1 \in Nat
      BY <1>1, <3>1
    <3> HIDE DEF i
    <3>3. QED
      BY <1>1, <1>6, <3>1, <3>2
  <2>2. QED
    BY Zenon, <1>2, <1>3, <1>4, <1>5, <2>1 DEF TypeOK, poolVars, syncVars, txVars, harvestVars, SyncLabels
<1>8. LockInv'
  BY <1>2, <1>4 DEF LockInv, StorageWriting, Committing, SyncHasPool
<1>9. IndexInv' /\ InputInv'
  BY Zenon, <1>2, <1>3, <1>5 DEF IndexInv, InputInv, syncVars, LinksToLocal, Linked, Replaced
<1>10. CacheInv'
  <2>1. ASSUME NEW j \in SubCaches
        PROVE  sub'[j] = IF j < i + 1 THEN input.chain ELSE chain
    <3>1. sub[j] = IF j < i THEN input.chain ELSE chain
      BY <1>2 DEF CacheInv
    <3>2. sub'[j] = IF j = i THEN input.chain ELSE sub[j]
      BY <1>1, <1>6 DEF TypeOK
    <3>3. QED
      BY <1>1, <3>1, <3>2
  <2>2. \A j \in SubCaches : j < NumSubCaches + 1
    BY SMTT(30), <1>1
  <2>3. QED
    BY <1>2, <1>5, <2>1, <2>2 DEF CacheInv, syncVars, Committing
<1>11. DetachedInv' /\ PoolInv' /\ UpdateInv' /\ HarvestInv'
  BY Zenon, <1>2, <1>5 DEF DetachedInv, PoolInv, UpdateInv, HarvestInv, poolVars,
                    syncVars, harvestVars, Rebasing, SyncHasPool, Linked
<1>12. FacadeInv'
  BY <1>2 DEF LockInv, FacadeInv, Committing, FacadeOpen
<1>13. QED
  BY <1>7, <1>8, <1>9, <1>10, <1>11, <1>12

LEMMA SetHeightStep ==
    ASSUME IndInv, setHeight
    PROVE  IndInv'
<1> USE DEF IndInv, SyncGoes
<1>1. SyncGoes("setHeight", "commitStorage")
  BY SyncGoto DEF setHeight
<1>2. /\ locks' \in Locks /\ locks'.storage = locks.storage /\ locks'.ut = locks.ut
      /\ locks'.height["harvest"] = locks.height["harvest"]
  <2> DEFINE ls == [locks EXCEPT !.height["sync"] = "none"]
  <2>1. /\ ls \in Locks /\ ls.storage = locks.storage /\ ls.ut = locks.ut
        /\ ls.height["harvest"] = locks.height["harvest"]
    BY Zenon DEF TypeOK, Locks, Lock, Held, Threads
  <2>2. locks' = WithAllSubs(ls, "sync", "none")
    BY DEF setHeight
  <2> HIDE DEF ls
  <2>3. QED
    BY <2>1, <2>2, SubLocks DEF Threads, Held
<1>3. UNCHANGED <<chain, sub, commits, poolVars, index, syncVars, txVars, harvestVars, pending>>
      /\ cacheHeight' = Len(input.chain)
  BY Zenon DEF setHeight
<1>4. TypeOK'
  <2>1. cacheHeight' \in Nat
    BY <1>3 DEF TypeOK, Chains
  <2>2. QED
    BY Zenon, <1>1, <1>2, <1>3, <2>1 DEF TypeOK, poolVars, syncVars, txVars, harvestVars, SyncLabels
<1>5. LockInv'
  BY Zenon, <1>1, <1>2 DEF LockInv, StorageWriting, Committing, SyncHasPool
<1>6. IndexInv' /\ InputInv' /\ CacheInv'
  BY Zenon, <1>1, <1>3 DEF IndexInv, InputInv, CacheInv, syncVars, LinksToLocal, Linked,
                    Replaced, Committing
<1>7. DetachedInv' /\ PoolInv' /\ UpdateInv' /\ HarvestInv'
  BY Zenon, <1>1, <1>3 DEF DetachedInv, PoolInv, UpdateInv, HarvestInv, poolVars,
                    syncVars, harvestVars, Rebasing, SyncHasPool, Linked
<1>8. FacadeInv'
  BY Zenon, <1>1 DEF LockInv, FacadeInv, Committing, FacadeOpen
<1>9. QED
  BY <1>4, <1>5, <1>6, <1>7, <1>8

LEMMA CommitStorageStep ==
    ASSUME IndInv, commitStorage
    PROVE  IndInv'
<1> USE DEF IndInv, SyncGoes
<1>1. SyncGoes("commitStorage", "lockPool")
  BY Zenon, SyncGoto DEF commitStorage, NextUpdateStep
<1>2. chain' = input.chain
  BY <1>1, NewChain DEF commitStorage, Linked
<1>3. UNCHANGED <<cacheVars, poolVars, locks, index, syncVars, txVars, harvestVars, pending>>
  BY Zenon DEF commitStorage
<1>4. TypeOK'
  BY Zenon, <1>1, <1>2, <1>3 DEF TypeOK, cacheVars, poolVars, syncVars, txVars, harvestVars, SyncLabels
<1>5. LockInv'
  BY Zenon, <1>1, <1>3 DEF LockInv, StorageWriting, Committing, SyncHasPool
<1>6. IndexInv' /\ InputInv' /\ CacheInv'
  <2>1. input.start <= Len(input.chain) + 1
    BY SMTT(30), <1>1 DEF InputInv, TypeOK, Chains
  <2>2. QED
    BY Zenon, <1>1, <1>2, <1>3, <2>1 DEF IndexInv, InputInv, CacheInv, cacheVars, syncVars, Linked,
                                  Replaced, Committing
<1>7. DetachedInv' /\ FacadeInv' /\ PoolInv' /\ UpdateInv' /\ HarvestInv'
  BY ZenonT(30), <1>1, <1>3 DEF DetachedInv, FacadeInv, PoolInv, UpdateInv, HarvestInv, cacheVars, poolVars,
                    syncVars, harvestVars, CopyOf, Rebasing, SyncHasPool, Linked
<1>8. QED
  BY <1>4, <1>5, <1>6, <1>7

\* Blocks that a peer sends or that were harvested.
LEMMA InputFacts ==
    ASSUME IndInv, NEW in \in Inputs
    PROVE  /\ in \in [chain : Chains, start : Nat \ {0},
                      source : {"none", "Local", "Remote_Pull", "Remote_Push"}, built : Chains]
           /\ in.start \in 1 .. Len(in.chain)
           /\ in.source = "Local" => in.start = Len(in.chain) /\ Harvested(in.chain, in.built)
<1>1. CASE in \in PeerInputs /\ in.start <= Len(in.chain)
  <2>1. PICK c \in PeerChains, s \in 1 .. MaxHeight, source \in {"Remote_Pull", "Remote_Push"} :
            in = [chain |-> c, start |-> s, source |-> source, built |-> Below(c, s)]
    BY <1>1 DEF PeerInputs
  <2>2. c \in Chains /\ Len(c) \in Nat /\ s \in Nat \ {0} /\ s <= Len(c)
    BY <1>1, <2>1 DEF Chains
  <2>3. Below(c, s) \in Chains
    BY <2>2, Parts
  <2>4. QED
    BY <2>1, <2>2, <2>3
<1>2. CASE harvested # NoHarvest /\ in = [chain |-> harvested.chain, start |-> Len(harvested.chain),
                                          source |-> "Local", built |-> harvested.built]
  <2>1. harvested.chain \in Chains /\ harvested.built \in Chains
    BY DEF IndInv, TypeOK
  <2>2. Harvested(harvested.chain, harvested.built)
    BY <1>2 DEF IndInv, HarvestInv
  <2>3. Len(harvested.chain) \in Nat \ {0}
    BY <2>1, <2>2 DEF Harvested, Chains
  <2>4. QED
    BY <1>2, <2>1, <2>2, <2>3
<1>3. QED
  BY <1>1, <1>2 DEF Inputs

\* Returning early from the consumer changes nothing that matters.
LEMMA ReturnStep ==
    ASSUME IndInv, NEW from, from \in {"idle", "unwind", "process"}, NEW source, Return(from, source),
           locks' \in Locks, locks'.height = locks.height, locks'.ut = locks.ut,
           UNCHANGED <<chain, cacheVars, poolVars, index, txVars, tip, facade>>,
           harvested' \in {harvested, NoHarvest}
    PROVE  IndInv'
<1> USE DEF IndInv, SyncGoes
<1>1. SyncGoes(from, "idle")
  BY SyncGoto DEF Return
<1>2. input' = NoInput /\ update' = NoUpdate
  BY DEF Return
<1>3. pc["sync"] \in {"idle", "unwind", "process"}
  BY Zenon, <1>1
<1>4. TypeOK'
  <2>1. /\ NoInput \in [chain : Chains, start : Nat \ {0},
                        source : {"none", "Local", "Remote_Pull", "Remote_Push"}, built : Chains]
        /\ NoUpdate \in [reverted : Seq(Txs), original : Seq(Txs)]
        /\ NoHarvest \in [chain : Chains, built : Chains]
    BY DEF NoInput, NoUpdate, NoHarvest, NoBlocks, Chains
  <2>2. QED
    BY Zenon, <1>1, <1>2, <2>1 DEF TypeOK, cacheVars, poolVars, txVars, SyncLabels
<1>5. LockInv'
  BY Zenon, <1>1, <1>3 DEF LockInv, StorageWriting, Committing, SyncHasPool
<1>6. IndexInv' /\ InputInv' /\ CacheInv'
  BY Zenon, <1>1, <1>3 DEF IndexInv, InputInv, CacheInv, cacheVars, Linked, Replaced, Committing
<1>7. DetachedInv' /\ FacadeInv' /\ PoolInv'
  BY SMTT(30), <1>1, <1>3 DEF DetachedInv, FacadeInv, PoolInv, cacheVars, poolVars, CopyOf, Rebasing, SyncHasPool
<1>8. UpdateInv' /\ HarvestInv'
  BY Zenon, <1>1, <1>2 DEF UpdateInv, HarvestInv, NoUpdate, Linked
<1>9. QED
  BY Zenon, <1>4, <1>5, <1>6, <1>7, <1>8

LEMMA PreprocessStep ==
    ASSUME IndInv, preprocess
    PROVE  IndInv'
<1> USE DEF IndInv, SyncGoes
<1>1. PICK in \in Inputs :
        /\ harvested' = IF in.source = "Local" THEN NoHarvest ELSE harvested
        /\ \/ /\ IsLinked(in)
              /\ locks' = [locks EXCEPT !.storage["sync"] = "reader"]
              /\ input' = in
              /\ Goto("sync", "idle", "createDelta")
              /\ UNCHANGED <<update, pending>>
           \/ /\ Return("idle", in.source)
              /\ UNCHANGED locks
        /\ UNCHANGED <<chain, cacheVars, poolVars, index, txVars, tip, facade>>
  BY DEF preprocess
<1>2. harvested' \in {harvested, NoHarvest}
  BY <1>1
<1>3. CASE Return("idle", in.source) /\ UNCHANGED locks
  <2>1. locks \in Locks
    BY DEF TypeOK
  <2>2. QED
    BY Zenon, <1>1, <1>2, <1>3, <2>1, ReturnStep
<1>4. CASE /\ IsLinked(in) /\ locks' = [locks EXCEPT !.storage["sync"] = "reader"]
           /\ input' = in /\ Goto("sync", "idle", "createDelta") /\ UNCHANGED <<update, pending>>
  <2>1. SyncGoes("idle", "createDelta")
    BY <1>4, SyncGoto
  <2>2. locks' \in Locks /\ locks'.height = locks.height /\ locks'.ut = locks.ut
    BY ZenonT(30), <1>4 DEF TypeOK, Locks, Lock, Held, Threads
  <2>3. /\ in \in [chain : Chains, start : Nat \ {0},
                   source : {"none", "Local", "Remote_Pull", "Remote_Push"}, built : Chains]
        /\ in.start \in 1 .. Len(in.chain) /\ in.start <= Len(chain) + 1
        /\ in.source = "Local" => in.start = Len(in.chain) /\ Harvested(in.chain, in.built)
    BY Zenon, <1>4, InputFacts DEF IsLinked
  <2>4. TypeOK'
    <3>1. NoHarvest \in [chain : Chains, built : Chains]
      BY DEF NoHarvest, NoBlocks, Chains
    <3>2. input' \in [chain : Chains, start : Nat \ {0},
                      source : {"none", "Local", "Remote_Pull", "Remote_Push"}, built : Chains]
      BY Zenon, <1>4, <2>3
    <3>3. QED
      BY Zenon, <1>1, <1>2, <1>4, <2>1, <2>2, <3>1, <3>2 DEF TypeOK, cacheVars, poolVars, txVars, SyncLabels
  <2>5. LockInv'
    BY Zenon, <2>1, <2>2 DEF LockInv, StorageWriting, Committing, SyncHasPool
  <2>6. IndexInv' /\ InputInv' /\ CacheInv'
    BY Zenon, <1>1, <1>4, <2>1, <2>3
    DEF IndexInv, InputInv, CacheInv, cacheVars, Linked, Replaced, Committing
  <2>7. DetachedInv' /\ FacadeInv' /\ PoolInv'
    BY Zenon, <1>1, <2>1
    DEF DetachedInv, FacadeInv, PoolInv, cacheVars, poolVars, CopyOf, Rebasing, SyncHasPool
  <2>8. UpdateInv' /\ HarvestInv'
    BY Zenon, <1>2, <1>4, <2>1, <2>3 DEF UpdateInv, HarvestInv, Linked, SyncHasPool
  <2>9. QED
    BY <2>4, <2>5, <2>6, <2>7, <2>8
<1>5. QED
  BY <1>1, <1>3, <1>4

LEMMA CreateDeltaStep ==
    ASSUME IndInv, createDelta
    PROVE  IndInv'
<1> USE DEF IndInv, SyncGoes
<1>1. /\ index' \in [Threads -> SubCaches] /\ index'["harvest"] = index["harvest"]
      /\ \/ SyncGoes("createDelta", "unwind") /\ index'["sync"] = 1
         \/ SyncGoes("createDelta", "createDelta")
  BY Walk, SyncGoto DEF createDelta, Threads
<1>2. /\ locks' \in Locks
      /\ locks'.storage = locks.storage /\ locks'.height = locks.height /\ locks'.ut = locks.ut
  <2>1. locks \in Locks /\ index["sync"] \in SubCaches
    BY DEF TypeOK, Threads
  <2>2. locks' = [locks EXCEPT !.sub[index["sync"]]["sync"] = "reader"]
    BY DEF createDelta, AcquireSub
  <2>3. QED
    BY <2>1, <2>2, SubLock DEF Threads, Held
<1>3. UNCHANGED <<chain, cacheVars, poolVars, syncVars, txVars, harvestVars, pending>>
  BY Zenon DEF createDelta
<1>4. TypeOK'
  BY Zenon, <1>1, <1>2, <1>3
  DEF TypeOK, cacheVars, poolVars, syncVars, txVars, harvestVars, SyncLabels
<1>5. LockInv'
  BY ZenonT(30), <1>1, <1>2 DEF LockInv, StorageWriting, Committing, SyncHasPool
<1>6. IndexInv' /\ InputInv' /\ CacheInv'
  BY SMTT(30), <1>1, <1>3 DEF IndexInv, InputInv, CacheInv, cacheVars, syncVars, Linked, Replaced, Committing
<1>7. DetachedInv' /\ FacadeInv' /\ PoolInv' /\ UpdateInv' /\ HarvestInv'
  BY Zenon, <1>1, <1>3 DEF DetachedInv, FacadeInv, PoolInv, UpdateInv, HarvestInv, cacheVars, poolVars,
                    syncVars, harvestVars, CopyOf, Rebasing, SyncHasPool, Linked
<1>8. QED
  BY <1>4, <1>5, <1>6, <1>7

\* The order of the blocks does not matter to what they confirm.
LEMMA LastFirstFacts ==
    ASSUME NEW c \in Chains
    PROVE  LastFirst(c) \in Chains /\ Confirmed(LastFirst(c)) = Confirmed(c)
<1> DEFINE r == LastFirst(c)
           N == Len(c)
<1>1. N \in Nat /\ DOMAIN c = 1 .. N /\ \A h \in 1 .. N : c[h] \in Blocks
  BY DEF Chains
<1>2. \A h \in 1 .. N : (N - h) + 1 \in 1 .. N /\ (N - ((N - h) + 1)) + 1 = h
  BY <1>1
<1>3. r = [h \in 1 .. N |-> c[(N - h) + 1]]
  BY DEF LastFirst
<1>4. r \in Seq(Blocks) /\ DOMAIN r = 1 .. N /\ \A h \in 1 .. N : r[h] = c[(N - h) + 1]
  BY <1>1, <1>2, <1>3
<1> HIDE DEF r, N
<1>5. Confirmed(r) \subseteq Confirmed(c)
  BY <1>1, <1>2, <1>4 DEF Confirmed
<1>6. Confirmed(c) \subseteq Confirmed(r)
  <2>1. \A h \in 1 .. N : c[h] = r[(N - h) + 1]
    BY <1>2, <1>4
  <2>2. QED
    BY <1>1, <1>2, <1>4, <2>1 DEF Confirmed
<1>7. QED
  BY Zenon, <1>4, <1>5, <1>6 DEF r, Chains

LEMMA UnwindStep ==
    ASSUME IndInv, unwindLocalChain
    PROVE  IndInv'
<1> USE DEF IndInv, SyncGoes
<1>1. UNCHANGED <<chain, cacheVars, poolVars, index, txVars, harvestVars>>
  BY DEF unwindLocalChain
<1> DEFINE ls == [locks EXCEPT !.storage["sync"] = "none"]
<1>2. ls \in Locks /\ ls.height = locks.height /\ ls.ut = locks.ut
  BY Zenon DEF TypeOK, Locks, Lock, Held, Threads
<1>3. CASE /\ Return("unwind", input.source)
           /\ locks' = WithAllSubs([locks EXCEPT !.storage["sync"] = "none"], "sync", "none")
  <2>1. locks' = WithAllSubs(ls, "sync", "none")
    BY <1>3
  <2> HIDE DEF ls
  <2>2. locks' \in Locks /\ locks'.height = locks.height /\ locks'.ut = locks.ut
    BY <1>2, <2>1, SubLocks DEF Threads, Held
  <2>3. QED
    BY <1>1, <1>3, <2>2, ReturnStep DEF harvestVars
<1>4. CASE /\ Goto("sync", "unwind", "process")
           /\ update' = [NoUpdate EXCEPT !.reverted = Reverted]
           /\ locks' = [locks EXCEPT !.storage["sync"] = "none"]
           /\ UNCHANGED <<input, pending>>
  <2>1. SyncGoes("unwind", "process")
    BY <1>4, SyncGoto
  <2>2. locks' \in Locks /\ locks'.height = locks.height /\ locks'.ut = locks.ut
    BY Zenon, <1>2, <1>4
  <2>3. /\ Reverted \in Seq(Txs)
        /\ Range(Reverted) = Confirmed(From(chain, input.start))
                                 \ Confirmed(From(input.chain, input.start))
    <3> DEFINE undone == From(chain, input.start)
    <3>1. chain \in Chains /\ input.start \in Nat \ {0} /\ input.start <= Len(chain) + 1
      BY <2>1 DEF TypeOK, InputInv
    <3>2. input.start \in 1 .. Len(chain) + 1
      BY <3>1 DEF Chains
    <3>3. undone \in Chains
      BY <3>1, <3>2, Parts
    <3> HIDE DEF undone
    <3>4. LastFirst(undone) \in Chains /\ Confirmed(LastFirst(undone)) = Confirmed(undone)
      BY <3>3, LastFirstFacts
    <3>5. /\ TransactionsOf(LastFirst(undone)) \in Seq(Txs)
          /\ Range(TransactionsOf(LastFirst(undone))) = Confirmed(undone)
      BY Zenon, <3>4, TransactionsFacts
    <3>6. QED
      BY Zenon, <3>5, WithoutFacts DEF Reverted, undone
  <2>4. update'.reverted = Reverted /\ update'.original = <<>>
        /\ update' \in [reverted : Seq(Txs), original : Seq(Txs)]
    <3>1. update' = [reverted |-> Reverted, original |-> <<>>]
      BY <1>4 DEF NoUpdate
    <3>2. QED
      BY <2>3, <3>1
  <2>5. TypeOK'
    BY Zenon, <1>1, <1>4, <2>1, <2>2, <2>4 DEF TypeOK, cacheVars, poolVars, txVars, harvestVars, SyncLabels
  <2>6. LockInv'
    BY <2>1, <2>2 DEF LockInv, StorageWriting, Committing, SyncHasPool
  <2>7. IndexInv' /\ InputInv' /\ CacheInv'
    BY Zenon, <1>1, <1>4, <2>1
    DEF IndexInv, InputInv, CacheInv, cacheVars, Linked, Replaced, Committing
  <2>8. DetachedInv' /\ FacadeInv' /\ PoolInv'
    BY Zenon, <1>1, <2>1 DEF DetachedInv, FacadeInv, PoolInv, cacheVars, poolVars, harvestVars, CopyOf,
                      Rebasing, SyncHasPool
  <2>9. UpdateInv' /\ HarvestInv'
    BY Zenon, <1>1, <1>4, <2>1, <2>3, <2>4 DEF UpdateInv, HarvestInv, harvestVars, Linked
  <2>10. QED
    BY <2>5, <2>6, <2>7, <2>8, <2>9
<1>5. QED
  BY <1>3, <1>4 DEF unwindLocalChain

LEMMA ProcessStep ==
    ASSUME IndInv, process
    PROVE  IndInv'
<1> USE DEF IndInv, SyncGoes
<1>1. UNCHANGED <<chain, cacheVars, poolVars, index, txVars, harvestVars>>
  BY Zenon DEF process
<1>2. CASE Return("process", input.source) /\ locks' = WithAllSubs(locks, "sync", "none")
  <2>1. locks \in Locks
    BY DEF TypeOK
  <2>2. locks' \in Locks /\ locks'.height = locks.height /\ locks'.ut = locks.ut
    BY <1>2, <2>1, SubLocks DEF Threads, Held
  <2>3. QED
    BY Zenon, <1>1, <1>2, <2>2, ReturnStep DEF harvestVars
<1>3. CASE LinksToLocal /\ Goto("sync", "process", "storageModifier")
           /\ UNCHANGED <<locks, syncVars, pending>>
  <2>1. SyncGoes("process", "storageModifier")
    BY Zenon, <1>3, SyncGoto
  <2>2. TypeOK'
    BY Zenon, <1>1, <1>3, <2>1
    DEF TypeOK, cacheVars, poolVars, syncVars, txVars, harvestVars, SyncLabels
  <2>3. LockInv'
    BY Zenon, <1>3, <2>1 DEF LockInv, StorageWriting, Committing, SyncHasPool
  <2>4. IndexInv' /\ InputInv' /\ CacheInv'
    BY Zenon, <1>1, <1>3, <2>1 DEF IndexInv, InputInv, CacheInv, cacheVars, syncVars, LinksToLocal, Linked,
                            Replaced, Committing
  <2>5. DetachedInv' /\ FacadeInv' /\ PoolInv' /\ UpdateInv' /\ HarvestInv'
    BY ZenonT(30), <1>1, <1>3, <2>1
    DEF DetachedInv, FacadeInv, PoolInv, UpdateInv, HarvestInv, cacheVars, poolVars,
        syncVars, harvestVars, CopyOf, Rebasing, SyncHasPool, Linked
  <2>6. QED
    BY <2>2, <2>3, <2>4, <2>5
<1>4. QED
  BY <1>2, <1>3 DEF process

LEMMA RemoveAllStep ==
    ASSUME IndInv, removeAll
    PROVE  IndInv'
<1> USE DEF IndInv, SyncGoes
<1>1. \/ SyncGoes("lockPool", "removeAll") /\ UNCHANGED <<ut, update>>
      \/ /\ SyncGoes("removeAll", "rebase") /\ locks'.ut["sync"] = "writer"
         /\ locks.ut["tx"] # "writer"
         /\ update' = [update EXCEPT !.original = ut] /\ ut' = <<>>
  <2>1. CASE AskModifier("sync", "ut", "lockPool", "removeAll") /\ UNCHANGED <<ut, update>>
    BY Zenon, <2>1, SyncGoto DEF AskModifier
  <2>2. CASE /\ HasModifier("sync", "ut", "removeAll", NextUpdateStep("lockPool"))
             /\ update' = [update EXCEPT !.original = ut] /\ ut' = <<>>
    <3>1. NextUpdateStep("lockPool") = "rebase"
      BY DEF NextUpdateStep
    <3>2. QED
      BY <2>2, <3>1, SyncGoto, Modifier DEF Threads
  <2>3. QED
    BY <2>1, <2>2 DEF removeAll
<1>2. /\ locks' \in Locks /\ locks'.storage = locks.storage /\ locks'.height = locks.height
      /\ locks'.ut["tx"] = locks.ut["tx"]
  BY Modifier DEF removeAll, OthersKept, Threads
<1>3. UNCHANGED <<chain, cacheVars, detached, index, input, txVars, harvestVars, pending>>
  BY DEF removeAll
<1>4. TypeOK'
  <2>1. /\ update' \in [reverted : Seq(Txs), original : Seq(Txs)]
        /\ ut' \in Seq(Txs) /\ Len(ut') <= MaxCacheSize
    <3>1. update \in [reverted : Seq(Txs), original : Seq(Txs)]
          /\ ut \in Seq(Txs) /\ Len(ut) <= MaxCacheSize
      BY ZenonT(30) DEF TypeOK
    <3>2. CASE UNCHANGED <<ut, update>>
      BY <3>1, <3>2
    <3>3. CASE update' = [update EXCEPT !.original = ut] /\ ut' = <<>>
      <4>1. Len(<<>>) = 0 /\ <<>> \in Seq(Txs)
        OBVIOUS
      <4>2. Len(ut') <= MaxCacheSize /\ ut' \in Seq(Txs)
        BY <3>3, <4>1
      <4>3. update' \in [reverted : Seq(Txs), original : Seq(Txs)]
        BY Zenon, <3>1, <3>3
      <4>4. QED
        BY <4>2, <4>3
    <3>4. QED
      BY <1>1, <3>2, <3>3
  <2>2. QED
    BY Zenon, <1>1, <1>2, <1>3, <2>1 DEF TypeOK, cacheVars, txVars, harvestVars, SyncLabels
<1>5. LockInv'
  BY <1>1, <1>2 DEF LockInv, StorageWriting, Committing, SyncHasPool, TxHasPool
<1>6. IndexInv' /\ InputInv' /\ CacheInv'
  BY <1>1, <1>3 DEF IndexInv, InputInv, CacheInv, cacheVars, Linked, Replaced, Committing
<1>7. DetachedInv' /\ FacadeInv' /\ PoolInv' /\ UpdateInv' /\ HarvestInv'
  BY Zenon, <1>1, <1>3 DEF DetachedInv, FacadeInv, PoolInv, UpdateInv, HarvestInv, cacheVars,
                    harvestVars, CopyOf, Rebasing, SyncHasPool, Linked
<1>8. QED
  BY <1>4, <1>5, <1>6, <1>7

LEMMA RebaseStep ==
    ASSUME IndInv, rebase
    PROVE  IndInv'
<1> USE DEF IndInv, SyncGoes
<1>1. UNCHANGED <<chain, cacheVars, ut, syncVars, txVars, harvestVars, pending>>
  BY Zenon DEF rebase
<1>2. locks \in Locks /\ detached \in Deltas /\ index["sync"] \in SubCaches
  BY DEF TypeOK, Threads
<1>3. \A i \in SubCaches : i \in Nat /\ 0 < i /\ ~(i < 1)
  BY SMTT(30) DEF SubCaches
<1>4. /\ locks' \in Locks /\ locks'.storage = locks.storage /\ locks'.ut = locks.ut
      /\ locks'.height["harvest"] = locks.height["harvest"]
      /\ index' \in [Threads -> SubCaches] /\ index'["harvest"] = index["harvest"]
      /\ detached' \in Deltas
      /\ \/ /\ SyncGoes("rebase", "rebaseSub") /\ index'["sync"] = 1
            /\ detached'.height = cacheHeight
         \/ /\ SyncGoes("rebaseSub", "rebaseSub") /\ index'["sync"] = index["sync"] + 1
            /\ detached'.height = detached.height /\ detached'.applied = {}
            /\ CopyOf(detached, index["sync"])'
         \/ /\ SyncGoes("rebaseSub", "lockSub") /\ index'["sync"] = 1
            /\ detached'.height = detached.height /\ detached'.applied = {}
            /\ CopyOf(detached, NumSubCaches + 1)'
         \/ SyncGoes("lockSub", "lockSub") /\ detached' = detached
         \/ SyncGoes("lockSub", "rebased") /\ detached' = detached /\ index'["sync"] = 1
         \/ SyncGoes("rebased", "applyAll") /\ detached' = detached /\ index' = index
  <2>1. CASE /\ Goto("sync", "rebase", "rebaseSub")
             /\ locks' = [locks EXCEPT !.height["sync"] = "reader"]
             /\ detached' = [detached EXCEPT !.height = cacheHeight]
             /\ UNCHANGED index
    <3>1. /\ locks' \in Locks /\ locks'.storage = locks.storage /\ locks'.ut = locks.ut
          /\ locks'.height["harvest"] = locks.height["harvest"]
      BY Zenon, <1>2, <2>1 DEF Locks, Lock, Held, Threads
    <3>2. detached' \in Deltas /\ detached'.height = cacheHeight
      BY Zenon, <1>2, <2>1 DEF Deltas, TypeOK
    <3>3. SyncGoes("rebase", "rebaseSub") /\ index["sync"] = 1 /\ index \in [Threads -> SubCaches]
      <4>1. SyncGoes("rebase", "rebaseSub")
        BY Zenon, <2>1, SyncGoto
      <4>2. QED
        BY Zenon, <4>1 DEF IndexInv, TypeOK
    <3>4. QED
      BY <2>1, <3>1, <3>2, <3>3
  <2>2. CASE /\ ForEachSubCache("sync", "rebaseSub", "lockSub")
             /\ detached' = Copy("sync", detached)
             /\ UNCHANGED locks
    <3>1. CopyOf(detached, index["sync"])
      BY Zenon, <2>2 DEF ForEachSubCache, Goto, DetachedInv
    <3>2. /\ detached' \in Deltas /\ detached'.applied = {} /\ detached'.height = detached.height
          /\ CopyOf(detached', index["sync"] + 1)
      BY Zenon, <1>2, <2>2, <3>1, CopyFacts DEF Threads
    <3>3. \A n : CopyOf(detached', n) => \A i \in SubCaches : i < n =>
                     detached'.subs[i] = sub'[i] /\ detached'.commits[i] = commits'[i]
      BY Zenon, <1>1 DEF CopyOf, cacheVars
    <3>4. /\ index' \in [Threads -> SubCaches] /\ index'["harvest"] = index["harvest"]
          /\ \/ /\ SyncGoes("rebaseSub", "rebaseSub") /\ index'["sync"] = index["sync"] + 1
             \/ SyncGoes("rebaseSub", "lockSub") /\ index'["sync"] = 1 /\ index["sync"] = NumSubCaches
      BY Zenon, <2>2, Walk, SyncGoto DEF Threads
    <3>5. CASE SyncGoes("rebaseSub", "rebaseSub") /\ index'["sync"] = index["sync"] + 1
      BY ZenonT(30), <1>2, <2>2, <3>2, <3>3, <3>4, <3>5 DEF CopyOf
    <3>6. CASE SyncGoes("rebaseSub", "lockSub") /\ index'["sync"] = 1 /\ index["sync"] = NumSubCaches
      BY Zenon, <1>2, <2>2, <3>2, <3>3, <3>4, <3>6 DEF CopyOf
    <3>7. QED
      BY ZenonT(30), <3>4, <3>5, <3>6
  <2>3. CASE TryLock("sync", detached, "lockSub", "rebased", "nullDelta") /\ UNCHANGED detached
    <3>1. pc["sync"] = "lockSub"
      BY Zenon, <2>3 DEF TryLock, ForEachSubCache, Goto
    <3>2. CopyOf(detached, NumSubCaches + 1)
      BY Zenon, <3>1 DEF DetachedInv
    <3>3. /\ ForEachSubCache("sync", "lockSub", "rebased")
          /\ locks' \in Locks /\ locks'.storage = locks.storage
          /\ locks'.height = locks.height /\ locks'.ut = locks.ut
      BY Zenon, <2>3, <3>2, TryLockFacts DEF Threads
    <3>4. /\ index' \in [Threads -> SubCaches] /\ index'["harvest"] = index["harvest"]
          /\ \/ SyncGoes("lockSub", "lockSub")
             \/ SyncGoes("lockSub", "rebased") /\ index'["sync"] = 1
      BY Zenon, <3>3, Walk, SyncGoto DEF Threads
    <3>5. QED
      BY Zenon, <1>2, <2>3, <3>3, <3>4
  <2>4. CASE /\ Goto("sync", "rebased", NextUpdateStep("rebase"))
             /\ locks' = [locks EXCEPT !.height["sync"] = "none"]
             /\ UNCHANGED <<detached, index>>
    <3>1. /\ locks' \in Locks /\ locks'.storage = locks.storage /\ locks'.ut = locks.ut
          /\ locks'.height["harvest"] = locks.height["harvest"]
      BY Zenon, <1>2, <2>4 DEF Locks, Lock, Held, Threads
    <3>2. SyncGoes("rebased", "applyAll") /\ index \in [Threads -> SubCaches]
      BY Zenon, <2>4, SyncGoto DEF NextUpdateStep, TypeOK
    <3>3. QED
      BY <1>2, <2>4, <3>1, <3>2
  <2>5. QED
    BY Zenon, <2>1, <2>2, <2>3, <2>4 DEF rebase
<1>5. TypeOK'
  BY Zenon, <1>1, <1>4 DEF TypeOK, cacheVars, syncVars, txVars, harvestVars, SyncLabels
<1>6. LockInv'
  BY Zenon, <1>4 DEF LockInv, StorageWriting, Committing, SyncHasPool
<1>7. IndexInv'
  BY SMTT(30), <1>4 DEF IndexInv
<1>8. InputInv' /\ CacheInv'
  BY Zenon, <1>1, <1>4 DEF InputInv, CacheInv, cacheVars, syncVars, Linked, Replaced, Committing
<1>9. DetachedInv'
  <2>1. pc'["sync"] \in Rebasing
    BY Zenon, <1>4 DEF Rebasing
  <2>2. UNCHANGED <<sub, commits, cacheHeight>>
    BY Zenon, <1>1 DEF cacheVars
  <2>3. CASE pc'["sync"] = "rebaseSub"
    <3>1. CASE index'["sync"] = 1 /\ detached'.height = cacheHeight
      <4>1. CopyOf(detached, index["sync"])'
        BY Zenon, <1>3, <3>1 DEF CopyOf
      <4>2. QED
        BY SMTT(30), <2>1, <2>2, <2>3, <3>1, <4>1 DEF DetachedInv
    <3>2. CASE /\ pc["sync"] = "rebaseSub" /\ detached'.height = detached.height
               /\ detached'.applied = {} /\ CopyOf(detached, index["sync"])'
      BY Zenon, <2>1, <2>2, <2>3, <3>2 DEF DetachedInv
    <3>3. QED
      BY Zenon, <1>4, <2>3, <3>1, <3>2
  <2>4. CASE pc'["sync"] # "rebaseSub"
    BY ZenonT(30), <1>4, <2>1, <2>2, <2>4 DEF DetachedInv, CopyOf
  <2>5. QED
    BY Zenon, <2>3, <2>4
<1>10. FacadeInv' /\ PoolInv' /\ UpdateInv' /\ HarvestInv'
  BY Zenon, <1>1, <1>4 DEF FacadeInv, PoolInv, UpdateInv, HarvestInv, cacheVars,
                    syncVars, harvestVars, CopyOf, Rebasing, SyncHasPool, Linked
<1>11. QED
  BY Zenon, <1>5, <1>6, <1>7, <1>8, <1>9, <1>10

\* The i-th of two runs of transactions, one after the other, was refused.
LEMMA FirstRefused ==
    ASSUME NEW txs \in Seq(Txs), NEW rest \in Seq(Txs), NEW p \in Seq(Txs), NEW q \in Seq(Txs),
           NEW base, NEW i \in 1 .. Len(txs), NEW n \in 0 .. Len(p), Begins(p, q),
           Placed(txs, i, 0, n, p), Given(rest, Len(p), q), Reason(txs[i], base, "Reverted", n, p)
    PROVE  /\ Placed(txs \o rest, i, 0, n, q) /\ Reason(txs[i], base, "Reverted", n, q)
<1> DEFINE both == txs \o rest
<1>1. /\ Len(both) = Len(txs) + Len(rest) /\ Len(txs) \in Nat /\ Len(rest) \in Nat
      /\ \A k \in 1 .. Len(txs) : both[k] = txs[k]
      /\ \A k \in 1 .. Len(rest) : both[Len(txs) + k] = rest[k]
  OBVIOUS
<1>2. Len(p) \in Nat /\ Len(q) \in Nat /\ Len(p) <= Len(q) /\ \A m \in 1 .. Len(p) : q[m] = p[m]
  BY DEF Begins
<1> HIDE DEF both
<1>3. ASSUME NEW m \in 0 + 1 .. Len(q)
      PROVE  \E k \in 1 .. Len(both) : q[m] = both[k] /\ IF m <= n THEN k < i ELSE i < k
  <2>1. CASE m <= Len(p)
    <3>1. m \in 0 + 1 .. Len(p) /\ q[m] = p[m]
      BY <1>2, <2>1
    <3>2. PICK k \in 1 .. Len(txs) : p[m] = txs[k] /\ IF m <= n THEN k < i ELSE i < k
      BY Zenon, <3>1 DEF Placed
    <3>3. k \in 1 .. Len(both) /\ both[k] = txs[k]
      BY <1>1
    <3>4. QED
      BY Zenon, <3>1, <3>2, <3>3
  <2>2. CASE ~(m <= Len(p))
    <3>1. m \in Len(p) + 1 .. Len(q) /\ ~(m <= n)
      BY <1>2, <2>2
    <3>2. PICK k \in 1 .. Len(rest) : q[m] = rest[k]
      BY Zenon, <3>1 DEF Given
    <3>3. Len(txs) + k \in 1 .. Len(both) /\ both[Len(txs) + k] = rest[k] /\ i < Len(txs) + k
      BY <1>1
    <3>4. QED
      BY Zenon, <3>1, <3>2, <3>3
  <2>3. QED
    BY Zenon, <2>1, <2>2
<1>4. Placed(both, i, 0, n, q)
  BY Zenon, <1>3 DEF Placed
<1>5. Reason(txs[i], base, "Reverted", n, q)
  BY ReasonStays
<1>6. QED
  BY Zenon, <1>4, <1>5 DEF both

LEMMA SecondRefused ==
    ASSUME NEW txs \in Seq(Txs), NEW rest \in Seq(Txs), NEW p \in Seq(Txs), NEW q \in Seq(Txs),
           NEW i \in 1 .. Len(rest), NEW n \in Len(p) .. Len(q), Begins(p, q),
           Given(txs, 0, p), Placed(rest, i, Len(p), n, q)
    PROVE  Placed(txs \o rest, Len(txs) + i, 0, n, q)
<1> DEFINE both == txs \o rest
<1>1. /\ Len(both) = Len(txs) + Len(rest) /\ Len(txs) \in Nat /\ Len(rest) \in Nat
      /\ \A k \in 1 .. Len(txs) : both[k] = txs[k]
      /\ \A k \in 1 .. Len(rest) : both[Len(txs) + k] = rest[k]
  OBVIOUS
<1>2. Len(p) \in Nat /\ Len(q) \in Nat /\ Len(p) <= Len(q) /\ \A m \in 1 .. Len(p) : q[m] = p[m]
  <2>1. Len(p) \in Nat /\ Len(q) \in Nat
    OBVIOUS
  <2>2. QED
    BY Zenon, <2>1 DEF Begins
<1> HIDE DEF both
<1>3. ASSUME NEW m \in 0 + 1 .. Len(q)
      PROVE  \E k \in 1 .. Len(both) :
                 q[m] = both[k] /\ IF m <= n THEN k < Len(txs) + i ELSE Len(txs) + i < k
  <2>1. CASE m <= Len(p)
    <3>1. m \in 0 + 1 .. Len(p) /\ q[m] = p[m] /\ m <= n
      BY <1>2, <2>1
    <3>2. PICK k \in 1 .. Len(txs) : p[m] = txs[k]
      BY Zenon, <3>1 DEF Given
    <3>3. k \in 1 .. Len(both) /\ both[k] = txs[k] /\ k < Len(txs) + i
      BY <1>1
    <3>4. QED
      BY Zenon, <3>1, <3>2, <3>3
  <2>2. CASE ~(m <= Len(p))
    <3>1. m \in Len(p) + 1 .. Len(q)
      BY <1>2, <2>2
    <3>2. PICK k \in 1 .. Len(rest) : q[m] = rest[k] /\ IF m <= n THEN k < i ELSE i < k
      BY Zenon, <3>1 DEF Placed
    <3>3. /\ Len(txs) + k \in 1 .. Len(both) /\ both[Len(txs) + k] = rest[k]
          /\ IF m <= n THEN Len(txs) + k < Len(txs) + i ELSE Len(txs) + i < Len(txs) + k
      BY <1>1, <3>2
    <3>4. QED
      BY Zenon, <3>2, <3>3
  <2>3. QED
    BY Zenon, <2>1, <2>2
<1>4. QED
  BY Zenon, <1>3 DEF Placed, both

\* The unconfirmed transactions after a block update.
LEMMA ApplyAllPool ==
    ASSUME IndInv, applyAll
    PROVE  /\ ut' \in Seq(Txs) /\ Len(ut') <= MaxCacheSize
           /\ detached' = [detached EXCEPT !.applied = detached'.applied]
           /\ detached'.applied \in SUBSET Txs
           /\ Sound([ut |-> ut', applied |-> detached'.applied], Confirmed(chain))
           /\ \A i \in DOMAIN Attempted :
                  \/ Attempted[i] \in Range(ut')
                  \/ \E n \in 0 .. Len(ut') : Refused(i, n, ut')
<1>1. pc["sync"] = "applyAll"
  BY SMTT(30) DEF applyAll, Return, Goto
<1>2. /\ ut = <<>> /\ detached.applied = {} /\ detached \in Deltas
      /\ update.reverted \in Seq(Txs) /\ update.original \in Seq(Txs) /\ chain \in Chains
  BY ZenonT(30), <1>1 DEF IndInv, PoolInv, DetachedInv, TypeOK, SyncHasPool
<1>3. StateOf(detached.subs) = Confirmed(chain)
  <2>1. \A i \in SubCaches : i < NumSubCaches + 1
    BY Zenon, LastSubCache
  <2>2. \A i \in SubCaches : detached.subs[i] = chain
    BY Zenon, <1>1, <2>1 DEF IndInv, DetachedInv, CopyOf, CacheInv, Committing
  <2>3. QED
    BY Zenon, <1>2, <2>2, OneState
<1> DEFINE base == Confirmed(chain)
           given == Confirmed(From(input.chain, input.start))
           empty == [ut |-> <<>>, applied |-> {}]
           txs == update.reverted
           rest == Without(update.original, given)
<1>4. PICK overQuota \in SUBSET Txs :
          ut' = AddedBack(overQuota).ut
              /\ detached' = [detached EXCEPT !.applied = AddedBack(overQuota).applied]
  <2>1. SUBSET (Range(update.reverted) \union Range(update.original)) \subseteq SUBSET Txs
    BY <1>2 DEF Range
  <2>2. QED
    BY Zenon, <2>1 DEF applyAll
<1> DEFINE first == Apply(empty, base, "Reverted", overQuota, txs)
           all == Apply(first, base, "Existing", overQuota, rest)
<1>5. AddedBack(overQuota) = all
  BY Zenon, <1>2, <1>3 DEF AddedBack
<1>6. ut' = all.ut /\ detached' = [detached EXCEPT !.applied = all.applied]
  BY Zenon, <1>4, <1>5
<1>7. base \in SUBSET Txs /\ txs \in Seq(Txs) /\ rest \in Seq(Txs) /\ Attempted = txs \o rest
  <2>1. base \in SUBSET Txs /\ rest \in Seq(Txs)
    BY ZenonT(30), <1>2, ConfirmedType, WithoutFacts
  <2>2. QED
    BY Zenon, <1>2, <2>1 DEF Attempted
<1>8. empty \in Pools /\ Len(empty.ut) = 0 /\ Len(empty.ut) <= MaxCacheSize /\ Sound(empty, base)
  <2>1. Range(<<>>) = {} /\ DOMAIN <<>> = {} /\ Len(<<>>) = 0 /\ <<>> \in Seq(Txs)
    BY DEF Range
  <2>2. empty.ut = <<>> /\ empty.applied = {} /\ empty \in Pools
    BY Zenon, <2>1 DEF Pools
  <2>3. Sound(empty, base)
    BY Zenon, <2>1, <2>2 DEF Sound, Execute
  <2>4. 0 <= MaxCacheSize
    OBVIOUS
  <2>5. QED
    BY Zenon, <2>1, <2>2, <2>3, <2>4
<1>9. "Reverted" \in Sources /\ "Existing" \in Sources
  BY DEF Sources
<1> HIDE DEF base, given, empty, txs, rest
<1>10. AllApplied(empty, base, "Reverted", txs, first)
  BY <1>7, <1>8, <1>9, ApplyFacts
<1> HIDE DEF first
<1>11. /\ first \in Pools /\ Len(first.ut) <= MaxCacheSize /\ Sound(first, base)
       /\ Given(txs, 0, first.ut)
       /\ \A i \in 1 .. Len(txs) : Settled(txs, i, base, "Reverted", 0, first.ut)
  BY Zenon, <1>8, <1>10 DEF AllApplied
<1>12. AllApplied(first, base, "Existing", rest, all)
  BY <1>7, <1>9, <1>11, ApplyFacts
<1> HIDE DEF all
<1>13. /\ all \in Pools /\ Len(all.ut) <= MaxCacheSize /\ Begins(first.ut, all.ut) /\ Sound(all, base)
       /\ Given(rest, Len(first.ut), all.ut)
       /\ \A i \in 1 .. Len(rest) : Settled(rest, i, base, "Existing", Len(first.ut), all.ut)
  BY Zenon, <1>11, <1>12 DEF AllApplied
<1>14. /\ all = [ut |-> ut', applied |-> detached'.applied] /\ detached'.applied = all.applied
       /\ detached' = [detached EXCEPT !.applied = detached'.applied]
  BY Zenon, <1>2, <1>6, <1>13 DEF Pools, Deltas
<1>15. /\ first.ut \in Seq(Txs) /\ ut' \in Seq(Txs) /\ ut' = all.ut
       /\ Len(first.ut) \in Nat /\ Len(ut') \in Nat /\ Len(first.ut) <= Len(ut')
       /\ DOMAIN ut' = 0 + 1 .. Len(ut')
  BY <1>6, <1>11, <1>13 DEF Pools, Begins
<1>16. ASSUME NEW i \in DOMAIN Attempted, Attempted[i] \notin Range(ut')
       PROVE  \E n \in 0 .. Len(ut') : Refused(i, n, ut')
  <2>1. DOMAIN Attempted = 1 .. Len(Attempted) /\ Len(txs) \in Nat /\ Len(rest) \in Nat
        /\ Len(Attempted) = Len(txs) + Len(rest)
    BY <1>7
  <2>2. CASE i <= Len(txs)
    <3>1. i \in 1 .. Len(txs) /\ Attempted[i] = txs[i]
      BY <1>7, <2>1, <2>2
    <3>2. Range(first.ut) \subseteq Range(ut')
      BY Zenon, <1>13, <1>15, BeginsRange
    <3>3. PICK n \in 0 .. Len(first.ut) :
              Placed(txs, i, 0, n, first.ut) /\ Reason(txs[i], base, "Reverted", n, first.ut)
      BY Zenon, <1>11, <1>16, <3>1, <3>2 DEF Settled
    <3>4. Placed(Attempted, i, 0, n, ut') /\ Reason(txs[i], base, "Reverted", n, ut')
      BY ZenonT(30), <1>7, <1>13, <1>15, <3>1, <3>3, FirstRefused
    <3>5. n \in 0 .. Len(ut')
      BY <1>15
    <3>6. Refused(i, n, ut')
      BY Zenon, <1>15, <2>1, <3>1, <3>4 DEF Refused, Placed, Reason, base
    <3>7. QED
      BY Zenon, <3>5, <3>6
  <2>3. CASE ~(i <= Len(txs))
    <3> DEFINE j == i - Len(txs)
    <3>1. j \in 1 .. Len(rest) /\ Attempted[i] = rest[j] /\ i = Len(txs) + j /\ Len(txs) < i
      BY <1>7, <2>1, <2>3
    <3> HIDE DEF j
    <3>2. PICK n \in Len(first.ut) .. Len(ut') :
              /\ Placed(rest, j, Len(first.ut), n, ut')
              /\ Reason(rest[j], base, "Existing", n, ut')
      BY Zenon, <1>13, <1>15, <1>16, <3>1 DEF Settled
    <3>3. Placed(Attempted, i, 0, n, ut')
      BY ZenonT(30), <1>7, <1>11, <1>13, <1>15, <3>1, <3>2, SecondRefused
    <3>4. n \in 0 .. Len(ut')
      BY <1>15
    <3>5. Refused(i, n, ut')
      BY Zenon, <1>15, <2>1, <3>1, <3>2, <3>3 DEF Refused, Placed, Reason, base, txs
    <3>6. QED
      BY Zenon, <3>4, <3>5
  <2>4. QED
    BY Zenon, <2>2, <2>3
<1>17. QED
  BY Zenon, <1>13, <1>14, <1>15, <1>16 DEF Pools, base

LEMMA ApplyAllStep ==
    ASSUME IndInv, applyAll
    PROVE  IndInv'
<1> USE DEF IndInv, SyncGoes
<1>1. SyncGoes("applyAll", "idle") /\ input' = NoInput /\ update' = NoUpdate
  BY Zenon, SyncGoto DEF applyAll, Return
<1>2. /\ locks' \in Locks /\ locks'.height = locks.height /\ locks'.ut["tx"] = locks.ut["tx"]
  <2> DEFINE ls == [locks EXCEPT !.ut["sync"] = "none", !.storage["sync"] = "none"]
  <2>1. ls \in Locks /\ ls.height = locks.height /\ ls.ut["tx"] = locks.ut["tx"]
    BY Zenon DEF TypeOK, Locks, Lock, Held, Threads
  <2>2. locks' = WithAllSubs(ls, "sync", "none")
    BY DEF applyAll
  <2> HIDE DEF ls
  <2>3. QED
    BY <2>1, <2>2, SubLocks DEF Threads, Held
<1>3. UNCHANGED <<chain, cacheVars, index, txVars, harvestVars>>
  BY DEF applyAll
<1>4. /\ ut' \in Seq(Txs) /\ Len(ut') <= MaxCacheSize /\ detached'.applied \in SUBSET Txs
      /\ detached' = [detached EXCEPT !.applied = detached'.applied]
      /\ Sound([ut |-> ut', applied |-> detached'.applied], Confirmed(chain))
  BY ApplyAllPool
<1>5. detached' \in Deltas /\ detached'.subs = detached.subs /\ detached'.commits = detached.commits
  BY Zenon, <1>4 DEF TypeOK, Deltas
<1>6. TypeOK'
  <2>1. /\ NoInput \in [chain : Chains, start : Nat \ {0},
                        source : {"none", "Local", "Remote_Pull", "Remote_Push"}, built : Chains]
        /\ NoUpdate \in [reverted : Seq(Txs), original : Seq(Txs)]
    BY DEF NoInput, NoUpdate, NoBlocks, Chains
  <2>2. QED
    BY Zenon, <1>1, <1>2, <1>3, <1>4, <1>5, <2>1 DEF TypeOK, cacheVars, txVars, harvestVars, SyncLabels
<1>7. LockInv'
  BY SMTT(30), <1>1, <1>2 DEF LockInv, StorageWriting, Committing, SyncHasPool
<1>8. IndexInv' /\ InputInv' /\ CacheInv'
  BY Zenon, <1>1, <1>3 DEF IndexInv, InputInv, CacheInv, cacheVars, Linked, Replaced, Committing
<1>9. DetachedInv' /\ FacadeInv'
  BY ZenonT(30), <1>1, <1>3, <1>5 DEF DetachedInv, FacadeInv, CopyOf, cacheVars, harvestVars, Rebasing
<1>10. PoolInv'
  <2>1. pc["tx"] # "addAll"
    BY SMTT(30), <1>1 DEF LockInv, SyncHasPool, TxHasPool
  <2>2. QED
    BY Zenon, <1>1, <1>3, <1>4, <2>1 DEF PoolInv, SyncHasPool
<1>11. UpdateInv' /\ HarvestInv'
  BY Zenon, <1>1, <1>3 DEF UpdateInv, HarvestInv, NoUpdate, Linked, harvestVars
<1>12. QED
  BY Zenon, <1>6, <1>7, <1>8, <1>9, <1>10, <1>11

LEMMA SyncStep ==
    ASSUME IndInv, sync
    PROVE  IndInv'
BY Zenon, CreateDeltaStep, UnwindStep, ProcessStep, StorageModifierStep, HeightModifierStep,
   PromoteSubStep, CommitSubStep, SetHeightStep, CommitStorageStep, RemoveAllStep, RebaseStep,
   ApplyAllStep DEF sync

-------------------------------------------------------------------------------
(* Every step.                                                             *)

LEMMA NextInv == IndInv /\ [Next]_vars => IndInv'
<1> SUFFICES ASSUME IndInv, [Next]_vars PROVE IndInv'
  BY Zenon
<1>1. CASE UNCHANGED vars
  <2> USE DEF IndInv, vars, cacheVars, poolVars, syncVars, txVars, harvestVars
  <2>1. TypeOK'
    BY Zenon, <1>1 DEF TypeOK
  <2>2. LockInv' /\ IndexInv'
    BY ZenonT(30), <1>1 DEF LockInv, IndexInv
  <2>3. InputInv' /\ CacheInv'
    BY Zenon, <1>1 DEF InputInv, CacheInv, LinksToLocal
  <2>4. DetachedInv' /\ FacadeInv'
    BY Zenon, <1>1 DEF DetachedInv, FacadeInv, CopyOf
  <2>5. PoolInv' /\ UpdateInv' /\ HarvestInv'
    BY Zenon, <1>1 DEF PoolInv, UpdateInv, HarvestInv
  <2>6. QED
    BY Zenon, <2>1, <2>2, <2>3, <2>4, <2>5
<1>2. CASE transactions
  BY <1>2, GetAndTryLockStep, AddAllStep, ApplyNewStep DEF transactions
<1>3. CASE harvest
  BY <1>3, CreateFacadeStep, NoBlockStep, GenerateBlockStep DEF harvest
<1>4. QED
  BY Zenon, <1>1, <1>2, <1>3, PreprocessStep, SyncStep, LockPoolStep, LastBlockElementStep DEF Next

LEMMA Invariance == Spec => []IndInv
BY InitInv, NextInv, PTL DEF Spec

-------------------------------------------------------------------------------
(* What follows.                                                           *)

\* Whoever can obtain a storage view sees blocks that agree with every sub
\* cache and with the cache height, however many sub caches commitAll commits.
THEOREM StorageMatchesCache == Spec => []StorageAgreesWithCache
<1>1. IndInv => StorageAgreesWithCache
  <2> SUFFICES ASSUME IndInv, \A t \in Threads : locks.storage[t] # "writer"
               PROVE  (\A i \in SubCaches : sub[i] = chain) /\ cacheHeight = Len(chain)
    BY Zenon DEF StorageAgreesWithCache
  <2>1. pc["sync"] \notin StorageWriting
    BY Zenon DEF IndInv, LockInv, Threads
  <2>2. QED
    BY Zenon, <2>1 DEF IndInv, CacheInv, StorageWriting, Committing
<1>2. QED
  BY <1>1, Invariance, PTL

\* A cache that HarvestingUtFacade or UtUpdater copies and locks one sub cache
\* at a time is one state, and the locked delta is never null.
THEOREM CopiesAreOneState == Spec => []ViewConsistent
<1>1. IndInv => ViewConsistent
  <2> SUFFICES ASSUME IndInv PROVE ViewConsistent
    BY Zenon
  <2>1. \A t \in Threads : pc[t] # "nullDelta"
    BY Zenon DEF IndInv, TypeOK, Threads, SyncLabels, TxLabels, HarvestLabels
  <2>2. ASSUME pc["sync"] = "applyAll"
        PROVE  \A i \in SubCaches : detached.subs[i] = chain /\ detached.height = Len(chain)
    <3>1. \A i \in SubCaches : i < NumSubCaches + 1
      BY Zenon, LastSubCache
    <3>2. QED
      BY Zenon, <2>2, <3>1 DEF IndInv, DetachedInv, CopyOf, CacheInv, Committing
  <2>3. QED
    BY <2>1, <2>2, FacadeIsOneState DEF ViewConsistent
<1>2. QED
  BY <1>1, Invariance, PTL

\* The unconfirmed transactions always execute one after another on the
\* confirmed state and the detached cache has their effects, except while a
\* block update is under way; only then can UtUpdater find it outdated.
THEOREM PoolStaysValid == Spec => []PoolValid
<1>1. IndInv => PoolValid
  <2> SUFFICES ASSUME IndInv PROVE PoolValid
    OBVIOUS
  <2>1. ASSUME pc["sync"] \notin Rebasing
        PROVE  detached.commits = commits
    <3>1. \A i \in SubCaches : i < NumSubCaches + 1
      BY Zenon, LastSubCache
    <3>2. \A i \in SubCaches : detached.commits[i] = commits[i]
      BY Zenon, <2>1, <3>1 DEF IndInv, DetachedInv, CopyOf
    <3>3. detached.commits \in [SubCaches -> Nat] /\ commits \in [SubCaches -> Nat]
      BY Zenon DEF IndInv, TypeOK, Deltas
    <3>4. /\ detached.commits = [i \in SubCaches |-> detached.commits[i]]
          /\ commits = [i \in SubCaches |-> commits[i]]
      BY <3>3
    <3>5. QED
      BY <3>2, <3>4, Zenon
  <2>2. QED
    BY Zenon, <2>1 DEF IndInv, PoolInv, Sound, PoolValid
<1>2. QED
  BY <1>1, Invariance, PTL

\* A harvested block that links to the chain can be executed on it, unless the
\* facade was opened on another chain of the same height.
THEOREM HarvestedBlocksFit == Spec => []HarvestedBlockValid
<1>1. IndInv => HarvestedBlockValid
  <2> SUFFICES ASSUME IndInv, pc["sync"] = "process", input.source = "Local", LinksToLocal
               PROVE  IF input.built = Below(chain, input.start)
                      THEN Executes ELSE Len(input.built) = input.start - 1
    BY Zenon DEF HarvestedBlockValid
  <2> DEFINE c == input.chain
             s == input.start
             below == Below(chain, s)
  <2>1. /\ s = Len(c) /\ Harvested(c, input.built) /\ c \in Chains /\ chain \in Chains
        /\ s \in Nat \ {0} /\ s <= Len(chain) + 1 /\ \A i \in SubCaches : sub[i] = chain
    BY DEF IndInv, HarvestInv, TypeOK, InputInv, CacheInv, Committing
  <2>2. s \in 1 .. Len(chain) + 1 /\ s \in 1 .. Len(c) + 1
    BY <2>1 DEF Chains
  <2>3. below \in Chains
    BY Zenon, <2>1, <2>2, Parts
  <2>4. ASSUME input.built = below
        PROVE  Executes
    <3>1. StateOf([i \in SubCaches |-> Below(sub[i], s)]) = Confirmed(below)
      BY Zenon, <2>1, <2>3, OneState
    <3>2. TransactionsOf(From(c, s)) = c[Len(c)].txs
      <4>1. From(c, s) \in Chains /\ Len(From(c, s)) = 1 /\ From(c, s)[1] = c[Len(c)]
        <5>1. /\ From(c, s) \in Chains /\ Len(From(c, s)) = Len(c) - s + 1
              /\ \A h \in 1 .. Len(c) - s + 1 : From(c, s)[h] = c[s + h - 1]
          BY ZenonT(30), <2>1, <2>2, Parts
        <5>2. Len(c) - s + 1 = 1 /\ 1 \in 1 .. Len(c) - s + 1 /\ s + 1 - 1 = Len(c)
          BY <2>1
        <5>3. QED
          BY SMTT(30), <5>1, <5>2
      <4>2. QED
        BY Zenon, <4>1, TransactionsFacts
    <3>3. Execute(Confirmed(below), c[Len(c)].txs) /\ input.built = Below(c, s)
      BY Zenon, <2>1, <2>4 DEF Harvested, LinksToLocal
    <3>4. QED
      BY Zenon, <3>1, <3>2, <3>3 DEF Executes
  <2>5. Len(input.built) = s - 1
    BY <2>1 DEF Harvested
  <2>6. QED
    BY <2>4, <2>5
<1>2. QED
  BY <1>1, Invariance, PTL

\* What a block update may give up.
GivenUp(t) ==
    /\ pc["sync"] = "applyAll"
    /\ \E i \in DOMAIN Attempted, n \in 0 .. Len(ut') :
           Attempted[i] = t /\ Refused(i, n, ut')

LEMMA NoRange == Range(<<>>) = {}
BY DEF Range

\* Returning early drops nothing: what was reverted is still in the chain.
LEMMA ReturnKeeps ==
    ASSUME IndInv, NEW from, from \in {"idle", "unwind", "process"}, NEW source, Return(from, source),
           UNCHANGED <<chain, ut>>
    PROVE  Tracked \subseteq Tracked'
<1>1. pc["sync"] = from /\ pc["sync"] \in {"idle", "unwind", "process"}
  BY Zenon DEF Return, Goto
<1>2. update.original = <<>>
  BY <1>1 DEF IndInv, UpdateInv, SyncHasPool
<1>3. Range(update.reverted) \subseteq Confirmed(chain)
  <2>1. CASE pc["sync"] = "process"
    <3>1. /\ Range(update.reverted) = Confirmed(From(chain, input.start))
                                          \ Confirmed(From(input.chain, input.start))
          /\ chain \in Chains /\ input.start \in Nat \ {0} /\ input.start <= Len(chain) + 1
      BY Zenon, <2>1 DEF IndInv, UpdateInv, TypeOK, InputInv
    <3>2. input.start \in 1 .. Len(chain) + 1
      BY <3>1 DEF Chains
    <3>3. QED
      BY SMTT(30), <3>1, <3>2, Split
  <2>2. CASE pc["sync"] # "process"
    <3>1. update.reverted = <<>>
      BY Zenon, <1>1, <2>2 DEF IndInv, UpdateInv
    <3>2. QED
      BY Zenon, <3>1, NoRange
  <2>3. QED
    BY Zenon, <2>1, <2>2
<1>4. QED
  BY Zenon, <1>2, <1>3, NoRange DEF Tracked

\* What the old blocks held is in the new ones or among the reverted ones.
LEMMA CommitKeeps ==
    ASSUME IndInv, commitStorage
    PROVE  Tracked \subseteq Tracked'
<1>1. pc["sync"] = "commitStorage" /\ UNCHANGED <<ut, update>>
  BY Zenon DEF commitStorage, Goto, poolVars, syncVars
<1>2. chain' = input.chain
  BY Zenon, <1>1, NewChain DEF commitStorage, Linked
<1>3. /\ chain \in Chains /\ input.chain \in Chains /\ input.start \in 1 .. Len(input.chain)
      /\ input.start <= Len(chain) + 1 /\ LinksToLocal
      /\ Range(update.reverted) = Confirmed(From(chain, input.start))
                                      \ Confirmed(From(input.chain, input.start))
  BY Zenon, <1>1 DEF IndInv, TypeOK, InputInv, UpdateInv, Linked
<1>4. input.start \in 1 .. Len(input.chain) + 1 /\ input.start \in 1 .. Len(chain) + 1
  BY SMTT(30), <1>3 DEF Chains
<1>5. /\ Confirmed(chain) = Confirmed(Below(chain, input.start))
                                \union Confirmed(From(chain, input.start))
      /\ Confirmed(input.chain) = Confirmed(Below(input.chain, input.start))
                                      \union Confirmed(From(input.chain, input.start))
  BY Zenon, <1>3, <1>4, Split
<1>6. Confirmed(chain) \subseteq Confirmed(input.chain) \union Range(update.reverted)
  BY <1>3, <1>5 DEF LinksToLocal
<1>7. QED
  BY Zenon, <1>1, <1>2, <1>6 DEF Tracked

\* The two updates of the UtUpdater.
LEMMA RemoveAllKeeps ==
    ASSUME IndInv, removeAll
    PROVE  Tracked \subseteq Tracked'
<1>1. chain' = chain
  BY Zenon DEF removeAll
<1>2. CASE UNCHANGED <<ut, update>>
  BY Zenon, <1>1, <1>2 DEF Tracked
<1>3. CASE pc["sync"] = "removeAll" /\ update' = [update EXCEPT !.original = ut] /\ ut' = <<>>
  <2>1. update.original = <<>>
    BY <1>3 DEF IndInv, UpdateInv, SyncHasPool
  <2>2. update'.original = ut /\ update'.reverted = update.reverted
    BY <1>3 DEF IndInv, TypeOK
  <2>3. QED
    BY <1>1, <2>1, <2>2, NoRange DEF Tracked
<1>4. QED
  BY <1>2, <1>3 DEF removeAll, HasModifier, Goto

LEMMA ApplyAllKeeps ==
    ASSUME IndInv, applyAll, NEW t \in Tracked, t \notin Tracked'
    PROVE  GivenUp(t)
<1>1. pc["sync"] = "applyAll" /\ chain' = chain
  BY Zenon DEF applyAll, Return, Goto
<1>2. /\ ut = <<>> /\ chain = input.chain /\ chain \in Chains
      /\ input.start \in 1 .. Len(input.chain)
  BY Zenon, <1>1 DEF IndInv, PoolInv, InputInv, TypeOK, SyncHasPool, Replaced
<1>3. Confirmed(From(input.chain, input.start)) \subseteq Confirmed(chain)
  <2>1. input.start \in 1 .. Len(chain) + 1
    BY <1>2 DEF Chains
  <2>2. QED
    BY <1>2, <2>1, Split
<1>4. t \notin Confirmed(chain) /\ t \notin Range(ut')
  BY Zenon, <1>1 DEF Tracked
<1>5. t \in Range(update.reverted) \union
            (Range(update.original) \ Confirmed(From(input.chain, input.start)))
  BY <1>2, <1>3, <1>4, NoRange DEF Tracked
<1>6. PICK i \in DOMAIN Attempted : t = Attempted[i]
  <2> DEFINE given == Confirmed(From(input.chain, input.start))
             rest == Without(update.original, given)
  <2>1. update.reverted \in Seq(Txs) /\ update.original \in Seq(Txs)
    BY Zenon DEF IndInv, TypeOK
  <2>2. rest \in Seq(Txs) /\ Range(rest) = Range(update.original) \ given
    BY ZenonT(30), <2>1, WithoutFacts
  <2> HIDE DEF rest
  <2>3. Range(update.reverted \o rest) = Range(update.reverted) \union Range(rest)
    BY Zenon, <2>1, <2>2, ConcatRange
  <2>4. t \in Range(Attempted)
    BY Zenon, <1>5, <2>2, <2>3 DEF Attempted, rest
  <2>5. QED
    BY Zenon, <2>4 DEF Range
<1>7. QED
  BY Zenon, <1>1, <1>4, <1>6, ApplyAllPool DEF GivenUp

LEMMA NewKeeps ==
    ASSUME IndInv, addAll \/ applyNew
    PROVE  Tracked \subseteq Tracked'
<1>1. ut \in Seq(Txs) /\ Len(ut) <= MaxCacheSize /\ utInfos \in Seq(Txs)
  BY Zenon DEF IndInv, TypeOK
<1>2. ut' \in Seq(Txs) /\ Begins(ut, ut')
  BY Zenon, <1>1, AddAllFacts, ApplyNewPool DEF addAll
<1>3. Range(ut) \subseteq Range(ut')
  BY <1>1, <1>2, BeginsRange
<1>4. UNCHANGED <<chain, update>>
  BY DEF addAll, applyNew, UnlockNew, syncVars
<1>5. QED
  BY Zenon, <1>3, <1>4 DEF Tracked

\* A transaction that the node has stays in a block or unconfirmed, whatever
\* the block consumer and the transaction consumer do at the same time; only
\* UtUpdater::update after a block update gives one up, and only for one of
\* four reasons that hold when its turn comes: its fee is too low, the cache
\* is full, the throttle applies to it, or it is not valid.
THEOREM NothingIsLost == Spec => NoTransactionLost
<1>1. ASSUME IndInv, [Next]_vars, NEW t \in Tracked, t \notin Tracked'
      PROVE  GivenUp(t)
  <2>1. ~UNCHANGED <<chain, ut, update>>
    BY Zenon, <1>1 DEF Tracked
  <2>2. ~UNCHANGED vars
    BY <2>1 DEF vars, poolVars, syncVars
  <2>3. CASE preprocess
    <3>1. PICK in \in Inputs : Return("idle", in.source) \/ UNCHANGED update
      BY <2>3 DEF preprocess
    <3>2. UNCHANGED <<chain, ut>>
      BY Zenon, <2>3 DEF preprocess, poolVars
    <3>3. Return("idle", in.source)
      BY <2>1, <3>1, <3>2
    <3>4. QED
      BY Zenon, <1>1, <3>2, <3>3, ReturnKeeps
  <2>4. CASE unwindLocalChain
    <3>1. UNCHANGED <<chain, ut>>
      BY <2>4 DEF unwindLocalChain, poolVars
    <3>2. CASE Return("unwind", input.source)
      BY Zenon, <1>1, <3>1, <3>2, ReturnKeeps
    <3>3. CASE pc["sync"] = "unwind" /\ update' = [NoUpdate EXCEPT !.reverted = Reverted]
      <4>1. update.reverted = <<>> /\ update.original = <<>>
        BY <1>1, <3>3 DEF IndInv, UpdateInv, SyncHasPool
      <4>2. QED
        BY Zenon, <1>1, <3>1, <4>1, NoRange DEF Tracked
    <3>4. QED
      BY <2>4, <3>2, <3>3 DEF unwindLocalChain, Goto
  <2>5. CASE process
    <3>1. UNCHANGED <<chain, ut>>
      BY Zenon, <2>5 DEF process, poolVars
    <3>2. Return("process", input.source)
      BY Zenon, <2>1, <2>5, <3>1 DEF process, syncVars
    <3>3. QED
      BY Zenon, <1>1, <3>1, <3>2, ReturnKeeps
  <2>6. CASE commitStorage \/ removeAll
    BY Zenon, <1>1, <2>6, CommitKeeps, RemoveAllKeeps
  <2>7. CASE applyAll
    BY Zenon, <1>1, <2>7, ApplyAllKeeps
  <2>8. CASE addAll \/ applyNew
    BY Zenon, <1>1, <2>8, NewKeeps
  <2>9. ~( \/ createDelta \/ storageModifier \/ heightModifier \/ promoteSub \/ commitSub
           \/ setHeight \/ rebase)
    BY <2>1 DEF createDelta, storageModifier, heightModifier, promoteSub, commitSub, setHeight,
                rebase, poolVars, syncVars
  <2>10. ~(lockPool \/ getAndTryLock \/ lastBlockElement \/ harvest)
    BY <2>1 DEF lockPool, getAndTryLock, lastBlockElement, harvest, createFacade, noBlock,
                generateBlock, CloseFacade, poolVars, syncVars
  <2>11. QED
    BY Zenon, <1>1, <2>2, <2>3, <2>4, <2>5, <2>6, <2>7, <2>8, <2>9, <2>10 DEF Next, sync, transactions
<1>2. IndInv /\ [Next]_vars =>
          [\A t \in Tracked : t \notin Tracked' =>
               /\ pc["sync"] = "applyAll"
               /\ \E i \in DOMAIN Attempted, n \in 0 .. Len(ut') :
                      Attempted[i] = t /\ Refused(i, n, ut')]_vars
  BY Zenon, <1>1 DEF GivenUp
<1>3. QED
  BY <1>2, Invariance, PTL DEF Spec, NoTransactionLost
===============================================================================

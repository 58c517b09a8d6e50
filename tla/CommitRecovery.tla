--------------------------- MODULE CommitRecovery ---------------------------
(***************************************************************************)
(* How a block chain commit reaches the disk, and how the recovery process *)
(* repairs the data directory when the node dies in the middle of one.     *)
(*                                                                         *)
(* The server commits in checkpointed steps (BlockChainSyncConsumer        *)
(* commitAll): stage the blocks, spool the state change, save the          *)
(* supplemental data, commit the cache, move the blocks, publish.  A crash *)
(* may come after every step, and a step is one file system operation,     *)
(* with these exceptions: a directory is written or purged in two steps,   *)
(* whatever the number of its files; a block or a message is written, and  *)
(* a message is read and removed, together with the index that counts it,  *)
(* because nobody looks at a file that its index does not count; and the   *)
(* locks and the queue of the broker are left out.  The recovery process   *)
(* (RecoveryOrchestrator) reads commit_step.dat and goes back or forward.  *)
(*                                                                         *)
(* A chain is the sequence of its blocks' scores; the block at height h is *)
(* identified with the chain that ends in it.  A cache value is the chain  *)
(* whose execution produces it.  File system operations are atomic and     *)
(* reach the disk in program order.                                        *)
(***************************************************************************)
EXTENDS Integers, Sequences

CONSTANTS
    MaxHeight,              \* longest chain
    Weights,                \* scores a block can have
    NumSubCaches,           \* sub caches of CatapultCache, committed one by one
    Configurations,         \* node configurations to consider
    MaxCrashes              \* bound: crashes in one behaviour

ASSUME ChainAssumption == MaxHeight \in Nat \ {0} /\ Weights \subseteq Nat \ {0}
ASSUME SubCachesAssumption == NumSubCaches \in Nat \ {0}
ASSUME ConfigurationAssumption ==
    Configurations \subseteq [EnableCacheDatabaseStorage : BOOLEAN, EnableAutoSyncCleanup : BOOLEAN]
ASSUME CrashesAssumption == MaxCrashes \in Nat

VARIABLES
    config,         \* the node's configuration, which never changes
    \* data directory
    storage,        \* main block storage: [index, blocks]
    staging,        \* spool/block_sync
    state,          \* state/
    stateTmp,       \* state.tmp/
    commitStep,     \* commit_step.dat
    spool,          \* message files of spool/state_change
    indexServer,    \* index_server.dat
    index,          \* index.dat
    reader,         \* index_(server|broker)_r.dat
    serverLock,     \* server.lock exists
    \* what subscribers of state changes (the broker's database) have seen
    replica,
    \* the running process
    host,           \* which process runs: "server", "recovery" or "none"
    pc,             \* its next file system operation
    cache,          \* sub caches; kept by the cache database when there is one
    cacheHeight,
    dep,            \* CatapultCache::dependentState
    score,          \* LocalNodeChainScore
    target,         \* chain being committed
    start, height,  \* first height and next height of a block loop
    sub,            \* next sub cache of a commit
    uncleaned,      \* messages the cleanup consumer has still to skip
    exiting,        \* the state is being saved because the process shuts down
    \* history
    durable,        \* chain of the last commit that passed State_Written
    windows,        \* crash windows hit so far
    crashes

queueVars == <<spool, indexServer, index, reader>>
diskVars == <<storage, staging, state, stateTmp, commitStep, serverLock>>
cacheVars == <<cache, cacheHeight, dep, score>>
loopVars == <<target, start, height, sub>>
historyVars == <<durable, windows, crashes>>
vars == <<config, diskVars, queueVars, replica, host, pc, cacheVars, loopVars, uncleaned, exiting,
          historyVars>>

-----------------------------------------------------------------------------

EnableCacheDatabaseStorage == config.EnableCacheDatabaseStorage

\* TRUE: no broker, the server drops its own messages
EnableAutoSyncCleanup == config.EnableAutoSyncCleanup

SubCaches == 1..NumSubCaches

Nemesis == <<1>>

\* every chain on top of the nemesis block
Chains ==
    {chain \in UNION {[1..n -> Weights \cup {1}] : n \in 1..MaxHeight} :
        chain[1] = 1 /\ \A h \in 2..Len(chain) : chain[h] \in Weights}

\* an empty cache, and a cache no chain produces
Unloaded == <<>>
Corrupt == <<0>>

Score(chain) ==
    LET sum[h \in 0..Len(chain)] == IF h = 0 THEN 0 ELSE sum[h - 1] + chain[h]
    IN  sum[Len(chain)]

Prefix(chain, h) == SubSeq(chain, 1, h)

IsPrefix(a, b) == Len(a) <= Len(b) /\ a = Prefix(b, Len(a))

\* where two chains part
CommonHeight(a, b) ==
    CHOOSE h \in 1..Len(a) :
        /\ h <= Len(b) /\ Prefix(a, h) = Prefix(b, h)
        /\ (h < Len(a) /\ h < Len(b)) => a[h + 1] # b[h + 1]

\* directory without supplemental.dat, one that lacks some other file, and none at all
Missing == [cache |-> Unloaded, dep |-> Unloaded, score |-> 0, height |-> 0]
Torn == [Missing EXCEPT !.cache = Corrupt]
Absent == [Missing EXCEPT !.dep = Corrupt]

NoIndex == -1
NoBlock == <<>>
Removed == [kind |-> "removed"]

EmptyStorage == [index |-> 0, blocks |-> [h \in 1..MaxHeight |-> NoBlock]]

Top(s) == s.blocks[s.index]

saveBlock(s, block) == [index |-> Len(block), blocks |-> [s.blocks EXCEPT ![Len(block)] = block]]

dropBlocksAfter(s, h) == [s EXCEPT !.index = h]

\* a directory is purged in no particular order: the index first, or the blocks
PartlyPurged(s) == {[s EXCEPT !.index = 0], [s EXCEPT !.blocks = EmptyStorage.blocks]}

\* cache changes carry the new value of every entry that differs, so they can
\* be applied to the state before them and to the state after them
Apply(value, message) == IF value \in {message.from, message.to} THEN message.to ELSE Corrupt

\* executing a stored block on a cache value
Execute(value, block) == IF value = Prefix(block, Len(block) - 1) THEN block ELSE Corrupt

-----------------------------------------------------------------------------

\* a node that was never booted: the seed holds the nemesis block and nothing else
Init ==
    /\ config \in Configurations
    /\ storage = saveBlock(EmptyStorage, Nemesis)
    /\ staging = EmptyStorage
    /\ state = Missing /\ stateTmp = Absent
    /\ commitStep = "All_Updated"   \* also what a missing commit_step.dat means
    /\ spool = <<>> /\ indexServer = 0 /\ index = NoIndex /\ reader = 0
    /\ serverLock = FALSE
    /\ replica = Unloaded
    /\ host = "none" /\ pc = "down"
    /\ cache = [s \in SubCaches |-> Unloaded]
    /\ cacheHeight = 0 /\ dep = Unloaded /\ score = 0
    /\ target = Unloaded /\ start = 1 /\ height = 1 /\ sub = 1
    /\ uncleaned = 0 /\ exiting = FALSE
    /\ durable = Nemesis /\ windows = {} /\ crashes = 0

Goto(a, b) == pc = a /\ pc' = b

\* a process ends; only the cache database keeps what it had in memory
EndProcess(p) ==
    /\ pc' = p /\ host' = "none"
    /\ cache' = IF EnableCacheDatabaseStorage THEN cache ELSE [s \in SubCaches |-> Unloaded]
    /\ cacheHeight' = 0 /\ dep' = Unloaded /\ score' = 0
    /\ target' = Unloaded /\ start' = 1 /\ height' = 1 /\ sub' = 1
    /\ uncleaned' = 0 /\ exiting' = FALSE

-----------------------------------------------------------------------------
(* State files: LocalNodeStateFileStorage *)

\* LoadStateFromDirectory: the cache database, when there is one, keeps its content
LoadState ==
    IF state = Missing
    THEN /\ cache' = [s \in SubCaches |-> Nemesis]
         /\ dep' = Nemesis /\ score' = score + 1 /\ cacheHeight' = 1
    ELSE /\ cache' = IF EnableCacheDatabaseStorage THEN cache ELSE [s \in SubCaches |-> state.cache]
         /\ dep' = state.dep /\ score' = score + state.score /\ cacheHeight' = state.height

\* a directory that lost some of its files does not load, and the nemesis block
\* can not be executed on top of a database that has been used before
LoadStateThrows ==
    \/ state = Torn
    \/ state = Missing /\ \E s \in SubCaches : cache[s] # Unloaded

moveToPurge ==
    /\ state' \in {Torn, Missing}
    /\ UNCHANGED stateTmp

moveToRename ==
    /\ state' = stateTmp
    /\ stateTmp' = Absent

\* SaveStateToDirectory: supplemental.dat is written last
BeginStateTmp == stateTmp' = IF stateTmp \in {Absent, Missing} THEN Missing ELSE Torn

\* SaveStateToDirectoryWithCheckpointing
SaveState ==
    /\ \/ /\ Goto("save", "saveTmp")
          /\ commitStep' = "Blocks_Written"
          /\ UNCHANGED <<state, stateTmp>>
       \/ /\ Goto("saveTmp", "saveTmpFiles")
          /\ BeginStateTmp
          /\ UNCHANGED <<state, commitStep>>
       \/ /\ Goto("saveTmpFiles", "saveWritten")
          /\ stateTmp' = [cache |-> cache[1], dep |-> dep, score |-> score, height |-> cacheHeight]
          /\ UNCHANGED <<state, commitStep>>
       \/ /\ Goto("saveWritten", "savePurge")
          /\ commitStep' = "State_Written"
          /\ UNCHANGED <<state, stateTmp>>
       \/ /\ Goto("savePurge", "saveRename")
          /\ moveToPurge
          /\ UNCHANGED commitStep
       \/ /\ Goto("saveRename", "saveUpdated")
          /\ moveToRename
          /\ UNCHANGED commitStep
       \/ /\ Goto("saveUpdated", IF exiting THEN "exit" ELSE "idle")
          /\ commitStep' = "All_Updated"
          /\ UNCHANGED <<state, stateTmp>>
    /\ UNCHANGED <<storage, staging, serverLock, queueVars, replica, host, cacheVars, loopVars,
                   uncleaned, exiting, historyVars>>

-----------------------------------------------------------------------------
(* The state_change queue: FileQueue *)

\* FileQueueWriter: the message file, then its index
Enqueue(message) ==
    /\ spool' = Append(SubSeq(spool, 1, indexServer), message)
    /\ indexServer' = indexServer + 1

ScoreMessage(s) == [kind |-> "score", score |-> s]
StateMessage(from, to) == [kind |-> "state", from |-> from, to |-> to]

\* FileQueueReader::process finds the next message gone
MessageMissing(position) == spool[position + 1] = Removed

RemoveMessage(position) == spool' = [spool EXCEPT ![position + 1] = Removed]

\* the registered state change subscribers: without a broker there are none
Notify(message) == replica' = IF message.kind = "state" /\ ~EnableAutoSyncCleanup THEN Apply(replica, message) ELSE replica

\* fault: messages are read before they are published
ReadUnpublished ==
    /\ reader < indexServer
    /\ ~MessageMissing(reader)
    /\ Notify(spool[reader + 1])
    /\ reader' = reader + 1 /\ RemoveMessage(reader)
    /\ UNCHANGED <<index, indexServer>>

\* FileQueueReader::tryReadNextMessage into the registered subscribers; the
\* process may end between the notification and the increment
ReadToReplica ==
    /\ reader < index
    /\ ~MessageMissing(reader)
    /\ Notify(spool[reader + 1])
    /\ \/ reader' = reader + 1 /\ RemoveMessage(reader)
       \/ UNCHANGED <<reader, spool>>
    /\ UNCHANGED <<index, indexServer>>

\* Broker state_change ingestion; the broker is its own process, which the
\* operator stops before a recovery
BrokerRead ==
    /\ ~EnableAutoSyncCleanup
    /\ host # "recovery"
    /\ ReadToReplica
    /\ UNCHANGED <<diskVars, host, pc, cacheVars, loopVars, uncleaned, exiting, historyVars>>

\* one message of skip(2) with the server's own reader
Skip == reader' = reader + 1 /\ RemoveMessage(reader)

\* BlockChainSyncCleanupConsumer
Cleanup ==
    /\ host = "server" /\ uncleaned > 0
    /\ uncleaned' = uncleaned - 1
    /\ Skip
    /\ UNCHANGED <<diskVars, index, indexServer, replica, host, pc, cacheVars, loopVars, exiting, historyVars>>

-----------------------------------------------------------------------------
(* The server: LocalNode, BlockChainSyncConsumer *)

\* LocalNode::boot up to the check of the heights
BootServer ==
    /\ host = "none" /\ ~serverLock
    /\ serverLock' = TRUE /\ exiting' = FALSE
    /\ IF state = Missing /\ ~LoadStateThrows /\ storage.index = 1
       THEN /\ pc' = "nemesis" /\ host' = "server"
            /\ UNCHANGED cacheVars
       ELSE IF state = Missing \/ LoadStateThrows \/ state.height # storage.index
            THEN /\ pc' = "bootThrew" /\ host' = "none"
                 /\ UNCHANGED cacheVars
            ELSE /\ pc' = "idle" /\ host' = "server"
                 /\ LoadState
    /\ UNCHANGED <<storage, staging, state, stateTmp, commitStep, queueVars, replica, loopVars, uncleaned, historyVars>>

\* LocalNode::executeAndNotifyNemesis
NotifyNemesis ==
    /\ \/ Goto("nemesis", "nemesisState") /\ Enqueue(ScoreMessage(1))
       \/ /\ Goto("nemesisState", IF EnableAutoSyncCleanup THEN "nemesisSkip" ELSE "nemesisLoad")
          /\ Enqueue(StateMessage(Unloaded, Nemesis))
    /\ UNCHANGED <<diskVars, index, reader, replica, host, cacheVars, loopVars, uncleaned, exiting, historyVars>>

SkipNemesis ==
    /\ Goto("nemesisSkip", "nemesisSkipLast") \/ Goto("nemesisSkipLast", "nemesisLoad")
    /\ Skip
    /\ UNCHANGED <<diskVars, index, indexServer, replica, host, cacheVars, loopVars, uncleaned, exiting, historyVars>>

\* ... then the nemesis state is loaded, and saved because this is the first boot
LoadNemesis ==
    /\ Goto("nemesisLoad", "save")
    /\ LoadState
    /\ UNCHANGED <<diskVars, queueVars, replica, host, loopVars, uncleaned, exiting, historyVars>>

\* LocalNode::shutdown; consumers have finished
ShutdownServer ==
    /\ Goto("idle", "save")
    /\ uncleaned = 0
    /\ exiting' = TRUE
    /\ UNCHANGED <<diskVars, queueVars, replica, host, cacheVars, loopVars, uncleaned, historyVars>>

\* a better chain was downloaded, executed and validated on the local state:
\* commitAll opens the storage modifier and drops the staged blocks
StartCommit(chain) ==
    /\ Goto("idle", "saveBlocks")
    /\ Score(chain) > Score(Top(storage))
    /\ \A s \in SubCaches : cache[s] = Top(storage)
    /\ target' = chain
    /\ start' = CommonHeight(chain, Top(storage)) + 1
    /\ height' = start'
    /\ staging' = dropBlocksAfter(staging, start' - 1)
    /\ UNCHANGED <<storage, state, stateTmp, commitStep, serverLock, queueVars, replica, host, cacheVars, sub,
                   uncleaned, exiting, historyVars>>

SaveBlocks ==
    /\ pc = "saveBlocks"
    /\ staging' = saveBlock(staging, Prefix(target, height))
    /\ height' = height + 1
    /\ pc' = IF height = Len(target) THEN "blocksWritten" ELSE pc
    /\ UNCHANGED <<storage, state, stateTmp, commitStep, serverLock, queueVars, replica, host, cacheVars,
                   target, start, sub, uncleaned, exiting, historyVars>>

\* fault: the checkpoint is recorded one step early
CommitBlocksAsState ==
    /\ Goto("blocksWritten", "scoreChange")
    /\ commitStep' = "State_Written"
    /\ UNCHANGED <<storage, staging, state, stateTmp, serverLock, queueVars, replica, host, cacheVars, loopVars,
                   uncleaned, exiting, historyVars>>

CommitBlocksWritten ==
    /\ Goto("blocksWritten", "scoreChange")
    /\ commitStep' = "Blocks_Written"
    /\ UNCHANGED <<storage, staging, state, stateTmp, serverLock, queueVars, replica, host, cacheVars, loopVars,
                   uncleaned, exiting, historyVars>>

\* the StateChange handler adds the score delta and spools two messages
NotifyScoreChange ==
    /\ Goto("scoreChange", "stateChange")
    /\ score' = score + Score(target) - Score(Top(storage))
    /\ Enqueue(ScoreMessage(score'))
    /\ UNCHANGED <<diskVars, index, reader, replica, host, cache, cacheHeight, dep, loopVars, uncleaned,
                   exiting, historyVars>>

NotifyStateChange ==
    /\ Goto("stateChange", IF EnableCacheDatabaseStorage THEN "preStateWritten" ELSE "stateWritten")
    /\ Enqueue(StateMessage(Top(storage), target))
    /\ UNCHANGED <<diskVars, index, reader, replica, host, cacheVars, loopVars, uncleaned, exiting, historyVars>>

\* the dependent state is updated block by block, from the one of the local chain
NewDependentState == IF dep = Top(storage) THEN target ELSE Corrupt

PreStateWritten ==
    /\ \/ Goto("preStateWritten", "preStateFiles") /\ BeginStateTmp
       \/ /\ Goto("preStateFiles", "stateWritten")
          /\ stateTmp' = [cache |-> target, dep |-> NewDependentState, score |-> score, height |-> Len(target)]
    /\ UNCHANGED <<storage, staging, state, commitStep, serverLock, queueVars, replica, host, cacheVars, loopVars,
                   uncleaned, exiting, historyVars>>

CommitStateWritten ==
    /\ Goto("stateWritten", "cacheCommit")
    /\ commitStep' = "State_Written"
    /\ durable' = target
    /\ sub' = 1
    /\ UNCHANGED <<storage, staging, state, stateTmp, serverLock, queueVars, replica, host, cacheVars,
                   target, start, height, uncleaned, exiting, windows, crashes>>

\* CatapultCache::commit, one sub cache after the other
CommitCache ==
    /\ pc = "cacheCommit"
    /\ cache' = [cache EXCEPT ![sub] = target]
    /\ sub' = sub + 1
    /\ IF sub = NumSubCaches
       THEN cacheHeight' = Len(target) /\ dep' = NewDependentState /\ pc' = "dropBlocks"
       ELSE UNCHANGED <<cacheHeight, dep, pc>>
    /\ UNCHANGED <<diskVars, queueVars, replica, host, score, target, start, height, uncleaned, exiting, historyVars>>

\* MoveBlockFiles from start to the end of the staged blocks, by the server
\* when it commits the storage and by the recovery process
MoveBlockFiles ==
    /\ \/ /\ Goto("dropBlocks", "moveBlocks")
          /\ storage' = IF start <= storage.index THEN dropBlocksAfter(storage, start - 1) ELSE storage
          /\ height' = start
          /\ UNCHANGED staging
       \/ /\ pc = "moveBlocks"
          /\ storage' = saveBlock(storage, staging.blocks[height])
          /\ height' = height + 1
          /\ pc' = IF height = staging.index THEN "purgeStaging" ELSE pc
          /\ UNCHANGED staging
       \/ /\ Goto("purgeStaging", "purgeStagingRest")
          /\ staging' \in PartlyPurged(staging)
          /\ UNCHANGED <<storage, height>>
       \/ /\ Goto("purgeStagingRest",
                  IF host = "recovery" THEN "reset"
                  ELSE IF EnableCacheDatabaseStorage THEN "purgeState" ELSE "allUpdated")
          /\ staging' = EmptyStorage
          /\ UNCHANGED <<storage, height>>
    /\ UNCHANGED <<state, stateTmp, commitStep, serverLock, queueVars, replica, host, cacheVars,
                   target, start, sub, uncleaned, exiting, historyVars>>

\* moving state.tmp over state, by the server before All_Updated and by the
\* recovery process after State_Written
MoveSupplementalDataFiles ==
    /\ \/ Goto("purgeState", "renameState") /\ moveToPurge
       \/ Goto("renameState", IF host = "recovery" THEN "findStart" ELSE "allUpdated") /\ moveToRename
    /\ UNCHANGED <<storage, staging, commitStep, serverLock, queueVars, replica, host, cacheVars, loopVars,
                   uncleaned, exiting, historyVars>>

\* CreateCommitStepHandler for All_Updated: the step first, then index.dat
CommitAllUpdated ==
    /\ Goto("allUpdated", "publish")
    /\ commitStep' = "All_Updated"
    /\ UNCHANGED <<storage, staging, state, stateTmp, serverLock, queueVars, replica, host, cacheVars, loopVars,
                   uncleaned, exiting, historyVars>>

Publish ==
    /\ Goto("publish", "idle")
    /\ index' = indexServer
    /\ uncleaned' = IF EnableAutoSyncCleanup THEN uncleaned + 2 ELSE 0
    /\ UNCHANGED <<diskVars, spool, indexServer, reader, replica, host, cacheVars, loopVars, exiting, historyVars>>

-----------------------------------------------------------------------------
(* The recovery process: RecoveryOrchestrator, RepairSpooling, RepairState *)

\* a process that was started after a crash; the operator removes a recovery.lock
\* that was left behind
StartRecovery ==
    /\ host = "none" /\ pc # "down"
    /\ host' = "recovery"
    /\ pc' = IF commitStep = "State_Written" THEN "loadState" ELSE "purgeSync"
    /\ UNCHANGED <<diskVars, queueVars, replica, cacheVars, loopVars, uncleaned, exiting, historyVars>>

\* fault: index_server.dat keeps counting messages of an unfinished commit
ReindexKeepsCount ==
    /\ Goto("reindex", "loadState")
    /\ UNCHANGED <<diskVars, queueVars, replica, host, cacheVars, loopVars, uncleaned, exiting, historyVars>>

\* RepairSpooling, when the commit was not written: block_sync is purged, and
\* index_server.dat goes back to index.dat
PurgeSync ==
    /\ \/ Goto("purgeSync", "purgeSyncRest") /\ staging' \in PartlyPurged(staging)
       \/ Goto("purgeSyncRest", "reindex") /\ staging' = EmptyStorage
    /\ UNCHANGED <<storage, state, stateTmp, commitStep, serverLock, queueVars, replica, host, cacheVars, loopVars,
                   uncleaned, exiting, historyVars>>

Reindex ==
    /\ Goto("reindex", "loadState")
    /\ indexServer' = IF index = NoIndex THEN indexServer ELSE index
    /\ UNCHANGED <<diskVars, spool, index, reader, replica, host, cacheVars, loopVars, uncleaned, exiting, historyVars>>

\* an exception out of recover ends the process, which leaves its files behind
RecoveryThrows ==
    /\ EndProcess("recoveryThrew")
    /\ UNCHANGED <<diskVars, queueVars, replica, historyVars>>

LoadedHeight == IF state = Missing THEN 1 ELSE state.height

\* the stored blocks above a height executed on a cache value, and their scores
ExecuteBlocks(value, h) ==
    LET after[k \in h..storage.index] == IF k = h THEN value ELSE Execute(after[k - 1], storage.blocks[k])
    IN  after[storage.index]

AddScores(value, h) ==
    LET sum[k \in h..storage.index] == IF k = h THEN value ELSE sum[k - 1] + storage.blocks[k][k]
    IN  sum[storage.index]

\* without a cache database the stored blocks above the saved state are executed
repairStateFromStorage ==
    LET saved == IF state = Missing THEN [Missing EXCEPT !.cache = Nemesis, !.dep = Nemesis, !.score = 1] ELSE state
    IN  /\ cache' = [s \in SubCaches |-> ExecuteBlocks(saved.cache, LoadedHeight)]
        /\ dep' = ExecuteBlocks(saved.dep, LoadedHeight)
        /\ score' = AddScores(saved.score, LoadedHeight)
        /\ cacheHeight' = storage.index

RecoveryLoadState ==
    /\ pc = "loadState"
    /\ IF LoadStateThrows \/ LoadedHeight > storage.index
       THEN RecoveryThrows
       ELSE /\ pc' = "catchUp"
            /\ IF EnableCacheDatabaseStorage THEN LoadState ELSE repairStateFromStorage
            /\ UNCHANGED <<diskVars, queueVars, replica, host, loopVars, uncleaned, exiting, historyVars>>

\* RepairState 1: registered subscribers read up to index.dat
RepairCatchUp ==
    /\ pc = "catchUp"
    /\ IF reader < index /\ MessageMissing(reader)
       THEN RecoveryThrows
       ELSE /\ \/ ReadToReplica /\ UNCHANGED pc
               \/ /\ reader >= index
                  /\ pc' = "replay"
                  /\ index' = IF index = NoIndex THEN 0 ELSE index
                  /\ UNCHANGED <<spool, indexServer, reader, replica>>
            /\ UNCHANGED <<diskVars, host, cacheVars, loopVars, uncleaned, exiting, historyVars>>

\* fault: the cache height is not committed with the last sub cache
ReplayWithoutHeight(message) ==
    IF message.kind = "state" /\ EnableCacheDatabaseStorage /\ sub <= NumSubCaches
    THEN /\ cache' = [cache EXCEPT ![sub] = Apply(cache[sub], message)]
         /\ sub' = sub + 1
         /\ UNCHANGED <<cacheHeight, score, replica, pc>>
    ELSE /\ Notify(message)
         /\ score' = IF message.kind = "score" /\ EnableCacheDatabaseStorage THEN message.score ELSE score
         /\ sub' = 1
         /\ pc' = "replayed"
         /\ UNCHANGED <<cache, cacheHeight>>

\* StateChangeRepairingSubscriber and the registered subscribers see one
\* message; the dependent state is not part of it
ReplayMessage(message) ==
    IF message.kind = "state" /\ EnableCacheDatabaseStorage /\ sub <= NumSubCaches
    THEN /\ cache' = [cache EXCEPT ![sub] = Apply(cache[sub], message)]
         /\ sub' = sub + 1
         /\ UNCHANGED <<cacheHeight, score, replica, pc>>
    ELSE /\ Notify(message)
         /\ score' = IF message.kind = "score" /\ EnableCacheDatabaseStorage THEN message.score ELSE score
         /\ cacheHeight' = IF message.kind = "state" /\ EnableCacheDatabaseStorage THEN Len(message.to) ELSE cacheHeight
         /\ sub' = 1
         /\ pc' = "replayed"
         /\ UNCHANGED cache

\* RepairState 2: repair with the messages between index.dat and index_server.dat
RepairReplay ==
    /\ pc = "replay" /\ index < indexServer
    /\ IF MessageMissing(index)
       THEN RecoveryThrows
       ELSE /\ ReplayMessage(spool[index + 1])
            /\ UNCHANGED <<diskVars, queueVars, host, dep, target, start, height, uncleaned, exiting, historyVars>>

RepairAdvance ==
    /\ \/ Goto("replayed", "removeReplayed") /\ index' = index + 1 /\ UNCHANGED spool
       \/ Goto("removeReplayed", "replay") /\ RemoveMessage(index - 1) /\ UNCHANGED index
    /\ UNCHANGED <<diskVars, indexServer, reader, replica, host, cacheVars, loopVars, uncleaned, exiting, historyVars>>

\* RepairState 3, then repairState chooses by the commit step
RepairReindex ==
    /\ Goto("replay", IF commitStep # "State_Written" THEN "purgeStateTmp"
                      ELSE IF stateTmp = Absent THEN "findStart" ELSE "purgeState")
    /\ index >= indexServer
    /\ reader' = index
    /\ UNCHANGED <<diskVars, spool, indexServer, index, replica, host, cacheVars, loopVars, uncleaned, exiting,
                   historyVars>>

PurgeStateTmp ==
    /\ \/ Goto("purgeStateTmp", "purgeStateTmpRest") /\ stateTmp # Absent /\ stateTmp' \in {Torn, Missing}
       \/ Goto("purgeStateTmpRest", "reset") /\ stateTmp' = Missing
       \/ Goto("purgeStateTmp", "reset") /\ stateTmp = Absent /\ UNCHANGED stateTmp
    /\ UNCHANGED <<storage, staging, state, commitStep, serverLock, queueVars, replica, host, cacheVars, loopVars,
                   uncleaned, exiting, historyVars>>

\* FindStartHeight of the staged blocks
FindStart ==
    /\ pc = "findStart"
    /\ IF staging.index > 0 /\ Top(staging) = NoBlock
       THEN RecoveryThrows
       ELSE /\ IF staging.index = 0
               THEN pc' = "reset" /\ UNCHANGED start
               ELSE /\ pc' = "dropBlocks"
                    /\ start' = CHOOSE h \in 1..staging.index :
                                   /\ \A i \in h..staging.index : staging.blocks[i] # NoBlock
                                   /\ h > 1 => staging.blocks[h - 1] = NoBlock
            /\ UNCHANGED <<diskVars, queueVars, replica, host, cacheVars, target, height, sub, uncleaned, exiting,
                           historyVars>>

\* fault: server.lock stays
ResetKeepsLock ==
    /\ Goto("reset", "save")
    /\ commitStep' = "All_Updated"
    /\ exiting' = TRUE
    /\ UNCHANGED <<storage, staging, state, stateTmp, serverLock, queueVars, replica, host, cacheVars, loopVars,
                   uncleaned, historyVars>>

\* CatapultSystemState::reset removes the locks, then commit_step.dat; then the
\* orchestrator is destroyed, which saves the state
ResetSystemState ==
    /\ \/ Goto("reset", "resetStep") /\ serverLock' = FALSE /\ UNCHANGED <<commitStep, exiting>>
       \/ Goto("resetStep", "save") /\ commitStep' = "All_Updated" /\ exiting' = TRUE /\ UNCHANGED serverLock
    /\ UNCHANGED <<storage, staging, state, stateTmp, queueVars, replica, host, cacheVars, loopVars, uncleaned,
                   historyVars>>

Exit ==
    /\ pc = "exit"
    /\ serverLock' = (serverLock /\ host # "server")
    /\ EndProcess("down")
    /\ UNCHANGED <<storage, staging, state, stateTmp, commitStep, queueVars, replica, historyVars>>

-----------------------------------------------------------------------------
(* Crashes *)

\* what recovery can not repair, as conditions on what a crash leaves behind

\* state/ is being replaced
StateWindow ==
    \/ state = Torn
    \/ state = Missing /\ EnableCacheDatabaseStorage /\ \E s \in SubCaches : cache[s] # Unloaded

\* state/ is ahead of the block storage
HeightWindow == LoadedHeight > storage.index

\* the first commit is not published, so index.dat does not exist
IndexWindow == index = NoIndex /\ (indexServer # 2 \/ EnableAutoSyncCleanup)

\* messages of a complete commit above index.dat
UnpublishedWindow ==
    /\ index # NoIndex /\ index < indexServer
    /\ \/ commitStep = "All_Updated"
       \/ commitStep = "Blocks_Written" /\ host = "recovery"

\* recovery consumed messages that another recovery needs
ReplayedWindow ==
    \/ pc \in {"replay", "replayed", "removeReplayed"} /\ reader < index
    \/ /\ commitStep = "State_Written" /\ host = "recovery" /\ index = indexServer
       /\ stateTmp # Absent /\ stateTmp.cache # state.cache

\* block_sync lost a block before its index
StagingWindow == commitStep = "State_Written" /\ staging.index > 0 /\ Top(staging) = NoBlock

\* recovery dies after it removed the lock, and the server may boot on State_Written
UnlockedWindow == commitStep = "State_Written" /\ ~serverLock

\* without a database, saved or stored blocks of another fork
ForkWindow ==
    /\ ~EnableCacheDatabaseStorage
    /\ \/ state # Torn /\ ~IsPrefix(state.cache, durable)
       \/ ~IsPrefix(Top(storage), durable)

CrashWindows ==
    {w \in {"state", "height", "index", "unpublished", "replayed", "staging", "unlocked", "fork"} :
        \/ w = "state" /\ StateWindow
        \/ w = "height" /\ HeightWindow
        \/ w = "index" /\ IndexWindow
        \/ w = "unpublished" /\ UnpublishedWindow
        \/ w = "replayed" /\ ReplayedWindow
        \/ w = "staging" /\ StagingWindow
        \/ w = "unlocked" /\ UnlockedWindow
        \/ w = "fork" /\ ForkWindow}

Crash ==
    /\ host # "none" /\ crashes < MaxCrashes
    /\ crashes' = crashes + 1
    /\ windows' = windows \cup CrashWindows
    /\ EndProcess("crashed")
    /\ UNCHANGED <<diskVars, queueVars, replica, durable>>

-----------------------------------------------------------------------------

ServerStep ==
    \/ BootServer \/ NotifyNemesis \/ SkipNemesis \/ LoadNemesis \/ Cleanup
    \/ SaveBlocks \/ CommitBlocksWritten \/ NotifyScoreChange \/ NotifyStateChange
    \/ PreStateWritten \/ CommitStateWritten \/ CommitCache \/ CommitAllUpdated \/ Publish

RecoveryStep ==
    \/ StartRecovery \/ PurgeSync \/ Reindex \/ RecoveryLoadState \/ RepairCatchUp \/ RepairReplay \/ RepairAdvance
    \/ RepairReindex \/ PurgeStateTmp \/ FindStart \/ ResetSystemState

SharedStep == SaveState \/ MoveBlockFiles \/ MoveSupplementalDataFiles \/ Exit

Next ==
    /\ \/ ServerStep \/ RecoveryStep \/ SharedStep
       \/ BrokerRead
       \/ ShutdownServer
       \/ \E chain \in Chains : StartCommit(chain)
       \/ Crash
    /\ UNCHANGED config

Spec == Init /\ [][Next]_vars

\* a process that runs goes on; the operator starts the server, or the recovery
\* process when a lock file was left behind
FairSpec ==
    /\ Spec
    /\ WF_vars(ServerStep /\ UNCHANGED config)
    /\ WF_vars(RecoveryStep /\ UNCHANGED config)
    /\ WF_vars(SharedStep /\ UNCHANGED config)

-----------------------------------------------------------------------------

\* A node that runs between two commits has its blocks, every sub cache, the
\* cache height and the score of one and the same chain, and it is the chain of
\* the last commit that passed the State_Written checkpoint: a commit that did
\* not get there is undone, one that did is completed, whatever the crash
\* (commitAll, RecoveryOrchestrator::recover).
NodeConsistent ==
    pc = "idle" /\ windows = {} =>
        /\ Top(storage) = durable
        /\ \A s \in SubCaches : cache[s] = durable
        /\ cacheHeight = Len(durable) /\ score = Score(durable)

\* Recovery does not throw, and with a cache database the server that boots
\* after it finds equal heights (recover, loadStateFromDisk).
RecoverySucceeds ==
    windows = {} =>
        /\ pc # "recoveryThrew"
        /\ EnableCacheDatabaseStorage => pc # "bootThrew"

\* A subscriber that has read all published messages has the state of the last
\* durable chain, and no subscriber is ever handed a change that does not
\* follow from the one before it or a change that is later undone
\* (RepairSpooling, RepairState, the All_Updated handler).
ReplicaFollows ==
    windows = {} /\ ~EnableAutoSyncCleanup =>
        /\ replica # Corrupt
        /\ pc = "idle" /\ index # NoIndex /\ reader = index => replica = durable

\* The chain the files stand for: the staged one once the state is written.
RecoverableChain ==
    IF commitStep = "State_Written" /\ staging.index > 0 /\ Top(staging) # NoBlock
    THEN Top(staging) ELSE Top(storage)

\* The commit takes effect at one file operation: the chain the data directory
\* stands for changes only when State_Written is recorded, never while blocks
\* are staged, moved or purged and never by a recovery, and only to a better one
\* (commitAll, MoveBlockFiles, RecoveryOrchestrator).
CommitIsAtomic ==
    [][windows = {} /\ RecoverableChain' # RecoverableChain =>
         pc = "stateWritten" /\ Score(RecoverableChain') > Score(RecoverableChain)]_vars

\* After a crash the node is up again, if it does not keep crashing: the server
\* boots, if need be after recovery, and when the recovered heights differ (as
\* they may without a cache database) a second recovery settles it.
ComesBack == pc = "crashed" ~> (pc = "idle" \/ windows # {})

-----------------------------------------------------------------------------
(* What comments in the code say, where it does not hold *)

\* Past the State_Written checkpoint "both blocks and state have been written
\* out to disk and can be fully restored" (commitAll): recovery does not throw
\* because the blocks of the old fork were dropped when the process died.
RestoresFromCheckpoint == windows \subseteq {"height"} => pc # "recoveryThrew"

\* The same sentence for the dependent state of the cache: after recovery it is
\* the one of the restored chain.
DependentStateRestored == pc = "idle" /\ windows = {} => dep = durable

\* "data in range (index.dat, index_server.dat] is safe to ignore"
\* (RepairSpooling): the broker does not lose a change whose blocks are stored.
IgnoredMessagesAreSafe ==
    pc = "idle" /\ windows \subseteq {"unpublished"} /\ index # NoIndex /\ reader = index => replica = Top(storage)

=============================================================================

--------------------------- MODULE ChainSynchronizer ---------------------------
(***************************************************************************)
(* The synchronizer task of the sync extension (ChainSynchronizer.cpp):    *)
(* rounds that compare the local chain with the one of a peer              *)
(* (CompareChains.cpp), pull blocks, and hand them to the block            *)
(* dispatcher, whose completions race with the rounds.  The dispatcher is  *)
(* used through its promise (OrderedPipeline): inputs are consumed and     *)
(* completed in the order of their ids.                                    *)
(*                                                                         *)
(* A chain is the sequence of its blocks' branches, nemesis first, and a   *)
(* block (and its hash) is the chain it ends, so two chains agree at a     *)
(* height exactly when their prefixes do.                                  *)
(***************************************************************************)
EXTENDS Naturals, Integers, Sequences, FiniteSetsExt, SequencesExt

CONSTANTS
    Blocks,                 \* the blocks of the network, nemesis included
    BranchScore,            \* the score of a block, by its branch
    MaxBlocksPerSyncAttempt,
    BlocksPerAnswer,        \* what the byte limit lets into one answer
    MaxRollbackBlocks,
    MaxUnprocessed,         \* 3 * MaxChainBytesPerSyncAttempt, in blocks
    DisruptorSize,
    NumIds,                 \* ids are reused after so many inputs
    MaxPushes               \* a bound on the inputs of other producers

VARIABLES
    local,          \* the chain of the local block storage
    score,          \* the local chain score
    remote,         \* the chain of the peer
    pipeline,       \* the inputs of the block dispatcher, oldest first
    lastId,         \* the id the dispatcher gave last
    elements,       \* UnprocessedElements::m_elements
    hasPendingSync, dirty,
    sync,           \* the round of the synchronizer task
    numPushes       \* inputs of other producers so far

\* There is a nemesis block, and the ids of the inputs in the ring are distinct
\* (DisruptorElementId counts in 64 bits; the ring is far smaller).
ASSUME BlocksAssumption ==
    /\ Blocks \subseteq Seq(DOMAIN BranchScore)
    /\ \E b \in Blocks : Len(b) = 1

ASSUME SizesAssumption ==
    /\ MaxBlocksPerSyncAttempt \in Nat /\ BlocksPerAnswer \in Nat /\ MaxRollbackBlocks \in Nat
    /\ DisruptorSize \in Nat /\ NumIds \in Nat \ {0} /\ DisruptorSize <= NumIds

vars == <<local, score, remote, pipeline, lastId, elements, hasPendingSync, dirty, sync,
          numPushes>>

node == <<local, score, pipeline, lastId, numPushes>>
unprocessed == <<elements, hasPendingSync, dirty>>

Score(chain) == FoldLeft(LAMBDA total, branch : total + BranchScore[branch], 0, chain)

Nemesis == CHOOSE b \in Blocks : Len(b) = 1

Idle ==
    [pc |-> "idle", localHeight |-> 0, score |-> 0, hashes |-> <<>>, height |-> 0,
     forkDepth |-> 0, range |-> <<>>, base |-> 0, failed |-> FALSE]

Init ==
    /\ local = Nemesis /\ score = Score(Nemesis)
    /\ remote = Nemesis
    /\ pipeline = <<>> /\ lastId = 0
    /\ elements = <<>> /\ hasPendingSync = FALSE /\ dirty = FALSE
    /\ sync = Idle
    /\ numPushes = 0

-------------------------------------------------------------------------------
\* The blocks of a chain from a height on, at most count of them.
BlocksFrom(chain, height, count) ==
    [i \in 1 .. Min({count, Len(chain) - height + 1}) |-> SubSeq(chain, 1, height + i - 1)]

\* The handlers of the peer: a height above its chain gets an empty answer.
Answer(chain, height, count) ==
    IF height > Len(chain) THEN <<>> ELSE BlocksFrom(chain, height, count)

NumBytes(queue) == FoldLeft(LAMBDA total, e : total + e.NumBytes, 0, queue)

HasPendingOperation(queue, pending) == NumBytes(queue) # 0 \/ pending

-------------------------------------------------------------------------------
\* The task asks a peer again: a round starts unless one is pending, too much
\* is unprocessed, or an earlier range has failed and the others still drain.
ShouldStartSync ==
    /\ sync.pc = "idle"
    /\ NumBytes(elements) < MaxUnprocessed /\ ~hasPendingSync /\ ~dirty
    /\ hasPendingSync' = TRUE
    /\ sync' = [sync EXCEPT !.pc = "empty"]
    /\ UNCHANGED <<node, remote, elements, dirty>>

\* compareChains: the emptiness and the height are read under the lock one
\* after the other, not together.
CompareOrExpand ==
    /\ sync.pc = "empty"
    /\ sync' = [sync EXCEPT !.pc = IF elements = <<>> THEN "localHeight" ELSE "maxHeight"]
    /\ UNCHANGED <<node, remote, unprocessed>>

MaxHeight(queue) == IF queue = <<>> THEN 0 ELSE Last(queue).EndHeight

Expand ==
    /\ sync.pc = "maxHeight"
    /\ sync' = [sync EXCEPT !.pc = "pull",
                            !.height = MaxHeight(elements) + 1,
                            !.base = IF elements = <<>> THEN 0 ELSE Last(elements).Id]
    /\ UNCHANGED <<node, remote, unprocessed>>

\* LocalChainApi::chainInfo reads the height and then the score.
LocalHeight ==
    /\ sync.pc = "localHeight"
    /\ sync' = [sync EXCEPT !.pc = "localScore", !.localHeight = Len(local)]
    /\ UNCHANGED <<node, remote, unprocessed>>

LocalScore ==
    /\ sync.pc = "localScore"
    /\ sync' = [sync EXCEPT !.pc = "chainInfo", !.score = score]
    /\ UNCHANGED <<node, remote, unprocessed>>

IsRemoteTooFarBehind(localHeight, remoteHeight) == localHeight - remoteHeight > MaxRollbackBlocks

\* The chain info of the peer arrives: only a better score is looked at.
CompareChainInfos ==
    /\ sync.pc = "chainInfo"
    /\ sync' = IF \/ sync.score = 0
                  \/ IsRemoteTooFarBehind(sync.localHeight, Len(remote))
                  \/ Score(remote) <= sync.score
               THEN [sync EXCEPT !.pc = "clear"]
               ELSE [sync EXCEPT !.pc = "localHashes"]
    /\ UNCHANGED <<node, remote, unprocessed>>

StartingHeight(localHeight) ==
    IF localHeight > MaxRollbackBlocks THEN localHeight - MaxRollbackBlocks ELSE 1

CalculateMaxHashesToAnalyze == Max({MaxBlocksPerSyncAttempt, MaxRollbackBlocks + 2})

\* The local hashes are read when the request is sent; a local chain that no
\* longer has the starting height is an error.
LocalHashes ==
    LET start == StartingHeight(sync.localHeight) IN
    /\ sync.pc = "localHashes"
    /\ sync' = IF start > Len(local)
               THEN [sync EXCEPT !.pc = "clear"]
               ELSE [sync EXCEPT !.pc = "hashes",
                                 !.hashes = BlocksFrom(local, start, CalculateMaxHashesToAnalyze)]
    /\ UNCHANGED <<node, remote, unprocessed>>

FindFirstDifferenceIndex(lhs, rhs) ==
    Min({i \in 0 .. Len(lhs) : i = Len(lhs) \/ i = Len(rhs) \/ lhs[i + 1] # rhs[i + 1]})

\* The hashes of the peer arrive: the common block and the fork depth.
CompareHashes ==
    LET start == StartingHeight(sync.localHeight)
        theirs == Answer(remote, start, CalculateMaxHashesToAnalyze)
        first == FindFirstDifferenceIndex(sync.hashes, theirs) IN
    /\ sync.pc = "hashes"
    /\ sync' = IF first = 0 \/ first = Len(theirs)
               THEN [sync EXCEPT !.pc = "clear", !.hashes = <<>>]
               ELSE [sync EXCEPT !.pc = "pull", !.hashes = <<>>,
                                 !.height = start + first,
                                 !.forkDepth = Len(sync.hashes) - first]
    /\ UNCHANGED <<node, remote, unprocessed>>

\* ChainBlocksFrom: an answer of the peer; the requests go on until the fork is
\* covered or the peer has no more blocks.
PullBlocks ==
    LET blocks == Answer(remote, sync.height, Min({MaxBlocksPerSyncAttempt, BlocksPerAnswer}))
        range == sync.range \o blocks IN
    /\ sync.pc = "pull"
    /\ sync' = IF range = <<>>
               THEN [sync EXCEPT !.pc = "clear"]
               ELSE IF blocks = <<>> \/ sync.forkDepth <= Len(range)
               THEN [sync EXCEPT !.pc = "add", !.range = range]
               ELSE [sync EXCEPT !.range = range, !.height = Len(Last(range)) + 1]
    /\ UNCHANGED <<node, remote, unprocessed>>

\* A request of the round fails or times out.
RemoteError ==
    /\ sync.pc \in {"chainInfo", "hashes", "pull"}
    /\ sync' = [sync EXCEPT !.pc = "clear"]
    /\ UNCHANGED <<node, remote, unprocessed>>

NextId == (lastId % NumIds) + 1

ElementInfo(id, range) == [Id |-> id, EndHeight |-> Len(Last(range)), NumBytes |-> Len(range)]

AddedWhenFull(isFull) == Append(elements, ElementInfo(NextId, sync.range))

\* The elements after add: nothing is queued when the disruptor is full.
Added(isFull) ==
    IF isFull THEN elements ELSE Append(elements, ElementInfo(NextId, sync.range))

\* A range is not handed over once an earlier one has failed.
IsRejected == dirty

\* The range is handed to the dispatcher under the lock of the elements.
Add ==
    LET isFull == Len(pipeline) = DisruptorSize IN
    /\ sync.pc = "add"
    /\ sync' = [sync EXCEPT !.pc = "clear"]
    /\ IF IsRejected
       THEN UNCHANGED <<elements, pipeline, lastId>>
       ELSE /\ elements' = Added(isFull)
            /\ IF isFull
               THEN UNCHANGED <<pipeline, lastId>>
               ELSE /\ pipeline' = Append(pipeline, [id |-> NextId, own |-> TRUE,
                                                     range |-> sync.range, status |-> "queued"])
                    /\ lastId' = NextId
    /\ UNCHANGED <<local, score, remote, hasPendingSync, dirty, numPushes>>

DirtyForever == dirty

\* The dirtiness after the round: it stays while ranges still drain.
DirtyAfterSync == dirty /\ HasPendingOperation(elements, FALSE)

ClearPendingSync ==
    /\ sync.pc = "clear"
    /\ hasPendingSync' = FALSE
    /\ dirty' = DirtyAfterSync
    /\ sync' = Idle
    /\ UNCHANGED <<node, remote, elements>>

-------------------------------------------------------------------------------
\* Another producer (a pushed or a harvested block) uses the dispatcher too.
Push ==
    /\ Len(pipeline) < DisruptorSize /\ numPushes < MaxPushes
    /\ numPushes' = numPushes + 1
    /\ \E b \in Blocks :
        pipeline' = Append(pipeline, [id |-> NextId, own |-> FALSE,
                                      range |-> <<b>>, status |-> "queued"])
    /\ lastId' = NextId
    /\ UNCHANGED <<local, score, remote, unprocessed, sync>>

IsLinked(start, own) == start >= 2 /\ start <= Len(local) + 1 /\ (own \/ Len(local) <= start)

\* preprocess and process of BlockChainSyncConsumer: the range is linked, not
\* too far behind, continues a local block, and has a better score.
IsAcceptable(input) ==
    LET start == Len(input.range[1]) IN
    /\ IsLinked(start, input.own)
    /\ ~(Len(local) - start > MaxRollbackBlocks)
    /\ Front(input.range[1]) = SubSeq(local, 1, start - 1)
    /\ \A i \in 1 .. Len(input.range) - 1 : Front(input.range[i + 1]) = input.range[i]
    /\ Score(Last(input.range)) > Score(local)

\* The input the block chain sync consumer is given next.
Current == {i \in DOMAIN pipeline :
                /\ pipeline[i].status = "queued"
                /\ \A j \in 1 .. i - 1 : pipeline[j].status \in {"normal", "aborted"}}

\* The score is updated by the state change, before the storage is committed.
Accept ==
    \E i \in Current :
        /\ IsAcceptable(pipeline[i])
        /\ score' = Score(Last(pipeline[i].range))
        /\ pipeline' = [pipeline EXCEPT ![i].status = "writing"]
        /\ UNCHANGED <<local, lastId, remote, numPushes, unprocessed, sync>>

Commit ==
    \E i \in DOMAIN pipeline :
        /\ pipeline[i].status = "writing"
        /\ local' = Last(pipeline[i].range)
        /\ pipeline' = [pipeline EXCEPT ![i].status = "normal"]
        /\ UNCHANGED <<score, lastId, remote, numPushes, unprocessed, sync>>

\* Any other consumer may abort an input, an acceptable one too.
Abort ==
    \E i \in Current :
        /\ pipeline' = [pipeline EXCEPT ![i].status = "aborted"]
        /\ UNCHANGED <<local, score, lastId, remote, numPushes, unprocessed, sync>>

DirtyIgnoresSync(rest, status) == NumBytes(rest) # 0 /\ status # "normal"

\* The dirtiness after a completion; rest are the elements left.
DirtyAfter(rest, status) == HasPendingOperation(rest, hasPendingSync) /\ status # "normal"

\* UnprocessedElements::remove, called back for the inputs of the synchronizer.
RemoveElement(status) ==
    /\ elements' = Tail(elements)
    /\ dirty' = DirtyAfter(Tail(elements), status)
    /\ sync' = [sync EXCEPT !.failed = @ \/ (sync.base = Head(elements).Id /\ status # "normal")]
    /\ UNCHANGED hasPendingSync

\* The oldest input is completed.
Complete ==
    /\ pipeline # <<>>
    /\ Head(pipeline).status \in {"normal", "aborted"}
    /\ pipeline' = Tail(pipeline)
    /\ IF Head(pipeline).own
       THEN RemoveElement(Head(pipeline).status)
       ELSE UNCHANGED <<unprocessed, sync>>
    /\ UNCHANGED <<local, score, lastId, remote, numPushes>>

\* The peer adopts a better chain.
RemoteAdvances ==
    /\ \E b \in Blocks : Score(b) > Score(remote) /\ remote' = b
    /\ UNCHANGED <<node, unprocessed, sync>>

-------------------------------------------------------------------------------
Next ==
    \/ ShouldStartSync \/ CompareOrExpand \/ Expand
    \/ LocalHeight \/ LocalScore \/ CompareChainInfos
    \/ LocalHashes \/ CompareHashes
    \/ PullBlocks \/ RemoteError \/ Add \/ ClearPendingSync
    \/ Push \/ Accept \/ Commit \/ Abort \/ Complete
    \/ RemoteAdvances

Spec == Init /\ [][Next]_vars

\* The task is scheduled again and runs, the dispatcher's threads run, and a
\* request or a range that is tried again and again is not refused forever.
FairSpec ==
    /\ Spec
    /\ WF_vars(ShouldStartSync) /\ WF_vars(CompareOrExpand) /\ WF_vars(Expand)
    /\ WF_vars(LocalHeight) /\ WF_vars(LocalScore) /\ WF_vars(LocalHashes)
    /\ WF_vars(Add) /\ WF_vars(ClearPendingSync) /\ WF_vars(Commit) /\ WF_vars(Complete)
    /\ WF_vars(Accept \/ Abort)
    /\ SF_vars(CompareChainInfos) /\ SF_vars(CompareHashes) /\ SF_vars(PullBlocks)
    /\ SF_vars(Accept)

-------------------------------------------------------------------------------
OwnInputs == {i \in DOMAIN pipeline : pipeline[i].own}

\* The elements the synchronizer waits for are its inputs in the dispatcher, in
\* the same order: remove never meets another id at the front of its queue (it
\* would throw) nor an empty queue (ChainSynchronizer.cpp:98-107), although
\* other producers share the dispatcher and completions race with add.
CompletionsMatch ==
    \E slot \in [DOMAIN elements -> OwnInputs] :
        /\ OwnInputs \subseteq Range(slot)
        /\ \A j, k \in DOMAIN elements : j < k => slot[j] < slot[k]
        /\ \A k \in DOMAIN elements : elements[k].Id = pipeline[slot[k]].id

\* Blocks that were pulled on top of a range still being processed are not
\* handed over once that range is known to have failed (the dirty flag of
\* ChainSynchronizer.cpp:74-77, 106 and 113-114).
NoRangeBehindFailure == [][Len(elements') > Len(elements) => ~sync.failed]_vars

\* The storage never drops more blocks than MaxRollbackBlocks in one
\* reorganization (BlockChainSyncConsumer.cpp:156-159).
RollbackBounded ==
    [][local' # local =>
        Len(local) - Len(LongestCommonPrefix({local, local'})) <= MaxRollbackBlocks]_vars

\* The fork between the chains is within the reach of the comparison.
ForkIsResolvable ==
    /\ Len(local) - Len(LongestCommonPrefix({local, remote})) <= MaxRollbackBlocks
    /\ Len(local) - Len(remote) <= MaxRollbackBlocks

\* Whatever completes, fails or is aborted in between, the rounds go on and the
\* node ends with a chain at least as good as the one of its peer, unless the
\* fork is deeper than may be rolled back (ChainSynchronizer.cpp:243-299).
CatchesUp == <>[](ForkIsResolvable => score >= Score(remote))
===============================================================================

------------------------ MODULE ChainSynchronizerProofs ------------------------
(***************************************************************************)
(* The queue of unprocessed elements and the dirty flag of the chain       *)
(* synchronizer, for any chains, any ring and any number of other inputs.  *)
(* The argument has two parts: the queue is the synchronizer's share of    *)
(* the dispatcher, and while a round that expands on an earlier range is   *)
(* pulling, that range is either still the last of the queue, or done, or  *)
(* known to have failed.                                                   *)
(***************************************************************************)
EXTENDS ChainSynchronizer, SequenceTheorems, WellFoundedInduction, TLAPS

Chain == Seq(DOMAIN BranchScore)

Input ==
    [id : 1 .. NumIds, own : BOOLEAN, range : Seq(Chain),
     status : {"queued", "writing", "normal", "aborted"}]

Element == [Id : 1 .. NumIds, EndHeight : Nat, NumBytes : Nat]

Labels == {"idle", "empty", "localHeight", "maxHeight", "localScore", "chainInfo", "localHashes",
           "hashes", "pull", "add", "clear"}

\* A score is a fold over a chain and is not typed: nothing below reads it.
RoundTypeOK ==
    /\ DOMAIN sync = DOMAIN Idle
    /\ sync.pc \in Labels
    /\ sync.localHeight \in Nat /\ sync.height \in Nat /\ sync.forkDepth \in Int
    /\ sync.hashes \in Seq(Chain) /\ sync.range \in Seq(Chain)
    /\ sync.base \in 0 .. NumIds /\ sync.failed \in BOOLEAN
    /\ sync.pc = "pull" => sync.height > 0
    /\ sync.pc = "add" => sync.range # <<>>

TypeOK ==
    /\ local \in Chain /\ remote \in Chain
    /\ pipeline \in Seq(Input) /\ Len(pipeline) <= DisruptorSize
    /\ \A i \in DOMAIN pipeline : pipeline[i].range # <<>>
    /\ lastId \in 0 .. NumIds
    /\ elements \in Seq(Element)
    /\ hasPendingSync \in BOOLEAN /\ dirty \in BOOLEAN
    /\ RoundTypeOK

\* The id of the input with k others behind it, counting back from the last.
IdBehind(k) == IF lastId > k THEN lastId - k ELSE lastId - k + NumIds

IdsConsecutive ==
    /\ pipeline # <<>> => lastId > 0
    /\ \A i \in DOMAIN pipeline : pipeline[i].id = IdBehind(Len(pipeline) - i)

\* A round is pending from shouldStartSync to clearPendingSync.
RoundPending == sync.pc # "idle" => hasPendingSync

\* Only a round that expands builds on an unprocessed range, which is not yet
\* chosen in the earlier steps of the round.
BaseChosen ==
    /\ sync.base # 0 => sync.pc \in {"pull", "add", "clear"}
    /\ sync.failed => sync.base # 0

\* While the round pulls, nothing is queued behind the range it builds on.
BaseIsLast ==
    sync.pc \in {"pull", "add"} /\ sync.base # 0 /\ elements # <<>> => Last(elements).Id = sync.base

\* The failure of that range is known from the dirty flag until the round ends.
FailureKnown == sync.pc \in {"pull", "add"} /\ sync.failed => dirty /\ elements = <<>>

IndInv ==
    /\ TypeOK
    /\ IdsConsecutive
    /\ CompletionsMatch
    /\ RoundPending /\ BaseChosen /\ BaseIsLast /\ FailureKnown

-------------------------------------------------------------------------------
\* A non-empty set of naturals has its Min (FiniteSetsExt) among its members.
LEMMA NatMin ==
    ASSUME NEW S \in SUBSET Nat, S # {}
    PROVE  Min(S) \in S /\ \A y \in S : Min(S) <= y
<1> DEFINE R == OpToRel(<, Nat)
<1>1. IsWellFoundedOn(R, Nat)
  BY Zenon, NatLessThanWellFounded
<1> HIDE DEF R
<1>2. PICK x \in S : \A y \in S : <<y, x>> \notin R
  BY Zenon, <1>1, WFMin
<1>3. ASSUME NEW y \in S, ~(x <= y) PROVE FALSE
  <2>1. x \in Nat /\ y \in Nat /\ y < x
    BY <1>3
  <2>2. <<y, x>> \in R
    BY <2>1 DEF R, OpToRel
  <2>3. QED
    BY <1>2, <2>2, Zenon
<1>4. QED
  BY Zenon, <1>3 DEF Min

\* The smaller of two naturals.
LEMMA PairMin ==
    ASSUME NEW a \in Nat, NEW b \in Nat
    PROVE  Min({a, b}) \in Nat /\ Min({a, b}) <= a /\ Min({a, b}) <= b
BY NatMin, {a, b} \in SUBSET Nat, {a, b} # {}

\* A part of a chain is a sequence of chains, one for each of its blocks.
LEMMA BlocksFromType ==
    ASSUME NEW chain \in Chain, NEW height \in Nat \ {0}, height <= Len(chain), NEW count \in Nat
    PROVE  BlocksFrom(chain, height, count) \in Seq(Chain)
<1> DEFINE n == Min({count, Len(chain) - height + 1})
<1>1. n \in Nat /\ n <= Len(chain) - height + 1
  <2>1. Len(chain) \in Nat
    BY DEF Chain
  <2> DEFINE m == Len(chain) - height + 1
  <2>2. m \in Nat
    BY <2>1
  <2> HIDE DEF m
  <2>3. Min({count, m}) \in Nat /\ Min({count, m}) <= m
    BY <2>2, PairMin, Zenon
  <2>4. QED
    BY <2>2, <2>3 DEF m
<1> HIDE DEF n
<1>2. \A i \in 1 .. n : SubSeq(chain, 1, height + i - 1) \in Chain
  <2> TAKE i \in 1 .. n
  <2>1. Len(chain) \in Nat /\ height + i - 1 \in Int /\ height + i - 1 <= Len(chain)
    BY <1>1 DEF Chain
  <2>2. \A j \in 1 .. height + i - 1 : chain[j] \in DOMAIN BranchScore
    BY <2>1, ElementOfSeq DEF Chain
  <2>3. QED
    BY <2>1, <2>2, SubSeqProperties DEF Chain
<1>3. [i \in 1 .. n |-> SubSeq(chain, 1, height + i - 1)] \in [1 .. n -> Chain]
  BY <1>2
<1>4. QED
  BY ZenonT(30), <1>1, <1>3, SeqDef DEF BlocksFrom, n

\* The answer of a peer, whatever is asked for.
LEMMA AnswerType ==
    ASSUME NEW chain \in Chain, NEW height \in Nat \ {0}, NEW count \in Nat
    PROVE  Answer(chain, height, count) \in Seq(Chain)
<1>1. Len(chain) \in Nat /\ <<>> \in Seq(Chain)
  BY EmptySeq DEF Chain
<1>2. QED
  BY SMTT(30), <1>1, BlocksFromType DEF Answer

\* The starting height and the number of the hashes of a round.
LEMMA HashesTypes ==
    ASSUME NEW height \in Nat
    PROVE  /\ StartingHeight(height) \in Nat \ {0}
           /\ CalculateMaxHashesToAnalyze \in Nat
<1>1. StartingHeight(height) \in Nat \ {0}
  BY SizesAssumption DEF StartingHeight
<1> DEFINE sizes == {MaxBlocksPerSyncAttempt, MaxRollbackBlocks + 2}
<1>2. sizes \subseteq Nat /\ \E x \in sizes : \A y \in sizes : x >= y
  BY SizesAssumption
<1> HIDE DEF sizes
<1>3. Max(sizes) \in sizes
  BY Zenon, <1>2 DEF Max
<1>4. QED
  BY <1>1, <1>2, <1>3 DEF CalculateMaxHashesToAnalyze, sizes

\* NextId counts around the ids.
LEMMA NextIdValue ==
    ASSUME lastId \in 0 .. NumIds
    PROVE  /\ NextId \in 1 .. NumIds
           /\ NextId = IF lastId = NumIds THEN 1 ELSE lastId + 1
<1>1. NumIds \in Nat \ {0}
  BY SizesAssumption
<1>2. lastId % NumIds = IF lastId = NumIds THEN 0 ELSE lastId
  BY <1>1
<1>3. QED
  BY <1>1, <1>2 DEF NextId

\* No two inputs in the ring have the same id.
LEMMA IdsDistinct ==
    ASSUME TypeOK, IdsConsecutive, NEW i \in DOMAIN pipeline, NEW j \in DOMAIN pipeline,
           pipeline[i].id = pipeline[j].id
    PROVE  i = j
<1>1. Len(pipeline) \in Nat /\ DOMAIN pipeline = 1 .. Len(pipeline) /\ Len(pipeline) <= NumIds
  BY SizesAssumption DEF TypeOK
<1>2. QED
  BY SMTT(30), <1>1, SizesAssumption DEF TypeOK, IdsConsecutive, IdBehind

-------------------------------------------------------------------------------
LEMMA InitInv == Init => IndInv
<1> SUFFICES ASSUME Init PROVE IndInv
  OBVIOUS
<1>1. Nemesis \in Chain
  BY BlocksAssumption DEF Nemesis, Chain
<1>2. TypeOK
  <2>1. RoundTypeOK
    BY SizesAssumption DEF Init, Idle, RoundTypeOK, Labels
  <2>2. pipeline \in Seq(Input) /\ Len(pipeline) = 0 /\ elements \in Seq(Element)
    BY EmptySeq DEF Init
  <2>3. DOMAIN pipeline = {}
    BY DEF Init
  <2>4. 0 <= DisruptorSize /\ 0 \in 0 .. NumIds
    BY SizesAssumption
  <2>5. QED
    BY <1>1, <2>1, <2>2, <2>3, <2>4, Zenon DEF Init, TypeOK
<1>3. CompletionsMatch
  <2>1. DOMAIN elements = {} /\ OwnInputs = {}
    BY DEF Init, OwnInputs
  <2> DEFINE slot == [k \in DOMAIN elements |-> 0]
  <2>2. slot \in [DOMAIN elements -> OwnInputs]
    BY <2>1
  <2>3. QED
    BY Zenon, <2>1, <2>2 DEF CompletionsMatch
<1>4. QED
  BY <1>2, <1>3 DEF Init, Idle, IndInv, IdsConsecutive, RoundPending, BaseChosen, BaseIsLast,
                    FailureKnown

\* A step that leaves the queue and the dispatcher alone keeps their relation.
LEMMA QueueUnchanged ==
    ASSUME IndInv, UNCHANGED <<pipeline, lastId, elements>>
    PROVE  IdsConsecutive' /\ CompletionsMatch'
BY DEF IndInv, IdsConsecutive, IdBehind, CompletionsMatch, OwnInputs

\* A step of the round changes nothing but the round.
LEMMA RoundStep ==
    ASSUME IndInv, UNCHANGED <<node, remote, unprocessed>>, sync.pc # "idle",
           RoundTypeOK', BaseChosen', BaseIsLast', FailureKnown'
    PROVE  IndInv'
<1>1. IdsConsecutive' /\ CompletionsMatch'
  BY QueueUnchanged DEF node, unprocessed
<1>2. TypeOK'
  BY DEF IndInv, TypeOK, node, unprocessed
<1>3. QED
  BY Zenon, <1>1, <1>2 DEF IndInv, RoundPending, unprocessed

\* The steps before the range to build on is chosen, and those after it.
LEMMA EarlyRoundStep ==
    ASSUME IndInv, UNCHANGED <<node, remote, unprocessed>>, RoundTypeOK',
           sync.pc \notin {"idle", "pull", "add", "clear"},
           sync'.base = sync.base, sync'.failed = sync.failed
    PROVE  IndInv'
<1>1. sync'.base = 0 /\ ~sync'.failed
  BY ZenonT(30) DEF IndInv, BaseChosen, TypeOK, RoundTypeOK
<1>2. QED
  BY Zenon, <1>1, RoundStep DEF BaseChosen, BaseIsLast, FailureKnown

LEMMA LateRoundStep ==
    ASSUME IndInv, UNCHANGED <<node, remote, unprocessed>>, RoundTypeOK',
           sync.pc \in {"pull", "add"}, sync'.pc \in {"pull", "add", "clear"},
           sync'.base = sync.base, sync'.failed = sync.failed
    PROVE  IndInv'
<1>1. BaseChosen' /\ BaseIsLast' /\ FailureKnown'
  BY DEF IndInv, BaseChosen, BaseIsLast, FailureKnown, unprocessed
<1>2. QED
  BY <1>1, RoundStep

LEMMA CompareOrExpandInv == IndInv /\ CompareOrExpand => IndInv'
<1> SUFFICES ASSUME IndInv, CompareOrExpand PROVE IndInv'
  OBVIOUS
<1>1. RoundTypeOK' /\ sync'.base = sync.base /\ sync'.failed = sync.failed
  BY DEF IndInv, TypeOK, RoundTypeOK, CompareOrExpand, Idle, Labels
<1>2. QED
  BY <1>1, EarlyRoundStep DEF CompareOrExpand

\* The round builds on the last unprocessed range from here on.
LEMMA ExpandInv == IndInv /\ Expand => IndInv'
<1> SUFFICES ASSUME IndInv, Expand PROVE IndInv'
  OBVIOUS
<1>1. elements # <<>> => Last(elements) \in Element
  BY DEF IndInv, TypeOK, Last
<1>2. MaxHeight(elements) \in Nat
  BY <1>1 DEF MaxHeight, Element
<1>3. sync'.base \in 0 .. NumIds
  BY SMTT(30), <1>1, SizesAssumption DEF Expand, Element, IndInv, TypeOK, RoundTypeOK, Idle
<1>4. RoundTypeOK'
  BY <1>2, <1>3 DEF IndInv, TypeOK, RoundTypeOK, Expand, Idle, Labels
<1>5. ~sync.failed
  BY DEF IndInv, BaseChosen, Expand
<1>6. BaseChosen' /\ BaseIsLast' /\ FailureKnown'
  BY <1>5 DEF Expand, IndInv, TypeOK, RoundTypeOK, Idle, BaseChosen, BaseIsLast, FailureKnown,
              unprocessed
<1>7. QED
  BY <1>4, <1>6, RoundStep DEF Expand

LEMMA LocalHeightInv == IndInv /\ LocalHeight => IndInv'
<1> SUFFICES ASSUME IndInv, LocalHeight PROVE IndInv'
  OBVIOUS
<1>1. RoundTypeOK' /\ sync'.base = sync.base /\ sync'.failed = sync.failed
  BY DEF IndInv, TypeOK, RoundTypeOK, LocalHeight, Idle, Labels, Chain
<1>2. QED
  BY <1>1, EarlyRoundStep DEF LocalHeight

LEMMA LocalScoreInv == IndInv /\ LocalScore => IndInv'
<1> SUFFICES ASSUME IndInv, LocalScore PROVE IndInv'
  OBVIOUS
<1>1. RoundTypeOK' /\ sync'.base = sync.base /\ sync'.failed = sync.failed
  BY DEF IndInv, TypeOK, RoundTypeOK, LocalScore, Idle, Labels
<1>2. QED
  BY <1>1, EarlyRoundStep DEF LocalScore

LEMMA CompareChainInfosInv == IndInv /\ CompareChainInfos => IndInv'
<1> SUFFICES ASSUME IndInv, CompareChainInfos PROVE IndInv'
  OBVIOUS
<1>1. sync' \in {[sync EXCEPT !.pc = "clear"], [sync EXCEPT !.pc = "localHashes"]}
  BY DEF CompareChainInfos
<1>2. RoundTypeOK' /\ sync'.base = sync.base /\ sync'.failed = sync.failed
  BY ZenonT(30), <1>1 DEF IndInv, TypeOK, RoundTypeOK, Idle, Labels
<1>3. QED
  BY <1>2, EarlyRoundStep DEF CompareChainInfos

LEMMA LocalHashesInv == IndInv /\ LocalHashes => IndInv'
<1> SUFFICES ASSUME IndInv, LocalHashes PROVE IndInv'
  OBVIOUS
<1> DEFINE start == StartingHeight(sync.localHeight)
           hashes == BlocksFrom(local, start, CalculateMaxHashesToAnalyze)
<1>1. sync.localHeight \in Nat /\ local \in Chain /\ Len(local) \in Nat
  BY DEF IndInv, TypeOK, RoundTypeOK, Chain
<1>2. ~(start > Len(local)) => hashes \in Seq(Chain)
  <2>1. start \in Nat \ {0} /\ CalculateMaxHashesToAnalyze \in Nat
    BY Zenon, <1>1, HashesTypes
  <2> HIDE DEF start
  <2>2. ~(start > Len(local)) => start <= Len(local)
    BY <1>1, <2>1
  <2>3. QED
    BY <1>1, <2>1, <2>2, BlocksFromType, Zenon
<1>3. sync' = IF start > Len(local) THEN [sync EXCEPT !.pc = "clear"]
              ELSE [sync EXCEPT !.pc = "hashes", !.hashes = hashes]
  BY DEF LocalHashes
<1> HIDE DEF start, hashes
<1>4. RoundTypeOK' /\ sync'.base = sync.base /\ sync'.failed = sync.failed
  BY <1>2, <1>3 DEF IndInv, TypeOK, RoundTypeOK, Idle, Labels
<1>5. QED
  BY <1>4, EarlyRoundStep DEF LocalHashes

\* FindFirstDifferenceIndex is an index of the first of the two.
LEMMA FirstDifferenceType ==
    ASSUME NEW lhs \in Seq(Chain), NEW rhs
    PROVE  FindFirstDifferenceIndex(lhs, rhs) \in Nat
<1> DEFINE S == {i \in 0 .. Len(lhs) : i = Len(lhs) \/ i = Len(rhs) \/ lhs[i + 1] # rhs[i + 1]}
<1>1. Len(lhs) \in S /\ S \in SUBSET Nat
  OBVIOUS
<1> HIDE DEF S
<1>2. Min(S) \in Nat
  BY Zenon, <1>1, NatMin
<1>3. QED
  BY <1>2 DEF FindFirstDifferenceIndex, S

LEMMA CompareHashesInv == IndInv /\ CompareHashes => IndInv'
<1> SUFFICES ASSUME IndInv, CompareHashes PROVE IndInv'
  OBVIOUS
<1> DEFINE start == StartingHeight(sync.localHeight)
           theirs == Answer(remote, start, CalculateMaxHashesToAnalyze)
           first == FindFirstDifferenceIndex(sync.hashes, theirs)
<1>1. start \in Nat \ {0}
  BY Zenon, HashesTypes DEF IndInv, TypeOK, RoundTypeOK
<1>2. first \in Nat
  BY FirstDifferenceType DEF IndInv, TypeOK, RoundTypeOK
<1>3. sync' \in {[sync EXCEPT !.pc = "clear", !.hashes = <<>>],
                 [sync EXCEPT !.pc = "pull", !.hashes = <<>>, !.height = start + first,
                              !.forkDepth = Len(sync.hashes) - first]}
  BY DEF CompareHashes
<1> HIDE DEF start, first
<1>4. <<>> \in Seq(Chain) /\ Len(sync.hashes) \in Nat
  BY EmptySeq DEF IndInv, TypeOK, RoundTypeOK
<1>5. RoundTypeOK' /\ sync'.base = sync.base /\ sync'.failed = sync.failed
  <2>1. CASE sync' = [sync EXCEPT !.pc = "clear", !.hashes = <<>>]
    BY <1>4, <2>1 DEF IndInv, TypeOK, RoundTypeOK, Idle, Labels
  <2>2. CASE sync' = [sync EXCEPT !.pc = "pull", !.hashes = <<>>, !.height = start + first,
                                  !.forkDepth = Len(sync.hashes) - first]
    BY <1>1, <1>2, <1>4, <2>2 DEF IndInv, TypeOK, RoundTypeOK, Idle, Labels
  <2>3. QED
    BY <1>3, <2>1, <2>2
<1>6. QED
  BY <1>5, EarlyRoundStep DEF CompareHashes

LEMMA PullBlocksInv == IndInv /\ PullBlocks => IndInv'
<1> SUFFICES ASSUME IndInv, PullBlocks PROVE IndInv'
  OBVIOUS
<1> DEFINE count == Min({MaxBlocksPerSyncAttempt, BlocksPerAnswer})
           blocks == Answer(remote, sync.height, count)
           range == sync.range \o blocks
<1>1. count \in Nat
  BY PairMin, SizesAssumption, Zenon
<1>2. sync.height \in Nat \ {0} /\ remote \in Chain /\ sync.range \in Seq(Chain)
  BY DEF IndInv, TypeOK, RoundTypeOK, PullBlocks
<1>3. blocks \in Seq(Chain)
  BY Zenon, <1>1, <1>2, AnswerType
<1>4. \/ sync' = [sync EXCEPT !.pc = "clear"]
      \/ range # <<>> /\ sync' = [sync EXCEPT !.pc = "add", !.range = range]
      \/ /\ range # <<>>
         /\ sync' = [sync EXCEPT !.range = range, !.height = Len(Last(range)) + 1]
  BY Zenon DEF PullBlocks
<1> HIDE DEF blocks
<1>5. range \in Seq(Chain)
  BY <1>2, <1>3
<1> HIDE DEF range
<1> DEFINE height == Len(Last(range)) + 1
<1>6. range # <<>> => height \in Nat \ {0}
  BY <1>5 DEF Last, Chain
<1> HIDE DEF height
<1>7. /\ RoundTypeOK' /\ sync'.base = sync.base /\ sync'.failed = sync.failed
      /\ sync'.pc \in {"pull", "add", "clear"}
  <2>1. CASE sync' = [sync EXCEPT !.pc = "clear"]
    BY <2>1 DEF IndInv, TypeOK, RoundTypeOK, Idle, Labels
  <2>2. CASE range # <<>> /\ sync' = [sync EXCEPT !.pc = "add", !.range = range]
    BY <1>5, <2>2 DEF IndInv, TypeOK, RoundTypeOK, Idle, Labels
  <2>3. CASE /\ range # <<>>
             /\ sync' = [sync EXCEPT !.range = range, !.height = height]
    <3>1. sync.pc = "pull"
      BY DEF PullBlocks
    <3>2. QED
      BY <1>5, <1>6, <2>3, <3>1 DEF IndInv, TypeOK, RoundTypeOK, Idle, Labels
  <2>4. QED
    BY Zenon, <1>4, <2>1, <2>2, <2>3 DEF height
<1>8. QED
  BY Zenon, <1>7, LateRoundStep DEF PullBlocks

LEMMA RemoteErrorInv == IndInv /\ RemoteError => IndInv'
<1> SUFFICES ASSUME IndInv, RemoteError PROVE IndInv'
  OBVIOUS
<1>1. /\ RoundTypeOK' /\ sync'.base = sync.base /\ sync'.failed = sync.failed
      /\ sync'.pc = "clear"
  BY DEF IndInv, TypeOK, RoundTypeOK, RemoteError, Idle, Labels
<1>2. QED
  BY <1>1, EarlyRoundStep, LateRoundStep DEF RemoteError

-------------------------------------------------------------------------------
LEMMA ShouldStartSyncInv == IndInv /\ ShouldStartSync => IndInv'
<1> SUFFICES ASSUME IndInv, ShouldStartSync PROVE IndInv'
  OBVIOUS
<1>1. RoundTypeOK' /\ sync'.base = sync.base /\ sync'.failed = sync.failed /\ sync'.pc = "empty"
  BY DEF IndInv, TypeOK, RoundTypeOK, ShouldStartSync, Idle, Labels
<1>2. IdsConsecutive' /\ CompletionsMatch'
  BY QueueUnchanged DEF ShouldStartSync, node
<1>3. TypeOK'
  BY <1>1 DEF IndInv, TypeOK, ShouldStartSync, node
<1>4. QED
  BY <1>1, <1>2, <1>3 DEF IndInv, ShouldStartSync, RoundPending, BaseChosen, BaseIsLast,
                          FailureKnown

LEMMA ClearPendingSyncInv == IndInv /\ ClearPendingSync => IndInv'
<1> SUFFICES ASSUME IndInv, ClearPendingSync PROVE IndInv'
  OBVIOUS
<1>1. RoundTypeOK' /\ sync'.base = 0 /\ sync'.failed = FALSE /\ sync'.pc = "idle"
  BY EmptySeq, SizesAssumption DEF RoundTypeOK, ClearPendingSync, Idle, Labels
<1>2. IdsConsecutive' /\ CompletionsMatch'
  BY QueueUnchanged DEF ClearPendingSync, node
<1>3. TypeOK'
  BY Zenon, <1>1 DEF IndInv, TypeOK, ClearPendingSync, DirtyAfterSync, HasPendingOperation, node
<1>4. QED
  BY Zenon, <1>1, <1>2, <1>3 DEF IndInv, RoundPending, BaseChosen, BaseIsLast, FailureKnown

-------------------------------------------------------------------------------
\* An input that enters the ring gets the next id.
LEMMA AppendIds ==
    ASSUME TypeOK, IdsConsecutive, Len(pipeline) < DisruptorSize,
           NEW input \in Input, input.id = NextId,
           pipeline' = Append(pipeline, input), lastId' = NextId
    PROVE  /\ pipeline' \in Seq(Input) /\ Len(pipeline') = Len(pipeline) + 1
           /\ \A i \in DOMAIN pipeline : pipeline'[i] = pipeline[i]
           /\ pipeline'[Len(pipeline) + 1] = input
           /\ lastId' \in 1 .. NumIds
           /\ IdsConsecutive'
<1>1. /\ pipeline' \in Seq(Input) /\ Len(pipeline') = Len(pipeline) + 1
      /\ \A i \in DOMAIN pipeline : pipeline'[i] = pipeline[i]
      /\ pipeline'[Len(pipeline) + 1] = input
      /\ Len(pipeline) \in Nat
      /\ DOMAIN pipeline = 1 .. Len(pipeline) /\ DOMAIN pipeline' = 1 .. Len(pipeline')
  BY DEF TypeOK
<1>2. /\ lastId' \in 1 .. NumIds
      /\ lastId' = IF lastId = NumIds THEN 1 ELSE lastId + 1
  BY NextIdValue DEF TypeOK
<1>3. \A i \in DOMAIN pipeline' : pipeline'[i].id = IdBehind(Len(pipeline) - i)'
  <2> SUFFICES ASSUME NEW i \in 1 .. Len(pipeline) + 1
               PROVE  pipeline'[i].id = IF lastId' > Len(pipeline) + 1 - i
                                        THEN lastId' - (Len(pipeline) + 1 - i)
                                        ELSE lastId' - (Len(pipeline) + 1 - i) + NumIds
    BY <1>1 DEF IdBehind
  <2>1. CASE i = Len(pipeline) + 1
    BY <1>1, <1>2, <2>1
  <2>2. CASE i # Len(pipeline) + 1
    <3>1. i \in DOMAIN pipeline /\ pipeline'[i].id = IdBehind(Len(pipeline) - i) /\ lastId > 0
      BY <1>1, <2>2 DEF IdsConsecutive
    <3> DEFINE k == Len(pipeline) - i
    <3>2. k \in Nat /\ k < NumIds /\ lastId \in Nat /\ lastId <= NumIds /\ NumIds \in Nat
      BY <1>1, <3>1, SizesAssumption DEF TypeOK
    <3>3. pipeline'[i].id = IF lastId > k THEN lastId - k ELSE lastId - k + NumIds
      BY <3>1 DEF IdBehind
    <3>4. Len(pipeline) + 1 - i = k + 1
      BY <1>1
    <3> HIDE DEF k
    <3>5. pipeline'[i].id = IF lastId' > k + 1 THEN lastId' - (k + 1) ELSE lastId' - (k + 1) + NumIds
      <4>1. CASE lastId = NumIds
        BY <1>2, <3>2, <3>3, <4>1
      <4>2. CASE lastId # NumIds
        BY <1>2, <3>2, <3>3, <4>2
      <4>3. QED
        BY <4>1, <4>2
    <3>6. QED
      BY <3>4, <3>5
  <2>3. QED
    BY <2>1, <2>2
<1>4. QED
  BY <1>1, <1>2, <1>3 DEF IdsConsecutive

\* An input of another producer does not concern the queue.
LEMMA AppendOther ==
    ASSUME TypeOK, CompletionsMatch, Len(pipeline) \in Nat,
           pipeline' \in Seq(Input), Len(pipeline') = Len(pipeline) + 1,
           \A i \in DOMAIN pipeline : pipeline'[i] = pipeline[i],
           ~pipeline'[Len(pipeline) + 1].own, elements' = elements
    PROVE  CompletionsMatch'
<1>1. OwnInputs' = OwnInputs
  BY DEF OwnInputs, TypeOK
<1>2. QED
  BY <1>1 DEF CompletionsMatch, OwnInputs

\* An input of the synchronizer is last in both.
LEMMA AppendOwn ==
    ASSUME TypeOK, CompletionsMatch,
           pipeline' \in Seq(Input), Len(pipeline') = Len(pipeline) + 1,
           \A i \in DOMAIN pipeline : pipeline'[i] = pipeline[i],
           pipeline'[Len(pipeline) + 1].own,
           NEW element \in Element, elements' = Append(elements, element),
           element.Id = pipeline'[Len(pipeline) + 1].id
    PROVE  CompletionsMatch'
<1> DEFINE n == Len(elements)
           m == Len(pipeline)
<1>1. /\ n \in Nat /\ m \in Nat
      /\ DOMAIN elements = 1 .. n /\ DOMAIN elements' = 1 .. n + 1
      /\ DOMAIN pipeline = 1 .. m
      /\ \A k \in 1 .. n : elements'[k] = elements[k]
      /\ elements'[n + 1] = element
  BY DEF TypeOK
<1>2. OwnInputs' = OwnInputs \cup {m + 1}
  BY <1>1 DEF OwnInputs
<1>3. PICK slot \in [DOMAIN elements -> OwnInputs] :
         /\ OwnInputs \subseteq Range(slot)
         /\ \A j, k \in DOMAIN elements : j < k => slot[j] < slot[k]
         /\ \A k \in DOMAIN elements : elements[k].Id = pipeline[slot[k]].id
  BY ZenonT(30) DEF CompletionsMatch
<1> HIDE DEF n, m
<1>4. /\ \A k \in 1 .. n : slot[k] \in 1 .. m
      /\ \A k \in 1 .. n : pipeline'[slot[k]] = pipeline[slot[k]]
  BY <1>1, <1>3 DEF OwnInputs
<1> DEFINE slots == [k \in 1 .. n + 1 |-> IF k = n + 1 THEN m + 1 ELSE slot[k]]
<1>5. slots \in [1 .. n + 1 -> OwnInputs']
  BY <1>1, <1>2
<1>6. OwnInputs' \subseteq Range(slots)
  <2>1. m + 1 \in Range(slots)
    BY <1>1 DEF Range
  <2>2. \A i \in Range(slot) : i \in Range(slots)
    BY <1>1 DEF Range
  <2>3. QED
    BY Zenon, <1>2, <1>3, <2>1, <2>2
<1>7. \A j, k \in 1 .. n + 1 : j < k => slots[j] < slots[k]
  <2> SUFFICES ASSUME NEW j \in 1 .. n + 1, NEW k \in 1 .. n + 1, j < k PROVE slots[j] < slots[k]
    OBVIOUS
  <2>1. j \in 1 .. n /\ slots[j] = slot[j] /\ slot[j] \in 1 .. m
    BY <1>1, <1>4
  <2>2. CASE k = n + 1
    BY <1>1, <2>1, <2>2
  <2>3. CASE k # n + 1
    <3>1. k \in 1 .. n
      <4> HIDE DEF slots
      <4>1. QED
        BY <1>1, <2>3
    <3>2. j \in DOMAIN elements /\ k \in DOMAIN elements
      BY <1>1, <2>1, <3>1, Zenon
    <3>3. slots[k] = slot[k]
      BY <2>3
    <3>4. QED
      <4> HIDE DEF slots
      <4>1. slot[j] < slot[k]
        BY <1>3, <3>2, Zenon
      <4>2. QED
        BY <2>1, <3>3, <4>1, Zenon
  <2>4. QED
    BY Zenon, <2>2, <2>3
<1>8. \A k \in 1 .. n + 1 : elements'[k].Id = pipeline'[slots[k]].id
  <2> SUFFICES ASSUME NEW k \in 1 .. n + 1 PROVE elements'[k].Id = pipeline'[slots[k]].id
    BY Zenon
  <2>1. CASE k = n + 1
    BY <1>1, <2>1 DEF m
  <2>2. CASE k # n + 1
    <3>1. k \in 1 .. n
      <4> HIDE DEF slots
      <4>1. QED
        BY <1>1, <2>2
    <3>2. slots[k] = slot[k]
      BY <2>2
    <3>3. elements'[k].Id = elements[k].Id /\ elements[k].Id = pipeline[slot[k]].id
      <4> HIDE DEF slots
      <4>1. k \in DOMAIN elements
        BY <1>1, <3>1, Zenon
      <4>2. elements'[k] = elements[k]
        BY <1>1, <3>1, Zenon
      <4>3. QED
        BY <1>3, <4>1, <4>2, Zenon
    <3>4. pipeline'[slot[k]] = pipeline[slot[k]]
      BY <1>4, <3>1, Zenon
    <3>5. QED
      <4> HIDE DEF slots
      <4>1. QED
        BY <3>2, <3>3, <3>4, Zenon
  <2>3. QED
    BY Zenon, <2>1, <2>2
<1> HIDE DEF slots
<1>9. QED
  <2>1. slots \in [DOMAIN elements' -> OwnInputs']
    BY Zenon, <1>1, <1>5
  <2>2. /\ \A j, k \in DOMAIN elements' : j < k => slots[j] < slots[k]
        /\ \A k \in DOMAIN elements' : elements'[k].Id = pipeline'[slots[k]].id
    BY ZenonT(30), <1>1, <1>7, <1>8
  <2>3. QED
    BY <1>6, <2>1, <2>2, Zenon DEF CompletionsMatch, Range

LEMMA AddInv == IndInv /\ Add => IndInv'
<1> SUFFICES ASSUME IndInv, Add PROVE IndInv'
  OBVIOUS
<1>1. RoundTypeOK' /\ sync'.base = sync.base /\ sync'.failed = sync.failed /\ sync'.pc = "clear"
  BY DEF IndInv, TypeOK, RoundTypeOK, Add, Idle, Labels
<1>2. BaseChosen' /\ BaseIsLast' /\ FailureKnown' /\ RoundPending'
  BY <1>1 DEF IndInv, BaseChosen, BaseIsLast, FailureKnown, RoundPending, Add
<1>3. CASE UNCHANGED <<elements, pipeline, lastId>>
  <2>1. IdsConsecutive' /\ CompletionsMatch'
    BY Zenon, <1>3, QueueUnchanged
  <2>2. TypeOK'
    BY <1>1, <1>3 DEF IndInv, TypeOK, Add
  <2>3. QED
    BY Zenon, <1>2, <2>1, <2>2 DEF IndInv
<1>4. CASE ~IsRejected /\ Len(pipeline) # DisruptorSize
  <2> DEFINE element == ElementInfo(NextId, sync.range)
             input == [id |-> NextId, own |-> TRUE, range |-> sync.range, status |-> "queued"]
  <2>1. /\ elements' = Append(elements, element)
        /\ pipeline' = Append(pipeline, input) /\ lastId' = NextId
    BY <1>4 DEF Add, Added
  <2>2. NextId \in 1 .. NumIds /\ sync.range \in Seq(Chain) /\ sync.range # <<>>
    BY NextIdValue DEF IndInv, TypeOK, RoundTypeOK, Add
  <2>3. input \in Input /\ input.id = NextId /\ input.own /\ input.range # <<>>
    BY <2>2 DEF Input
  <2>4. element \in Element /\ element.Id = NextId
    <3>1. Len(Last(sync.range)) \in Nat /\ Len(sync.range) \in Nat
      BY <2>2 DEF Last, Chain
    <3>2. QED
      BY <2>2, <3>1 DEF ElementInfo, Element
  <2> HIDE DEF element, input
  <2>5. Len(pipeline) < DisruptorSize
    BY <1>4, SizesAssumption DEF IndInv, TypeOK
  <2>6. /\ pipeline' \in Seq(Input) /\ Len(pipeline') = Len(pipeline) + 1
        /\ \A i \in DOMAIN pipeline : pipeline'[i] = pipeline[i]
        /\ pipeline'[Len(pipeline) + 1] = input
        /\ lastId' \in 1 .. NumIds
        /\ IdsConsecutive'
    BY Zenon, <2>1, <2>3, <2>5, AppendIds DEF IndInv
  <2>7. CompletionsMatch'
    BY Zenon, <2>1, <2>3, <2>4, <2>6, AppendOwn DEF IndInv
  <2>8. TypeOK'
    <3>1. elements' \in Seq(Element)
      BY <2>1, <2>4 DEF IndInv, TypeOK
    <3>2. Len(pipeline') <= DisruptorSize
      BY <2>5, <2>6, SizesAssumption DEF IndInv, TypeOK
    <3>3. \A i \in DOMAIN pipeline' : pipeline'[i].range # <<>>
      BY <2>3, <2>6 DEF IndInv, TypeOK
    <3>4. QED
      BY <1>1, <2>6, <3>1, <3>2, <3>3 DEF IndInv, TypeOK, Add
  <2>9. QED
    BY Zenon, <1>2, <2>6, <2>7, <2>8 DEF IndInv
<1>5. QED
  BY <1>3, <1>4 DEF Add, Added

LEMMA PushInv == IndInv /\ Push => IndInv'
<1> SUFFICES ASSUME IndInv, Push PROVE IndInv'
  OBVIOUS
<1>1. PICK b \in Blocks :
         pipeline' = Append(pipeline, [id |-> NextId, own |-> FALSE,
                                       range |-> <<b>>, status |-> "queued"])
  BY ZenonT(30) DEF Push
<1> DEFINE input == [id |-> NextId, own |-> FALSE, range |-> <<b>>, status |-> "queued"]
<1>2. input \in Input /\ input.id = NextId /\ ~input.own /\ input.range # <<>>
  <2>1. NextId \in 1 .. NumIds
    BY NextIdValue DEF IndInv, TypeOK
  <2>2. <<b>> \in Seq(Chain)
    BY BlocksAssumption DEF Chain
  <2>3. QED
    BY <2>1, <2>2 DEF Input
<1>3. pipeline' = Append(pipeline, input) /\ lastId' = NextId
  BY <1>1 DEF Push
<1> HIDE DEF input
<1>4. /\ pipeline' \in Seq(Input) /\ Len(pipeline') = Len(pipeline) + 1
      /\ \A i \in DOMAIN pipeline : pipeline'[i] = pipeline[i]
      /\ pipeline'[Len(pipeline) + 1] = input
      /\ lastId' \in 1 .. NumIds
      /\ IdsConsecutive'
  BY Zenon, <1>2, <1>3, AppendIds DEF IndInv, Push
<1>5. CompletionsMatch'
  <2>1. Len(pipeline) \in Nat /\ elements' = elements
    BY DEF IndInv, TypeOK, Push, unprocessed
  <2>2. QED
    BY Zenon, <1>2, <1>4, <2>1, AppendOther DEF IndInv
<1>6. TypeOK'
  <2>1. Len(pipeline') <= DisruptorSize
    BY <1>4, SizesAssumption DEF IndInv, TypeOK, Push
  <2>2. \A i \in DOMAIN pipeline' : pipeline'[i].range # <<>>
    BY <1>2, <1>4 DEF IndInv, TypeOK
  <2>3. QED
    BY SMTT(30), <1>4, <2>1, <2>2 DEF IndInv, TypeOK, RoundTypeOK, Push, unprocessed
<1>7. QED
  BY Zenon, <1>4, <1>5, <1>6 DEF IndInv, Push, unprocessed, RoundPending, BaseChosen, BaseIsLast,
                          FailureKnown

\* The consumers change only the status of an input, and the chain.
LEMMA StatusInv ==
    ASSUME IndInv, NEW i \in DOMAIN pipeline,
           NEW status \in {"writing", "normal", "aborted"},
           pipeline' = [pipeline EXCEPT ![i].status = status], local' \in Chain,
           UNCHANGED <<lastId, remote, unprocessed, sync>>
    PROVE  IndInv'
<1>1. /\ pipeline' \in Seq(Input) /\ Len(pipeline') = Len(pipeline)
      /\ DOMAIN pipeline' = DOMAIN pipeline
      /\ \A j \in DOMAIN pipeline : /\ pipeline'[j].id = pipeline[j].id
                                    /\ pipeline'[j].own = pipeline[j].own
                                    /\ pipeline'[j].range = pipeline[j].range
  <2> DEFINE input == [pipeline[i] EXCEPT !.status = status]
  <2>1. pipeline \in Seq(Input) /\ i \in 1 .. Len(pipeline) /\ pipeline[i] \in Input
    BY DEF IndInv, TypeOK
  <2>2. /\ input \in Input /\ input.id = pipeline[i].id /\ input.own = pipeline[i].own
        /\ input.range = pipeline[i].range
    BY Zenon, <2>1 DEF Input
  <2>3. pipeline' = [pipeline EXCEPT ![i] = input]
    OBVIOUS
  <2> HIDE DEF input
  <2>4. /\ pipeline' \in Seq(Input) /\ Len(pipeline') = Len(pipeline)
        /\ \A j \in 1 .. Len(pipeline) : pipeline'[j] = IF j = i THEN input ELSE pipeline[j]
    BY <2>1, <2>2, <2>3, ExceptSeq
  <2>5. DOMAIN pipeline = 1 .. Len(pipeline) /\ DOMAIN pipeline' = 1 .. Len(pipeline)
    BY <2>1, <2>4
  <2>6. QED
    BY Zenon, <2>2, <2>4, <2>5
<1>2. IdsConsecutive'
  BY <1>1 DEF IndInv, TypeOK, IdsConsecutive, IdBehind
<1>3. CompletionsMatch'
  <2>1. OwnInputs' = OwnInputs
    BY <1>1 DEF OwnInputs
  <2>2. QED
    BY <1>1, <2>1 DEF IndInv, CompletionsMatch, unprocessed, OwnInputs
<1>4. TypeOK'
  BY <1>1 DEF IndInv, TypeOK, RoundTypeOK, unprocessed
<1>5. QED
  BY Zenon, <1>2, <1>3, <1>4 DEF IndInv, unprocessed, RoundPending, BaseChosen, BaseIsLast, FailureKnown

LEMMA AcceptInv == IndInv /\ Accept => IndInv'
<1> SUFFICES ASSUME IndInv, Accept PROVE IndInv'
  OBVIOUS
<1>1. PICK i \in Current : pipeline' = [pipeline EXCEPT ![i].status = "writing"]
  BY Zenon DEF Accept
<1>2. i \in DOMAIN pipeline /\ local' \in Chain /\ UNCHANGED <<lastId, remote, unprocessed, sync>>
  BY DEF Current, Accept, IndInv, TypeOK
<1>3. QED
  BY Zenon, <1>1, <1>2, StatusInv

LEMMA CommitInv == IndInv /\ Commit => IndInv'
<1> SUFFICES ASSUME IndInv, Commit PROVE IndInv'
  OBVIOUS
<1>1. PICK i \in DOMAIN pipeline :
         /\ pipeline' = [pipeline EXCEPT ![i].status = "normal"]
         /\ local' = Last(pipeline[i].range)
  BY Zenon DEF Commit
<1>2. pipeline[i].range \in Seq(Chain) /\ pipeline[i].range # <<>>
  <2>1. pipeline[i] \in Input
    BY ElementOfSeq DEF IndInv, TypeOK
  <2>2. QED
    BY <2>1 DEF IndInv, TypeOK, Input
<1>3. local' \in Chain /\ UNCHANGED <<lastId, remote, unprocessed, sync>>
  BY <1>1, <1>2 DEF Commit, Last
<1>4. QED
  BY Zenon, <1>1, <1>3, StatusInv

LEMMA AbortInv == IndInv /\ Abort => IndInv'
<1> SUFFICES ASSUME IndInv, Abort PROVE IndInv'
  OBVIOUS
<1>1. PICK i \in Current : pipeline' = [pipeline EXCEPT ![i].status = "aborted"]
  BY Zenon DEF Abort
<1>2. i \in DOMAIN pipeline /\ local' \in Chain /\ UNCHANGED <<lastId, remote, unprocessed, sync>>
  BY DEF Current, Abort, IndInv, TypeOK
<1>3. QED
  BY Zenon, <1>1, <1>2, StatusInv

\* The oldest input leaves the ring.
LEMMA TailOfPipeline ==
    ASSUME TypeOK, IdsConsecutive, pipeline # <<>>, pipeline' = Tail(pipeline), lastId' = lastId
    PROVE  /\ pipeline' \in Seq(Input) /\ Len(pipeline') = Len(pipeline) - 1
           /\ DOMAIN pipeline = 1 .. Len(pipeline) /\ DOMAIN pipeline' = 1 .. Len(pipeline) - 1
           /\ \A i \in DOMAIN pipeline' : i + 1 \in DOMAIN pipeline /\ pipeline'[i] = pipeline[i + 1]
           /\ Len(pipeline) \in Nat \ {0}
           /\ \A i \in DOMAIN pipeline' : pipeline'[i].range # <<>>
           /\ IdsConsecutive'
<1>1. /\ pipeline' \in Seq(Input) /\ Len(pipeline') = Len(pipeline) - 1
      /\ Len(pipeline) \in Nat \ {0}
      /\ \A i \in 1 .. Len(pipeline') : pipeline'[i] = pipeline[i + 1]
  BY ZenonT(30), HeadTailProperties, EmptySeq DEF TypeOK
<1>2. /\ DOMAIN pipeline = 1 .. Len(pipeline) /\ DOMAIN pipeline' = 1 .. Len(pipeline) - 1
      /\ \A i \in DOMAIN pipeline' : i + 1 \in DOMAIN pipeline /\ pipeline'[i] = pipeline[i + 1]
  BY <1>1 DEF TypeOK
<1>3. \A i \in DOMAIN pipeline' : pipeline'[i].id = IdBehind(Len(pipeline) - i)'
  <2> SUFFICES ASSUME NEW i \in DOMAIN pipeline'
               PROVE  pipeline'[i].id = IdBehind(Len(pipeline) - i)'
    OBVIOUS
  <2>1. pipeline'[i].id = IdBehind(Len(pipeline) - (i + 1))
    BY <1>2 DEF IdsConsecutive
  <2>2. Len(pipeline) - (i + 1) = Len(pipeline') - i
    BY <1>1, <1>2
  <2>3. QED
    BY <2>1, <2>2 DEF IdBehind
<1>4. QED
  BY Zenon, <1>1, <1>2, <1>3 DEF IdsConsecutive, TypeOK

\* The oldest input is not the synchronizer's: the queue does not change.
LEMMA TailOther ==
    ASSUME IndInv, pipeline # <<>>, pipeline' = Tail(pipeline), lastId' = lastId,
           ~Head(pipeline).own, elements' = elements
    PROVE  CompletionsMatch'
<1>1. /\ Len(pipeline) \in Nat \ {0} /\ Len(pipeline') = Len(pipeline) - 1
      /\ DOMAIN pipeline = 1 .. Len(pipeline) /\ DOMAIN pipeline' = 1 .. Len(pipeline) - 1
      /\ \A i \in DOMAIN pipeline' : i + 1 \in DOMAIN pipeline /\ pipeline'[i] = pipeline[i + 1]
  BY TailOfPipeline DEF IndInv
<1>2. \A i \in OwnInputs : i \in 2 .. Len(pipeline) /\ i - 1 \in OwnInputs'
  BY <1>1 DEF OwnInputs
<1>3. \A i \in OwnInputs' : i + 1 \in OwnInputs
  BY <1>1 DEF OwnInputs
<1>4. PICK slot \in [DOMAIN elements -> OwnInputs] :
         /\ OwnInputs \subseteq Range(slot)
         /\ \A j, k \in DOMAIN elements : j < k => slot[j] < slot[k]
         /\ \A k \in DOMAIN elements : elements[k].Id = pipeline[slot[k]].id
  BY DEF IndInv, CompletionsMatch
<1> DEFINE slots == [k \in DOMAIN elements |-> slot[k] - 1]
<1>5. \A k \in DOMAIN elements :
         /\ slot[k] \in Int /\ slots[k] \in OwnInputs'
         /\ pipeline'[slots[k]] = pipeline[slot[k]]
  BY <1>1, <1>2, <1>4 DEF OwnInputs
<1>6. slots \in [DOMAIN elements -> OwnInputs']
  BY <1>5
<1>7. OwnInputs' \subseteq Range(slots)
  <2> SUFFICES ASSUME NEW i \in OwnInputs' PROVE i \in Range(slots)
    OBVIOUS
  <2>1. PICK k \in DOMAIN elements : slot[k] = i + 1
    BY <1>3, <1>4 DEF Range
  <2>2. i = slots[k]
    BY <1>1, <2>1 DEF OwnInputs
  <2>3. QED
    BY <2>2 DEF Range
<1>8. \A j, k \in DOMAIN elements : j < k => slots[j] < slots[k]
  BY <1>4, <1>5
<1>9. \A k \in DOMAIN elements : elements[k].Id = pipeline'[slots[k]].id
  BY ZenonT(30), <1>4, <1>5
<1> HIDE DEF slots
<1>10. QED
  BY <1>6, <1>7, <1>8, <1>9, ZenonT(30) DEF CompletionsMatch, Range

\* The oldest input is the synchronizer's: it is the oldest element.
LEMMA TailOwn ==
    ASSUME IndInv, pipeline # <<>>, pipeline' = Tail(pipeline), lastId' = lastId,
           Head(pipeline).own, elements' = Tail(elements)
    PROVE  /\ elements # <<>>
           /\ Head(elements).Id = Head(pipeline).id
           /\ CompletionsMatch'
<1>1. /\ Len(pipeline) \in Nat \ {0} /\ Len(pipeline') = Len(pipeline) - 1
      /\ DOMAIN pipeline = 1 .. Len(pipeline) /\ DOMAIN pipeline' = 1 .. Len(pipeline) - 1
      /\ \A i \in DOMAIN pipeline' : i + 1 \in DOMAIN pipeline /\ pipeline'[i] = pipeline[i + 1]
  BY TailOfPipeline DEF IndInv
<1>2. PICK slot \in [DOMAIN elements -> OwnInputs] :
         /\ OwnInputs \subseteq Range(slot)
         /\ \A j, k \in DOMAIN elements : j < k => slot[j] < slot[k]
         /\ \A k \in DOMAIN elements : elements[k].Id = pipeline[slot[k]].id
  BY DEF IndInv, CompletionsMatch
<1> DEFINE n == Len(elements)
<1>3. n \in Nat /\ DOMAIN elements = 1 .. n /\ elements \in Seq(Element)
  BY DEF IndInv, TypeOK
<1>4. \A k \in DOMAIN elements : slot[k] \in DOMAIN pipeline
  BY <1>2 DEF OwnInputs
<1>5. n > 0 /\ slot[1] = 1
  <2>1. 1 \in OwnInputs
    BY <1>1 DEF OwnInputs
  <2>2. PICK k \in DOMAIN elements : slot[k] = 1
    BY ZenonT(30), <1>2, <2>1 DEF Range
  <2> HIDE DEF n
  <2>3. n > 0 /\ 1 \in DOMAIN elements
    BY <1>3, <2>2
  <2>4. slot[1] \in 1 .. Len(pipeline)
    BY Zenon, <1>1, <1>4, <2>3
  <2>5. ~(1 < k)
    BY SMTT(30), <1>1, <1>2, <2>2, <2>3, <2>4
  <2>6. QED
    BY SMTT(30), <1>3, <2>2, <2>3, <2>5
<1>6. elements # <<>> /\ Head(elements) = elements[1]
  BY <1>3, <1>5
<1>7. Head(elements).Id = Head(pipeline).id
  BY SMTT(30), <1>1, <1>2, <1>3, <1>5, <1>6
<1>8. DOMAIN elements' = 1 .. n - 1 /\ \A k \in 1 .. n - 1 : elements'[k] = elements[k + 1]
  BY Zenon, <1>3, <1>6, HeadTailProperties, LenProperties
<1> HIDE DEF n
<1> DEFINE slots == [k \in 1 .. n - 1 |-> slot[k + 1] - 1]
<1>9. \A k \in 1 .. n - 1 :
         /\ k + 1 \in DOMAIN elements /\ slot[k + 1] \in 2 .. Len(pipeline)
         /\ slots[k] \in OwnInputs'
         /\ pipeline'[slots[k]] = pipeline[slot[k + 1]]
  <2> SUFFICES ASSUME NEW k \in 1 .. n - 1
               PROVE  /\ k + 1 \in DOMAIN elements /\ slot[k + 1] \in 2 .. Len(pipeline)
                      /\ slots[k] \in OwnInputs'
                      /\ pipeline'[slots[k]] = pipeline[slot[k + 1]]
    BY Zenon
  <2>1. k + 1 \in DOMAIN elements /\ 1 \in DOMAIN elements /\ 1 < k + 1
    BY <1>3, <1>5
  <2>2. slot[k + 1] \in OwnInputs /\ slot[k + 1] \in 1 .. Len(pipeline) /\ slot[1] < slot[k + 1]
    BY ZenonT(30), <1>1, <1>2, <1>4, <2>1
  <2>3. slot[k + 1] \in 2 .. Len(pipeline) /\ slots[k] \in DOMAIN pipeline'
    BY SMTT(30), <1>1, <1>5, <2>2
  <2>4. pipeline'[slots[k]] = pipeline[slot[k + 1]]
    BY <1>1, <2>3
  <2>5. QED
    BY ZenonT(30), <2>1, <2>2, <2>3, <2>4 DEF OwnInputs
<1>10. slots \in [DOMAIN elements' -> OwnInputs']
  BY Zenon, <1>8, <1>9
<1>11. OwnInputs' \subseteq Range(slots)
  <2> SUFFICES ASSUME NEW i \in OwnInputs' PROVE i \in Range(slots)
    OBVIOUS
  <2>1. i \in 1 .. Len(pipeline) - 1 /\ i + 1 \in OwnInputs
    BY Zenon, <1>1 DEF OwnInputs
  <2>2. PICK k \in DOMAIN elements : slot[k] = i + 1
    BY Zenon, <1>2, <2>1 DEF Range
  <2>3. k - 1 \in 1 .. n - 1
    BY SMTT(30), <1>3, <1>5, <2>1, <2>2
  <2>4. i = slots[k - 1]
    <3>1. (k - 1) + 1 = k
      BY <1>3
    <3>2. slots[k - 1] = slot[k] - 1
      BY Zenon, <2>3, <3>1
    <3>3. QED
      BY SMTT(30), <2>1, <2>2, <3>2
  <2>5. QED
    BY Zenon, <2>3, <2>4 DEF Range
<1>12. \A j, k \in DOMAIN elements' : j < k => slots[j] < slots[k]
  <2> SUFFICES ASSUME NEW j \in 1 .. n - 1, NEW k \in 1 .. n - 1, j < k PROVE slots[j] < slots[k]
    BY Zenon, <1>8
  <2>1. slot[j + 1] < slot[k + 1]
    BY SMTT(30), <1>2, <1>3, <1>9
  <2>2. QED
    BY SMTT(30), <1>1, <1>9, <2>1
<1>13. \A k \in DOMAIN elements' : elements'[k].Id = pipeline'[slots[k]].id
  <2> SUFFICES ASSUME NEW k \in 1 .. n - 1 PROVE elements'[k].Id = pipeline'[slots[k]].id
    BY ZenonT(30), <1>8
  <2>1. elements[k + 1].Id = pipeline[slot[k + 1]].id
    BY <1>2, <1>9
  <2>2. QED
    BY Zenon, <1>8, <1>9, <2>1
<1> HIDE DEF slots
<1>14. QED
  BY <1>6, <1>7, <1>10, <1>11, <1>12, <1>13, Zenon DEF CompletionsMatch, Range

\* With hasPendingSync the dirty flag records any failure, whatever is left.
LEMMA DirtyWhilePending ==
    ASSUME hasPendingSync, NEW rest, NEW status
    PROVE  DirtyAfter(rest, status) <=> status # "normal"
BY DEF DirtyAfter, HasPendingOperation

\* The element the round builds on is the last one, so when it completes the
\* queue is empty: nothing can clear the dirty flag before the round ends.
LEMMA RemoveElementInv ==
    ASSUME IndInv, pipeline # <<>>, pipeline' = Tail(pipeline), lastId' = lastId,
           Head(pipeline).own, RemoveElement(Head(pipeline).status),
           UNCHANGED <<local, remote>>
    PROVE  IndInv'
<1> DEFINE status == Head(pipeline).status
<1>1. elements # <<>> /\ Head(elements).Id = Head(pipeline).id /\ CompletionsMatch'
  BY SMTT(30), TailOwn DEF RemoveElement
<1>2. /\ pipeline' \in Seq(Input) /\ Len(pipeline') = Len(pipeline) - 1 /\ Len(pipeline) \in Nat \ {0}
      /\ \A i \in DOMAIN pipeline' : pipeline'[i].range # <<>>
      /\ IdsConsecutive'
  BY SMTT(30), TailOfPipeline DEF IndInv
<1>3. /\ elements' \in Seq(Element) /\ Len(elements) \in Nat \ {0} /\ Len(elements') = Len(elements) - 1
      /\ elements' = Tail(elements) /\ elements \in Seq(Element)
      /\ \A k \in 1 .. Len(elements') : elements'[k] = elements[k + 1]
      /\ Head(elements) = elements[1] /\ Head(elements).Id \in 1 .. NumIds
  <2>1. elements \in Seq(Element) /\ elements' = Tail(elements)
    BY DEF IndInv, TypeOK, RemoveElement
  <2>2. /\ Tail(elements) \in Seq(Element) /\ Len(Tail(elements)) = Len(elements) - 1
        /\ \A k \in 1 .. Len(Tail(elements)) : Tail(elements)[k] = elements[k + 1]
        /\ Len(elements) \in Nat \ {0} /\ Head(elements) \in Element
    BY SMTT(30), <1>1, <2>1, HeadTailProperties, EmptySeq
  <2>3. QED
    BY <2>1, <2>2 DEF Element
<1>4. /\ DOMAIN sync' = DOMAIN sync
      /\ \A f \in DOMAIN sync \ {"failed"} : sync'[f] = sync[f]
      /\ sync'.failed = (sync.failed \/ (sync.base = Head(elements).Id /\ status # "normal"))
  BY DEF RemoveElement, IndInv, TypeOK, RoundTypeOK, Idle
<1>5. RoundTypeOK'
  BY Zenon, <1>4 DEF RoundTypeOK, Idle, IndInv, TypeOK
<1>6. TypeOK'
  <2>1. dirty' \in BOOLEAN /\ UNCHANGED hasPendingSync
    BY DEF RemoveElement, DirtyAfter, HasPendingOperation
  <2>2. Len(pipeline') <= DisruptorSize
    BY SMTT(30), <1>2, SizesAssumption DEF IndInv, TypeOK
  <2>3. QED
    BY <1>2, <1>3, <1>5, <2>1, <2>2 DEF IndInv, TypeOK
<1>7. sync'.pc = sync.pc /\ sync'.base = sync.base
  BY <1>4 DEF IndInv, TypeOK, RoundTypeOK, Idle
<1>8. RoundPending' /\ BaseChosen'
  <2>1. Head(elements).Id # 0
    BY <1>3
  <2>2. sync'.failed => sync.failed \/ sync.base # 0
    BY Zenon, <1>4, <2>1
  <2>3. QED
    BY ZenonT(30), <1>7, <2>2 DEF RoundPending, BaseChosen, RemoveElement, IndInv
<1>9. BaseIsLast'
  BY <1>3, <1>7 DEF BaseIsLast, IndInv, Last
<1>10. FailureKnown'
  <2> SUFFICES ASSUME sync.pc \in {"pull", "add"}, sync'.failed PROVE dirty' /\ elements' = <<>>
    BY <1>7 DEF FailureKnown
  <2>1. ~sync.failed
    BY <1>1 DEF FailureKnown, IndInv
  <2>2. sync.base = Head(elements).Id /\ status # "normal"
    BY ZenonT(30), <1>4, <2>1
  <2>3. dirty'
    BY Zenon, <2>2, DirtyWhilePending DEF RemoveElement, RoundPending, IndInv
  <2>4. elements[Len(elements)].Id = elements[1].Id
    BY <1>1, <1>3, <2>2 DEF BaseIsLast, IndInv, Last
  <2>5. Len(elements) = 1
    <3>1. PICK slot \in [DOMAIN elements -> OwnInputs] :
             /\ \A j, k \in DOMAIN elements : j < k => slot[j] < slot[k]
             /\ \A k \in DOMAIN elements : elements[k].Id = pipeline[slot[k]].id
      BY DEF IndInv, CompletionsMatch
    <3>2. 1 \in DOMAIN elements /\ Len(elements) \in DOMAIN elements
      BY <1>3
    <3>3. slot[1] \in DOMAIN pipeline /\ slot[Len(elements)] \in DOMAIN pipeline
      BY Zenon, <3>2 DEF OwnInputs
    <3>4. slot[1] = slot[Len(elements)]
      BY Zenon, <2>4, <3>1, <3>2, <3>3, IdsDistinct DEF IndInv
    <3>5. slot[1] \in Int
      BY <3>3 DEF IndInv, TypeOK
    <3>6. ~(1 < Len(elements))
      BY SMTT(30), <3>1, <3>2, <3>4, <3>5
    <3>7. QED
      BY SMTT(30), <1>3, <3>6
  <2>6. elements' = <<>>
    BY <1>3, <2>5
  <2>7. QED
    BY <2>3, <2>6
<1>11. QED
  BY SMTT(30), <1>1, <1>2, <1>6, <1>8, <1>9, <1>10 DEF IndInv

LEMMA CompleteInv == IndInv /\ Complete => IndInv'
<1> SUFFICES ASSUME IndInv, Complete PROVE IndInv'
  OBVIOUS
<1>1. pipeline # <<>> /\ pipeline' = Tail(pipeline) /\ lastId' = lastId /\ UNCHANGED <<local, remote>>
  BY DEF Complete
<1>2. CASE Head(pipeline).own
  BY Zenon, <1>1, <1>2, RemoveElementInv DEF Complete
<1>3. CASE ~Head(pipeline).own
  <2>1. UNCHANGED <<unprocessed, sync>>
    BY <1>3 DEF Complete
  <2>2. CompletionsMatch'
    BY Zenon, <1>1, <1>3, <2>1, TailOther DEF unprocessed
  <2>3. /\ pipeline' \in Seq(Input) /\ Len(pipeline') = Len(pipeline) - 1 /\ Len(pipeline) \in Nat
        /\ \A i \in DOMAIN pipeline' : pipeline'[i].range # <<>>
        /\ IdsConsecutive'
    BY Zenon, <1>1, TailOfPipeline DEF IndInv
  <2>4. TypeOK'
    <3>1. Len(pipeline') <= DisruptorSize
      BY <2>3, SizesAssumption DEF IndInv, TypeOK
    <3>2. QED
      BY Zenon, <1>1, <2>1, <2>3, <3>1 DEF IndInv, TypeOK, RoundTypeOK, unprocessed
  <2>5. QED
    BY Zenon, <2>1, <2>2, <2>3, <2>4 DEF IndInv, unprocessed, RoundPending, BaseChosen, BaseIsLast,
                                  FailureKnown
<1>4. QED
  BY <1>2, <1>3

LEMMA RemoteAdvancesInv == IndInv /\ RemoteAdvances => IndInv'
<1> SUFFICES ASSUME IndInv, RemoteAdvances PROVE IndInv'
  OBVIOUS
<1>1. remote' \in Chain
  BY BlocksAssumption DEF RemoteAdvances, Chain
<1>2. IdsConsecutive' /\ CompletionsMatch'
  BY ZenonT(30), QueueUnchanged DEF RemoteAdvances, node, unprocessed
<1>3. TypeOK'
  BY <1>1 DEF IndInv, TypeOK, RoundTypeOK, RemoteAdvances, node, unprocessed
<1>4. QED
  BY <1>2, <1>3 DEF IndInv, RemoteAdvances, unprocessed, RoundPending, BaseChosen, BaseIsLast,
                    FailureKnown

-------------------------------------------------------------------------------
LEMMA NextInv == IndInv /\ [Next]_vars => IndInv'
<1> SUFFICES ASSUME IndInv, [Next]_vars PROVE IndInv'
  OBVIOUS
<1>1. CASE Next
  BY <1>1, ShouldStartSyncInv, CompareOrExpandInv, ExpandInv, LocalHeightInv, LocalScoreInv,
     CompareChainInfosInv, LocalHashesInv, CompareHashesInv, PullBlocksInv, RemoteErrorInv, AddInv,
     ClearPendingSyncInv, PushInv, AcceptInv, CommitInv, AbortInv, CompleteInv, RemoteAdvancesInv,
     ZenonT(30) DEF Next
<1>2. CASE UNCHANGED vars
  <2>1. IdsConsecutive' /\ CompletionsMatch'
    BY ZenonT(30), <1>2, QueueUnchanged DEF vars
  <2>2. TypeOK'
    BY <1>2 DEF IndInv, TypeOK, RoundTypeOK, vars
  <2>3. QED
    BY Zenon, <1>2, <2>1, <2>2 DEF IndInv, vars, RoundPending, BaseChosen, BaseIsLast, FailureKnown
<1>3. QED
  BY <1>1, <1>2

LEMMA Invariance == Spec => []IndInv
<1>1. QED
  BY InitInv, NextInv, PTL DEF Spec

\* The queue of unprocessed elements is the synchronizer's share of the
\* dispatcher, in its order, for any ring, any number of inputs of other
\* producers and any interleaving: UnprocessedElements::remove never finds
\* another id at the front, nor an empty queue (ChainSynchronizer.cpp:98-107).
THEOREM QueueMatchesDispatcher == Spec => []CompletionsMatch
<1>1. IndInv => CompletionsMatch
  BY DEF IndInv
<1>2. QED
  BY <1>1, Invariance, PTL

\* A range is only queued by add, which a dirty queue rejects.
LEMMA OnlyAddQueues ==
    ASSUME IndInv, [Next]_vars, Len(elements') > Len(elements)
    PROVE  ~sync.failed
<1>1. Len(elements) \in Nat /\ elements \in Seq(Element)
  BY DEF IndInv, TypeOK
<1>2. elements' # elements
  BY <1>1
<1>3. CASE Add
  <2>1. sync.pc = "add" /\ ~dirty
    BY Zenon, <1>2, <1>3 DEF Add, IsRejected
  <2>2. QED
    BY <2>1 DEF IndInv, FailureKnown
<1>4. CASE Complete
  <2>1. CASE Head(pipeline).own
    <3>1. elements' = Tail(elements) /\ elements # <<>>
      BY ZenonT(30), <1>4, <2>1, TailOwn DEF Complete, RemoveElement
    <3>2. Len(elements') = Len(elements) - 1
      BY ZenonT(30), <1>1, <3>1, HeadTailProperties
    <3>3. QED
      BY <1>1, <3>2
  <2>2. CASE ~Head(pipeline).own
    BY ZenonT(30), <1>2, <1>4, <2>2 DEF Complete, unprocessed
  <2>3. QED
    BY Zenon, <2>1, <2>2
<1>5. CASE Next /\ ~Add /\ ~Complete
  BY Zenon, <1>2, <1>5 DEF Next, ShouldStartSync, CompareOrExpand, Expand, LocalHeight, LocalScore,
                    CompareChainInfos, LocalHashes, CompareHashes, PullBlocks, RemoteError,
                    ClearPendingSync, Push, Accept, Commit, Abort, RemoteAdvances, unprocessed
<1>6. QED
  BY ZenonT(30), <1>2, <1>3, <1>4, <1>5 DEF vars

\* Whatever completes while a round pulls blocks on top of an unprocessed
\* range, and whoever else uses the dispatcher: once that range has failed the
\* pulled blocks are not handed over (ChainSynchronizer.cpp:74-77, 106, 113).
THEOREM FailureStopsExpansion == Spec => NoRangeBehindFailure
<1>1. IndInv /\ [Next]_vars => [Len(elements') > Len(elements) => ~sync.failed]_vars
  BY OnlyAddQueues
<1>2. QED
  BY <1>1, Invariance, PTL DEF Spec, NoRangeBehindFailure
===============================================================================

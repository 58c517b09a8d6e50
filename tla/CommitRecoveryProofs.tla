------------------------ MODULE CommitRecoveryProofs ------------------------
(***************************************************************************)
(* Proof that a commit is atomic: the chain that the data directory of     *)
(* CommitRecovery stands for changes at one file operation, for chains of  *)
(* any length and any weights, any number of sub caches, every             *)
(* configuration and any number of crashes.                                *)
(***************************************************************************)
EXTENDS CommitRecovery, WellFoundedInduction, TLAPS

\* Sequences that agree at every position are equal.
LEMMA SequenceEqual ==
    ASSUME NEW S, NEW s \in Seq(S), NEW t \in Seq(S), Len(s) = Len(t), \A i \in 1 .. Len(s) : s[i] = t[i]
    PROVE  s = t
OBVIOUS

\* The beginning of a sequence.
LEMMA SequenceStart ==
    ASSUME NEW S, NEW s \in Seq(S), NEW n \in 0 .. Len(s)
    PROVE  /\ SubSeq(s, 1, n) \in Seq(S) /\ Len(SubSeq(s, 1, n)) = n
           /\ \A i \in 1 .. n : SubSeq(s, 1, n)[i] = s[i]
OBVIOUS

USE ChainAssumption, SubCachesAssumption, ConfigurationAssumption, CrashesAssumption

-----------------------------------------------------------------------------
(* Induction over an initial segment of the naturals, with sets: a property *)
(* is the set of the numbers that have it.                                  *)

\* A non-empty set of naturals has a least element.
LEMMA LeastNatural ==
    ASSUME NEW S \in SUBSET Nat, S # {}
    PROVE  \E x \in S : \A y \in S : x <= y
<1> DEFINE R == OpToRel(<, Nat)
<1>1. IsWellFoundedOn(R, Nat)
  BY Zenon, NatLessThanWellFounded
<1> HIDE DEF R
<1>2. PICK x \in S : \A y \in S : <<y, x>> \notin R
  BY Zenon, <1>1, WFMin
<1>3. ASSUME NEW y \in S, ~(x <= y) PROVE FALSE
  <2>1. x \in Nat /\ y \in Nat /\ y < x
    BY <1>3
  <2>2. <<y, x>> \in R
    BY <2>1 DEF R, OpToRel
  <2>3. QED
    BY <1>2, <2>2, Zenon
<1>4. QED
  BY <1>3

\* What holds of the first number and is handed on by every number up to n
\* holds up to n.
LEMMA SegmentInduction ==
    ASSUME NEW m \in Nat, NEW n \in Nat, NEW Q, m \in Q, \A k \in (m + 1) .. n : k - 1 \in Q => k \in Q
    PROVE  m .. n \subseteq Q
<1> DEFINE S == {k \in m .. n : k \notin Q}
<1> SUFFICES ASSUME S # {} PROVE FALSE
  OBVIOUS
<1>1. S \in SUBSET Nat
  OBVIOUS
<1> HIDE DEF S
<1>2. PICK x \in S : \A y \in S : x <= y
  BY <1>1, LeastNatural
<1>3. x \in m .. n /\ x \notin Q
  BY <1>2 DEF S
<1>4. x \in (m + 1) .. n /\ x - 1 \in m .. n
  BY <1>3
<1>5. x - 1 \notin S
  BY <1>2, <1>4
<1>6. x - 1 \in Q
  BY <1>4, <1>5 DEF S
<1>7. QED
  BY <1>3, <1>4, <1>6

-----------------------------------------------------------------------------
(* Chains.                                                                 *)

\* What a chain is, position by position.
LEMMA ChainsDef ==
    \A chain : chain \in Chains <=>
        /\ chain \in Seq(Nat) /\ Len(chain) \in 1 .. MaxHeight
        /\ chain[1] = 1 /\ \A h \in 2 .. Len(chain) : chain[h] \in Weights
<1>1. Weights \cup {1} \subseteq Nat
  OBVIOUS
<1>2. ASSUME NEW chain \in Chains
      PROVE  /\ chain \in Seq(Nat) /\ Len(chain) \in 1 .. MaxHeight
             /\ chain[1] = 1 /\ \A h \in 2 .. Len(chain) : chain[h] \in Weights
  <2>1. PICK n \in 1 .. MaxHeight : chain \in [1 .. n -> Weights \cup {1}]
    BY DEF Chains
  <2>5. n \in Nat /\ chain = [i \in 1 .. n |-> chain[i]] /\ \A i \in 1 .. n : chain[i] \in Weights \cup {1}
    BY <2>1
  <2>6. \A i \in 1 .. n : chain[i] \in Nat
    BY <1>1, <2>5
  <2>2. n \in Nat /\ chain \in [1 .. n -> Nat]
    BY <2>5, <2>6
  <2>3. chain \in Seq(Nat) /\ Len(chain) = n
    BY <2>2
  <2>4. QED
    BY <2>1, <2>3 DEF Chains
<1>3. ASSUME NEW chain \in Seq(Nat), Len(chain) \in 1 .. MaxHeight,
             chain[1] = 1, \A h \in 2 .. Len(chain) : chain[h] \in Weights
      PROVE  chain \in Chains
  <2>1. \A h \in 1 .. Len(chain) : chain[h] \in Weights \cup {1}
    BY <1>3
  <2>2. chain \in [1 .. Len(chain) -> Weights \cup {1}]
    BY <2>1
  <2>3. QED
    BY Zenon, <1>3, <2>2 DEF Chains
<1>4. QED
  BY <1>2, <1>3

\* The facts about chains and their prefixes that the proofs below use.
LEMMA ChainFacts ==
    ASSUME NEW chain \in Chains
    PROVE  /\ Len(chain) \in 1 .. MaxHeight /\ Len(chain) \in Nat
           /\ chain # Unloaded /\ chain # Corrupt /\ chain # NoBlock
           /\ chain \in Seq(Nat) /\ chain[1] = 1
BY ChainsDef DEF Unloaded, Corrupt, NoBlock

LEMMA PrefixFacts ==
    ASSUME NEW chain \in Chains, NEW h \in 1 .. Len(chain)
    PROVE  /\ Prefix(chain, h) \in Chains /\ Len(Prefix(chain, h)) = h
           /\ \A i \in 1 .. h : Prefix(chain, h)[i] = chain[i]
<1>1. chain \in Seq(Nat) /\ Len(chain) \in 1 .. MaxHeight /\ chain[1] = 1
      /\ \A i \in 2 .. Len(chain) : chain[i] \in Weights
  BY ChainsDef
<1>2. \A i \in 1 .. h : chain[i] \in Nat
  BY <1>1
<1>3. /\ Prefix(chain, h) \in Seq(Nat) /\ Len(Prefix(chain, h)) = h
      /\ \A i \in 1 .. h : Prefix(chain, h)[i] = chain[i]
  BY <1>1, <1>2 DEF Prefix
<1>4. \A i \in 2 .. h : Prefix(chain, h)[i] \in Weights
  BY <1>1, <1>3
<1>5. Len(Prefix(chain, h)) \in 1 .. MaxHeight /\ Prefix(chain, h)[1] = 1
  BY <1>1, <1>3
<1>6. Prefix(chain, h) \in Chains
  BY <1>3, <1>4, <1>5, ChainsDef, Zenon
<1>7. QED
  BY <1>3, <1>6

LEMMA ChainEqual ==
    ASSUME NEW a \in Chains, NEW b \in Chains, Len(a) = Len(b), \A i \in 1 .. Len(a) : a[i] = b[i]
    PROVE  a = b
<1>1. a \in Seq(Nat) /\ b \in Seq(Nat)
  BY ChainFacts
<1>2. QED
  BY <1>1, SequenceEqual

LEMMA NemesisFacts == Nemesis \in Chains /\ Len(Nemesis) = 1
<1>1. Nemesis \in Seq(Nat) /\ Len(Nemesis) = 1 /\ Nemesis[1] = 1
  BY DEF Nemesis
<1>2. Len(Nemesis) \in 1 .. MaxHeight /\ \A i \in 2 .. Len(Nemesis) : Nemesis[i] \in Weights
  BY <1>1
<1>3. QED
  BY <1>1, <1>2, ChainsDef, Zenon

LEMMA PrefixOfPrefix ==
    ASSUME NEW chain \in Chains, NEW h \in 1 .. Len(chain), NEW k \in 1 .. h
    PROVE  Prefix(Prefix(chain, h), k) = Prefix(chain, k)
<1>1. k \in 1 .. Len(chain) /\ k \in 1 .. Len(Prefix(chain, h))
  BY PrefixFacts, ChainFacts
<1>2. QED
  BY <1>1, PrefixFacts, ChainEqual

LEMMA WholePrefix ==
    ASSUME NEW chain \in Chains
    PROVE  Prefix(chain, Len(chain)) = chain /\ Prefix(chain, 1) = Nemesis
<1>1. Len(chain) \in 1 .. Len(chain) /\ 1 \in 1 .. Len(chain)
  BY ChainFacts
<1>2. Prefix(chain, Len(chain)) = chain
  BY <1>1, PrefixFacts, ChainEqual
<1>3. Nemesis[1] = 1
  BY DEF Nemesis
<1>4. Prefix(chain, 1) = Nemesis
  BY <1>1, <1>3, PrefixFacts, ChainEqual, NemesisFacts, ChainFacts
<1>5. QED
  BY <1>2, <1>4

-----------------------------------------------------------------------------
(* Scores.                                                                 *)

\* the sums of the block scores up to each height
IsSum(f, chain) ==
    /\ f \in [0 .. Len(chain) -> Nat] /\ f[0] = 0
    /\ \A h \in 1 .. Len(chain) : f[h] = f[h - 1] + chain[h]

LEMMA SumExists ==
    ASSUME NEW chain \in Chains
    PROVE  \E f : IsSum(f, chain)
<1> DEFINE N == Len(chain)
           Follows(f, m) == f[0] = 0 /\ \A h \in 1 .. m : f[h] = f[h - 1] + chain[h]
           Q == {m \in 0 .. N : \E f \in [0 .. N -> Nat] : Follows(f, m)}
<1>1. N \in Nat /\ \A h \in 1 .. N : chain[h] \in Nat
  BY ChainFacts
<1> HIDE DEF N
<1>2. 0 \in Q
  <2> DEFINE f == [n \in 0 .. N |-> 0]
  <2>1. f \in [0 .. N -> Nat] /\ Follows(f, 0)
    BY <1>1
  <2>2. \E g \in [0 .. N -> Nat] : Follows(g, 0)
    <3> HIDE DEF f, Follows
    <3>1. QED
      BY <2>1
  <2>3. QED
    BY <1>1, <2>2
<1>3. ASSUME NEW m \in 1 .. N, m - 1 \in Q PROVE m \in Q
  <2>1. PICK f \in [0 .. N -> Nat] : Follows(f, m - 1)
    BY <1>3
  <2> DEFINE g == [f EXCEPT ![m] = f[m - 1] + chain[m]]
  <2>2. m - 1 \in 0 .. N /\ m \in 0 .. N
    BY <1>1
  <2>3. f[m - 1] + chain[m] \in Nat
    BY <1>1, <2>2
  <2>4. g \in [0 .. N -> Nat] /\ g[0] = 0
    BY <1>1, <2>1, <2>2, <2>3
  <2>5. ASSUME NEW h \in 1 .. m PROVE g[h] = g[h - 1] + chain[h]
    <3>1. h - 1 \in 0 .. N /\ h \in 0 .. N /\ h - 1 # m /\ g[h - 1] = f[h - 1]
      BY <1>1
    <3>2. CASE h = m
      BY <2>2, <3>1, <3>2
    <3>3. CASE h # m
      BY <1>1, <2>1, <3>1, <3>3
    <3>4. QED
      BY <3>2, <3>3
  <2>6. Follows(g, m)
    BY <2>4, <2>5
  <2>7. \E k \in [0 .. N -> Nat] : Follows(k, m)
    <3> HIDE DEF g, Follows
    <3>1. QED
      BY <2>4, <2>6
  <2>8. QED
    BY Zenon, <2>2, <2>7
<1>4. 0 .. N \subseteq Q
  <2>1. 0 \in Nat /\ 0 + 1 = 1
    OBVIOUS
  <2> HIDE DEF Q
  <2>2. \A m \in (0 + 1) .. N : m - 1 \in Q => m \in Q
    BY <1>3, <2>1
  <2>3. QED
    BY Zenon, <1>1, <1>2, <2>1, <2>2, SegmentInduction
<1>5. N \in Q
  BY <1>1, <1>4
<1>6. QED
  BY <1>5 DEF IsSum, N

\* The score of a chain is the last of its sums.
LEMMA ScoreDef ==
    ASSUME NEW chain \in Chains
    PROVE  \E f : IsSum(f, chain) /\ Score(chain) = f[Len(chain)]
<1> DEFINE D(f) == f = [h \in 0 .. Len(chain) |-> IF h = 0 THEN 0 ELSE f[h - 1] + chain[h]]
           sum == CHOOSE f : D(f)
<1>1. Score(chain) = sum[Len(chain)]
  BY DEF Score
<1>2. Len(chain) \in Nat /\ \A h \in 1 .. Len(chain) : chain[h] \in Nat
  BY ChainFacts
<1>3. \E f : D(f)
  <2>1. PICK f : IsSum(f, chain)
    BY SumExists
  <2>2. f = [h \in 0 .. Len(chain) |-> f[h]]
    BY <2>1 DEF IsSum
  <2>3. \A h \in 0 .. Len(chain) : f[h] = IF h = 0 THEN 0 ELSE f[h - 1] + chain[h]
    BY <1>2, <2>1 DEF IsSum
  <2>4. D(f)
    BY Zenon, <2>2, <2>3
  <2>5. QED
    BY <2>4
<1>4. D(sum)
  <2> HIDE DEF D
  <2>1. QED
    BY <1>3
<1> HIDE DEF sum
<1>5. /\ sum[0] = 0 /\ \A h \in 1 .. Len(chain) : sum[h] = sum[h - 1] + chain[h]
      /\ sum = [h \in 0 .. Len(chain) |-> sum[h]]
  <2>1. \A h \in 0 .. Len(chain) : sum[h] = IF h = 0 THEN 0 ELSE sum[h - 1] + chain[h]
    BY <1>4
  <2>2. sum = [h \in 0 .. Len(chain) |-> sum[h]]
    BY <1>4
  <2>3. QED
    BY <1>2, <2>1, <2>2
<1>6. \A h \in 0 .. Len(chain) : sum[h] \in Nat
  <2> DEFINE Q == {h \in 0 .. Len(chain) : sum[h] \in Nat}
  <2>1. 0 \in Q
    BY <1>2, <1>5
  <2>2. ASSUME NEW h \in 1 .. Len(chain), h - 1 \in Q PROVE h \in Q
    <3>1. sum[h] = sum[h - 1] + chain[h] /\ sum[h - 1] \in Nat /\ chain[h] \in Nat
      BY Zenon, <1>2, <1>5, <2>2
    <3>2. QED
      BY <1>2, <3>1
  <2>3. \A h \in (0 + 1) .. Len(chain) : h - 1 \in Q => h \in Q
    BY <2>2
  <2>4. 0 .. Len(chain) \subseteq Q
    <3> HIDE DEF Q
    <3>1. QED
      BY Zenon, <1>2, <2>1, <2>3, SegmentInduction
  <2>5. QED
    BY <2>4
<1>7. IsSum(sum, chain)
  BY Zenon, <1>5, <1>6 DEF IsSum
<1>8. QED
  BY <1>1, <1>7

\* The sums of a chain are the scores of its prefixes, and they grow.
LEMMA SumOfPrefix ==
    ASSUME NEW chain \in Chains, NEW f, IsSum(f, chain), NEW h \in 1 .. Len(chain)
    PROVE  Score(Prefix(chain, h)) = f[h]
<1>1. /\ Prefix(chain, h) \in Chains /\ Len(Prefix(chain, h)) = h /\ Len(chain) \in Nat
      /\ \A i \in 1 .. h : Prefix(chain, h)[i] = chain[i]
  BY PrefixFacts, ChainFacts
<1>2. PICK g : IsSum(g, Prefix(chain, h)) /\ Score(Prefix(chain, h)) = g[h]
  BY <1>1, ScoreDef
<1>3. /\ g[0] = 0 /\ \A k \in 1 .. h : g[k] = g[k - 1] + chain[k]
      /\ f[0] = 0 /\ \A k \in 1 .. h : f[k] = f[k - 1] + chain[k]
  BY SMTT(30), <1>1, <1>2 DEF IsSum
<1> DEFINE Q == {k \in 0 .. h : g[k] = f[k]}
<1>4. 0 \in Q
  BY <1>3
<1>5. \A k \in (0 + 1) .. h : k - 1 \in Q => k \in Q
  BY <1>3
<1>6. 0 .. h \subseteq Q
  <2>1. h \in Nat /\ 0 \in Nat
    BY <1>1
  <2> HIDE DEF Q
  <2>2. QED
    BY Zenon, <1>4, <1>5, <2>1, SegmentInduction
<1>7. QED
  BY <1>2, <1>6

LEMMA ScoreFacts ==
    ASSUME NEW chain \in Chains
    PROVE  Score(chain) \in Nat
BY ScoreDef, ChainFacts DEF IsSum

LEMMA ScoreNemesis == Score(Nemesis) = 1
<1>1. PICK f : IsSum(f, Nemesis) /\ Score(Nemesis) = f[1]
  BY Zenon, ScoreDef, NemesisFacts
<1>2. f[0] = 0 /\ f[1] = f[0] + Nemesis[1]
  BY <1>1, NemesisFacts DEF IsSum
<1>3. Nemesis[1] = 1
  BY DEF Nemesis
<1>4. QED
  BY <1>1, <1>2, <1>3

\* One more block adds its score.
LEMMA ScoreStep ==
    ASSUME NEW chain \in Chains, NEW h \in 2 .. Len(chain)
    PROVE  Score(Prefix(chain, h)) = Score(Prefix(chain, h - 1)) + chain[h]
<1>1. PICK f : IsSum(f, chain)
  BY SumExists
<1>2. h \in 1 .. Len(chain) /\ h - 1 \in 1 .. Len(chain)
  BY ChainFacts
<1>3. QED
  BY ZenonT(30), <1>1, <1>2, SumOfPrefix DEF IsSum

\* A prefix has no greater score.
LEMMA ScoreMonotone ==
    ASSUME NEW chain \in Chains, NEW h \in 1 .. Len(chain)
    PROVE  Score(Prefix(chain, h)) <= Score(chain)
<1>1. PICK f : IsSum(f, chain)
  BY SumExists
<1>2. Len(chain) \in Nat /\ h \in Nat /\ Len(chain) \in 1 .. Len(chain)
      /\ \A k \in 1 .. Len(chain) : chain[k] \in Nat
  BY ChainFacts
<1>3. Score(chain) = f[Len(chain)]
  BY <1>1, <1>2, SumOfPrefix, WholePrefix
<1> DEFINE Q == {k \in h .. Len(chain) : f[h] <= f[k]}
<1>4. h \in Q
  BY <1>1 DEF IsSum
<1>5. ASSUME NEW k \in (h + 1) .. Len(chain), k - 1 \in Q PROVE k \in Q
  <2>1. k \in 1 .. Len(chain) /\ k - 1 \in 0 .. Len(chain) /\ chain[k] \in Nat
    BY <1>2
  <2>2. f[k] = f[k - 1] + chain[k] /\ f[k - 1] \in Nat /\ f[h] \in Nat
    <3>1. f \in [0 .. Len(chain) -> Nat] /\ h \in 0 .. Len(chain)
      BY <1>1, <1>2 DEF IsSum
    <3>2. f[k] = f[k - 1] + chain[k]
      BY <1>1, <2>1 DEF IsSum
    <3>3. QED
      BY <2>1, <3>1, <3>2
  <2>3. QED
    BY <1>5, <2>1, <2>2
<1>6. h .. Len(chain) \subseteq Q
  <2> HIDE DEF Q
  <2>1. QED
    BY Zenon, <1>2, <1>4, <1>5, SegmentInduction
<1>7. QED
  BY <1>1, <1>2, <1>3, <1>6, SumOfPrefix
-----------------------------------------------------------------------------
(* The inductive invariant, about the two block storages, commit_step.dat  *)
(* and the lock.  The spooled messages, the state files and the caches are *)
(* not part of it: no step decides by them what happens to a block.        *)

Booting == {"nemesis", "nemesisState", "nemesisSkip", "nemesisSkipLast", "nemesisLoad"}
Saving == {"save", "saveTmp", "saveTmpFiles", "saveWritten", "savePurge", "saveRename", "saveUpdated"}
Staging == {"saveBlocks", "blocksWritten", "scoreChange", "stateChange", "preStateWritten", "preStateFiles", "stateWritten"}
Moving == {"dropBlocks", "moveBlocks", "purgeStaging", "purgeStagingRest"}
Replacing == {"purgeState", "renameState"}
Purging == {"purgeSync", "purgeSyncRest"}

EndLabels == {"down", "crashed", "bootThrew", "recoveryThrew"}
ServerLabels ==
    {"idle", "cacheCommit", "allUpdated", "publish", "exit"} \cup Booting \cup Saving \cup Staging \cup Moving \cup Replacing
RecoveryLabels ==
    {"reindex", "loadState", "catchUp", "replay", "replayed", "removeReplayed", "purgeStateTmp", "purgeStateTmpRest",
     "findStart", "reset", "resetStep", "exit"} \cup Purging \cup Replacing \cup Moving \cup Saving

\* where State_Written is on record, and where it is not
WrittenLabels ==
    {"savePurge", "saveRename", "saveUpdated", "cacheCommit", "allUpdated", "findStart"} \cup Moving \cup Replacing
UnwrittenLabels ==
    {"down", "bootThrew", "idle", "publish", "exit", "save", "saveTmp", "saveTmpFiles", "saveWritten",
     "reindex", "purgeStateTmp", "purgeStateTmpRest"} \cup Booting \cup Purging \cup Staging

Written == commitStep = "State_Written"

BlockFiles == [index : 0..MaxHeight, blocks : [1..MaxHeight -> Chains \cup {NoBlock}]]

Types == storage \in BlockFiles /\ staging \in BlockFiles /\ durable \in Chains

\* which process runs, and what its label says of the lock and of commit_step.dat
ProcessInv ==
    /\ \/ host = "none" /\ pc \in EndLabels
       \/ host = "server" /\ pc \in ServerLabels
       \/ host = "recovery" /\ pc \in RecoveryLabels
    /\ host = "server" => serverLock
    /\ pc \in WrittenLabels => Written
    /\ pc \in UnwrittenLabels => ~Written
    /\ ~serverLock /\ pc \notin Saving \cup {"resetStep"} => ~Written
    /\ host = "recovery" /\ pc \in Saving => exiting

\* a block file holds the block of the chain at its height, if any
Staged(chain) == \A h \in 1..Len(chain) : staging.blocks[h] \in {NoBlock, Prefix(chain, h)}

StorageInv ==
    /\ storage.index >= 1 /\ Top(storage) \in Chains /\ Len(Top(storage)) = storage.index
    /\ \A h \in 1..storage.index : storage.blocks[h] = Prefix(Top(storage), h)

\* the first block a commit replaces
StartInv(chain) ==
    /\ start \in 2..Len(chain) /\ start - 1 <= storage.index
    /\ storage.blocks[start - 1] = Prefix(chain, start - 1)

CommitInv ==
    pc \in Staging =>
        /\ target \in Chains /\ Score(target) > Score(durable)
        /\ StartInv(target)
        /\ IF pc = "saveBlocks" THEN height \in start..Len(target) /\ staging.index = height - 1
                                ELSE staging.index = Len(target)
        /\ \A h \in 1..staging.index : staging.blocks[h] \in {NoBlock, Prefix(target, h)}
        /\ \A h \in start..staging.index : staging.blocks[h] = Prefix(target, h)

\* blocks of a commit that is not written may be staged
Dirty == pc \in Staging \/ (pc \in {"crashed"} \cup Purging /\ serverLock)

StagingInv ==
    /\ staging.blocks[1] = NoBlock
    /\ ~Written /\ ~Dirty => staging.index = 0 /\ Staged(durable)

\* the staged blocks have been moved
Moved == pc \in {"reset", "resetStep", "allUpdated"} \cup Saving \/ (pc \in Replacing /\ host = "server")

\* past the checkpoint the staged blocks and the stored ones make up the chain
WrittenInv ==
    Written =>
        /\ Staged(durable)
        /\ staging.index \in {0, Len(durable)}
        /\ staging.index > 0 /\ Top(staging) = NoBlock => pc = "purgeStagingRest"
        /\ staging.index > 0 /\ Top(staging) # NoBlock =>
               \A h \in 1..Len(durable) :
                   staging.blocks[h] = NoBlock => h <= storage.index /\ storage.blocks[h] = Prefix(durable, h)
        /\ Moved => staging.index = 0

MovingInv ==
    /\ pc \in {"cacheCommit", "dropBlocks", "moveBlocks"} =>
           /\ StartInv(durable)
           /\ staging.index = Len(durable)
           /\ \A h \in start..Len(durable) : staging.blocks[h] = Prefix(durable, h)
    /\ pc = "moveBlocks" =>
           /\ height \in start..Len(durable) /\ storage.index = height - 1
           /\ storage.blocks[height - 1] = Prefix(durable, height - 1)
    /\ pc \in {"purgeStaging", "purgeStagingRest"} => Top(storage) = durable
    /\ pc = "purgeStaging" => staging.index = Len(durable) /\ Top(staging) = durable

BlocksInv ==
    /\ StorageInv /\ CommitInv /\ StagingInv /\ WrittenInv /\ MovingInv
    /\ RecoverableChain = durable

Inv == Types /\ ProcessInv /\ BlocksInv

\* what recovery can not repair is out of scope
IndInv == windows = {} => Inv

USE DEF Booting, Saving, Staging, Moving, Replacing, Purging, EndLabels, ServerLabels, RecoveryLabels, WrittenLabels,
        UnwrittenLabels, Written, Dirty, Moved, Goto, diskVars, queueVars, cacheVars, loopVars, historyVars

-----------------------------------------------------------------------------
(* Block storages.                                                         *)

\* An empty storage, and the operations of a storage.
LEMMA EmptyStorageFacts ==
    EmptyStorage \in BlockFiles /\ EmptyStorage.index = 0 /\ \A h \in 1 .. MaxHeight : EmptyStorage.blocks[h] = NoBlock
BY DEF EmptyStorage, BlockFiles

LEMMA SaveBlockFacts ==
    ASSUME NEW s \in BlockFiles, NEW block \in Chains
    PROVE  /\ saveBlock(s, block) \in BlockFiles /\ saveBlock(s, block).index = Len(block)
           /\ saveBlock(s, block).blocks[Len(block)] = block
           /\ \A h \in 1 .. MaxHeight : h # Len(block) => saveBlock(s, block).blocks[h] = s.blocks[h]
BY ChainFacts DEF saveBlock, BlockFiles

LEMMA DropBlocksFacts ==
    ASSUME NEW s \in BlockFiles, NEW h \in 0 .. MaxHeight
    PROVE  /\ dropBlocksAfter(s, h) \in BlockFiles
           /\ dropBlocksAfter(s, h).index = h /\ dropBlocksAfter(s, h).blocks = s.blocks
BY DEF dropBlocksAfter, BlockFiles

\* The storage holds the durable chain while State_Written is not on record.
LEMMA StoredFacts ==
    ASSUME Inv
    PROVE  /\ storage \in BlockFiles /\ staging \in BlockFiles /\ durable \in Chains
           /\ Len(durable) \in 1 .. MaxHeight /\ storage.index \in 1 .. MaxHeight
           /\ storage.blocks \in [1 .. MaxHeight -> Chains \cup {NoBlock}]
           /\ staging.blocks \in [1 .. MaxHeight -> Chains \cup {NoBlock}]
           /\ staging.index \in 0 .. MaxHeight
           /\ ~Written => Top(storage) = durable /\ storage.index = Len(durable)
<1>1. storage \in BlockFiles /\ staging \in BlockFiles /\ durable \in Chains
  BY Zenon DEF Inv, Types
<1>2. /\ storage.index \in 1 .. MaxHeight /\ staging.index \in 0 .. MaxHeight
      /\ storage.blocks \in [1 .. MaxHeight -> Chains \cup {NoBlock}]
      /\ staging.blocks \in [1 .. MaxHeight -> Chains \cup {NoBlock}]
  BY <1>1 DEF Inv, BlocksInv, StorageInv, BlockFiles
<1>3. ~Written => Top(storage) = durable /\ storage.index = Len(durable)
  BY Zenon DEF Inv, BlocksInv, StorageInv, RecoverableChain
<1>4. QED
  BY <1>1, <1>2, <1>3, ChainFacts

-----------------------------------------------------------------------------
(* Steps that change no block file.                                        *)

\* where the labels before and after such a step say the same of the blocks
QuietLabels ==
    /\ pc' \in Staging \cup {"cacheCommit", "dropBlocks", "moveBlocks"} =>
           /\ UNCHANGED <<target, start, height>>
           /\ \/ pc' = pc
              \/ pc \in Staging \ {"saveBlocks"} /\ pc' \in Staging \ {"saveBlocks"}
              \/ pc = "cacheCommit" /\ pc' = "dropBlocks"
    /\ pc' \in {"purgeStaging", "purgeStagingRest"} => pc' = pc
    /\ Dirty => Dirty' \/ Written
    /\ Written /\ Moved' => Moved
    /\ pc = "purgeStagingRest" => pc' = pc \/ ~StagingWindow

LEMMA QuietStep ==
    ASSUME Inv, UNCHANGED <<storage, staging, durable>>, Written' <=> Written, ProcessInv', QuietLabels
    PROVE  Inv'
<1>1. Types' /\ StorageInv'
  BY Zenon DEF Inv, Types, BlocksInv, StorageInv
<1>2. CommitInv'
  BY Zenon DEF Inv, BlocksInv, CommitInv, StartInv, QuietLabels
<1>3. StagingInv' /\ (RecoverableChain = durable)'
  BY Zenon DEF Inv, BlocksInv, StagingInv, RecoverableChain, Staged, QuietLabels
<1>4. WrittenInv'
  BY Zenon DEF Inv, BlocksInv, WrittenInv, Staged, QuietLabels, StagingWindow
<1>5. MovingInv'
  BY Zenon DEF Inv, BlocksInv, MovingInv, StartInv, QuietLabels
<1>6. QED
  BY <1>1, <1>2, <1>3, <1>4, <1>5 DEF Inv, BlocksInv

\* The checkpoint may change where no block is staged.
LEMMA CheckpointStep ==
    ASSUME Inv, UNCHANGED <<storage, staging, durable>>, ProcessInv', staging.index = 0, Staged(durable),
           pc' \notin Staging \cup Moving \cup {"cacheCommit"}
    PROVE  Inv'
<1>1. Types' /\ StorageInv' /\ CommitInv' /\ MovingInv'
  BY Zenon DEF Inv, Types, BlocksInv, StorageInv, CommitInv, MovingInv
<1>2. StagingInv' /\ WrittenInv' /\ (RecoverableChain = durable)'
  BY DEF Inv, BlocksInv, StagingInv, WrittenInv, Staged, RecoverableChain
<1>3. QED
  BY <1>1, <1>2 DEF Inv, BlocksInv

\* No block is staged where the blocks have been moved, nor where no commit is
\* in progress.
LEMMA NothingStaged ==
    ASSUME Inv, IF Written THEN Moved ELSE ~Dirty
    PROVE  staging.index = 0 /\ Staged(durable)
BY Zenon DEF Inv, BlocksInv, StagingInv, WrittenInv

\* BootServer.
LEMMA BootServerStep ==
    ASSUME Inv, BootServer
    PROVE  Inv'
<1>1. /\ host = "none" /\ ~serverLock /\ serverLock' /\ UNCHANGED <<storage, staging, durable, commitStep>>
      /\ \/ host' = "server" /\ pc' \in {"nemesis", "idle"}
         \/ host' = "none" /\ pc' = "bootThrew"
  BY Zenon DEF BootServer
<1>2. ProcessInv'
  BY Zenon, <1>1 DEF Inv, ProcessInv
<1>3. QuietLabels /\ (Written' <=> Written)
  BY Zenon, <1>1 DEF QuietLabels, Inv, ProcessInv
<1>4. QED
  BY Zenon, <1>1, <1>2, <1>3, QuietStep

\* The steps of the server that spool, skip or publish messages, write
\* state.tmp or commit a sub cache.
LEMMA ServerQuietStep ==
    ASSUME Inv, NotifyNemesis \/ SkipNemesis \/ LoadNemesis \/ NotifyScoreChange \/ NotifyStateChange
                   \/ PreStateWritten \/ CommitCache \/ Publish \/ ShutdownServer
    PROVE  Inv'
<1>1. /\ UNCHANGED <<storage, staging, commitStep, serverLock, durable, host, target, start, height>>
      /\ \/ pc \in Booting /\ pc' \in Booting
         \/ pc = "nemesisLoad" /\ pc' = "save"
         \/ pc \in Staging \ {"saveBlocks"} /\ pc' \in Staging \ {"saveBlocks"}
         \/ pc = "cacheCommit" /\ pc' \in {"cacheCommit", "dropBlocks"}
         \/ pc = "publish" /\ pc' = "idle"
         \/ pc = "idle" /\ pc' = "save"
  BY Zenon DEF NotifyNemesis, SkipNemesis, LoadNemesis, NotifyScoreChange, NotifyStateChange, PreStateWritten, CommitCache,
         Publish, ShutdownServer, Goto
<1>2. ProcessInv'
  BY Zenon, <1>1 DEF Inv, ProcessInv
<1>3. QuietLabels /\ (Written' <=> Written)
  BY Zenon, <1>1 DEF QuietLabels, Inv, ProcessInv
<1>4. QED
  BY Zenon, <1>1, <1>2, <1>3, QuietStep

\* Cleanup and BrokerRead only read messages.
LEMMA ReaderStep ==
    ASSUME Inv, Cleanup \/ BrokerRead
    PROVE  Inv'
<1>1. UNCHANGED <<storage, staging, commitStep, serverLock, durable, host, pc, exiting, target, start, height>>
  BY Zenon DEF Cleanup, BrokerRead
<1>2. ProcessInv'
  BY Zenon, <1>1 DEF Inv, ProcessInv
<1>3. QuietLabels /\ (Written' <=> Written)
  BY Zenon, <1>1 DEF QuietLabels, Inv, ProcessInv
<1>4. QED
  BY Zenon, <1>1, <1>2, <1>3, QuietStep

\* CommitBlocksWritten.
LEMMA BlocksWrittenStep ==
    ASSUME Inv, CommitBlocksWritten
    PROVE  Inv'
<1>1. /\ pc = "blocksWritten" /\ pc' = "scoreChange" /\ commitStep' = "Blocks_Written"
      /\ UNCHANGED <<storage, staging, serverLock, durable, host, target, start, height>>
  BY Zenon DEF CommitBlocksWritten
<1>2. ProcessInv'
  BY Zenon, <1>1 DEF Inv, ProcessInv
<1>3. QuietLabels /\ (Written' <=> Written)
  BY Zenon, <1>1 DEF QuietLabels, Inv, ProcessInv
<1>4. QED
  BY Zenon, <1>1, <1>2, <1>3, QuietStep

\* The steps of the recovery process that repair messages and caches, and
\* the steps that replace state, by either process.
LEMMA RepairStep ==
    ASSUME Inv, StartRecovery \/ Reindex \/ RepairAdvance \/ RepairReindex \/ PurgeStateTmp
                   \/ MoveSupplementalDataFiles
    PROVE  Inv'
<1>1. /\ UNCHANGED <<storage, staging, commitStep, serverLock, durable, exiting>>
      /\ \/ /\ host = "none" /\ pc # "down" /\ host' = "recovery"
            /\ pc' = IF Written THEN "loadState" ELSE "purgeSync"
         \/ /\ host' = host
            /\ \/ pc = "reindex" /\ pc' = "loadState"
               \/ pc = "replayed" /\ pc' = "removeReplayed"
               \/ pc = "removeReplayed" /\ pc' = "replay"
               \/ pc = "replay" /\ pc' \in (IF Written THEN {"findStart", "purgeState"} ELSE {"purgeStateTmp"})
               \/ pc \in {"purgeStateTmp", "purgeStateTmpRest"} /\ pc' \in {"purgeStateTmpRest", "reset"}
               \/ pc = "purgeState" /\ pc' = "renameState"
               \/ pc = "renameState" /\ pc' = IF host = "recovery" THEN "findStart" ELSE "allUpdated"
  BY Zenon DEF StartRecovery, Reindex, RepairAdvance, RepairReindex, PurgeStateTmp, MoveSupplementalDataFiles
<1>2. ProcessInv'
  BY Zenon, <1>1 DEF Inv, ProcessInv
<1>3. QuietLabels /\ (Written' <=> Written)
  BY Zenon, <1>1 DEF QuietLabels, Inv, ProcessInv
<1>4. QED
  BY Zenon, <1>1, <1>2, <1>3, QuietStep

\* A step of the recovery process that may throw.
LEMMA ThrowingStep ==
    ASSUME Inv, RecoveryLoadState \/ RepairCatchUp \/ RepairReplay
    PROVE  Inv'
<1>1. /\ UNCHANGED <<storage, staging, commitStep, serverLock, durable>>
      /\ pc \in {"loadState", "catchUp", "replay"}
      /\ \/ host' = "none" /\ pc' = "recoveryThrew"
         \/ host' = host /\ pc' \in {"catchUp", "replay", "replayed"}
  BY Zenon DEF RecoveryLoadState, RepairCatchUp, RepairReplay, ReplayMessage, RecoveryThrows, EndProcess
<1>2. ProcessInv'
  BY Zenon, <1>1 DEF Inv, ProcessInv
<1>3. QuietLabels /\ (Written' <=> Written)
  BY Zenon, <1>1 DEF QuietLabels, Inv, ProcessInv
<1>4. QED
  BY Zenon, <1>1, <1>2, <1>3, QuietStep

\* SaveState, by either process: it goes through the checkpoints where no block
\* is staged.
LEMMA SaveStateStep ==
    ASSUME Inv, SaveState
    PROVE  Inv'
<1>1. /\ UNCHANGED <<storage, staging, serverLock, durable, host, exiting>>
      /\ pc \in Saving /\ pc' \in Saving \cup {"exit", "idle"}
      /\ IF pc' \in {"savePurge", "saveRename", "saveUpdated"} THEN commitStep' = "State_Written" ELSE ~Written'
      /\ pc' # "save" /\ (exiting => pc' # "idle")
  <2>1. pc \in Saving => (Written <=> pc \in {"savePurge", "saveRename", "saveUpdated"})
    BY Zenon DEF Inv, ProcessInv
  <2>2. QED
    BY Zenon, <2>1 DEF SaveState
<1>2. ProcessInv'
  BY Zenon, <1>1 DEF Inv, ProcessInv
<1>3. staging.index = 0 /\ Staged(durable)
  BY Zenon, <1>1, NothingStaged
<1>4. QED
  BY Zenon, <1>1, <1>2, <1>3, CheckpointStep

\* CommitAllUpdated.
LEMMA AllUpdatedStep ==
    ASSUME Inv, CommitAllUpdated
    PROVE  Inv'
<1>1. /\ UNCHANGED <<storage, staging, serverLock, durable, host, exiting>>
      /\ pc = "allUpdated" /\ pc' = "publish" /\ ~Written'
  BY Zenon DEF CommitAllUpdated
<1>2. ProcessInv'
  BY Zenon, <1>1 DEF Inv, ProcessInv
<1>3. staging.index = 0 /\ Staged(durable)
  BY Zenon, <1>1, NothingStaged DEF Inv, ProcessInv
<1>4. QED
  BY Zenon, <1>1, <1>2, <1>3, CheckpointStep

\* ResetSystemState.
LEMMA ResetStep ==
    ASSUME Inv, ResetSystemState
    PROVE  Inv'
<1>1. /\ UNCHANGED <<storage, staging, durable, host>>
      /\ \/ pc = "reset" /\ pc' = "resetStep" /\ commitStep' = commitStep
         \/ pc = "resetStep" /\ pc' = "save" /\ ~Written' /\ exiting'
  BY Zenon DEF ResetSystemState
<1>2. ProcessInv'
  BY Zenon, <1>1 DEF Inv, ProcessInv
<1>3. staging.index = 0 /\ Staged(durable)
  BY Zenon, <1>1, NothingStaged
<1>4. QED
  BY Zenon, <1>1, <1>2, <1>3, CheckpointStep

\* Exit.
LEMMA ExitStep ==
    ASSUME Inv, Exit
    PROVE  Inv'
<1>1. /\ UNCHANGED <<storage, staging, commitStep, durable>>
      /\ pc = "exit" /\ pc' = "down" /\ host' = "none"
  BY Zenon DEF Exit, EndProcess
<1>2. ProcessInv'
  BY Zenon, <1>1 DEF Inv, ProcessInv
<1>3. staging.index = 0 /\ Staged(durable)
  BY Zenon, <1>1, NothingStaged DEF Inv, ProcessInv
<1>4. QED
  BY Zenon, <1>1, <1>2, <1>3, CheckpointStep

\* A crash that opens no window.
LEMMA NoWindows ==
    ASSUME CrashWindows = {}
    PROVE  ~StagingWindow /\ ~UnlockedWindow
<1>1. "staging" \notin CrashWindows /\ "unlocked" \notin CrashWindows
  BY Zenon
<1>2. QED
  BY Zenon, <1>1 DEF CrashWindows

\* Crash, where it opens no window.
LEMMA CrashStep ==
    ASSUME Inv, Crash, CrashWindows = {}
    PROVE  Inv'
<1>1. /\ host # "none" /\ host' = "none" /\ pc' = "crashed"
      /\ UNCHANGED <<storage, staging, commitStep, serverLock, durable>>
      /\ ~StagingWindow /\ ~UnlockedWindow
  BY Zenon, NoWindows DEF Crash, EndProcess
<1>2. ProcessInv'
  BY Zenon, <1>1 DEF Inv, ProcessInv, UnlockedWindow
<1>3. QuietLabels /\ (Written' <=> Written)
  BY Zenon, <1>1 DEF QuietLabels, Inv, ProcessInv
<1>4. QED
  BY Zenon, <1>1, <1>2, <1>3, QuietStep

\* SaveBlocks.
LEMMA SaveBlocksStep ==
    ASSUME Inv, SaveBlocks
    PROVE  Inv'
<1>0. /\ pc = "saveBlocks" /\ pc' = IF height = Len(target) THEN "blocksWritten" ELSE pc
      /\ height' = height + 1
      /\ UNCHANGED <<storage, commitStep, serverLock, host, target, start, durable>>
  BY Zenon DEF SaveBlocks
<1> DEFINE block == Prefix(target, height)
<1>a. /\ ~Written /\ target \in Chains /\ Len(target) \in 1 .. MaxHeight /\ start \in 2 .. Len(target)
      /\ height \in start .. Len(target) /\ staging.index = height - 1
  BY Zenon, ChainFacts DEF Inv, ProcessInv, BlocksInv, CommitInv, StartInv, SaveBlocks
<1>b. height \in 1 .. Len(target) /\ height \in Nat /\ height + 1 \in Nat /\ height \in 1 .. MaxHeight
  BY <1>a
<1>c. block \in Chains /\ Len(block) = height
  BY Zenon, <1>a, <1>b, PrefixFacts
<1> HIDE DEF block
<1>d. /\ staging' \in BlockFiles /\ staging'.index = height /\ staging'.blocks[height] = block
      /\ \A h \in 1 .. MaxHeight : h # height => staging'.blocks[h] = staging.blocks[h]
  <2>1. staging' = saveBlock(staging, block)
    BY Zenon DEF SaveBlocks, block
  <2>2. staging \in BlockFiles
    BY Zenon, StoredFacts
  <2>3. QED
    BY Zenon, <1>c, <2>1, <2>2, SaveBlockFacts
<1>1. Types'
  BY Zenon, <1>0, <1>b, <1>d DEF Inv, Types
<1>2. ProcessInv'
  BY Zenon, <1>0 DEF Inv, ProcessInv
<1>3. BlocksInv'
  <2>1. StorageInv' /\ StartInv(target)'
    BY Zenon, <1>0 DEF Inv, BlocksInv, CommitInv, StorageInv, StartInv
  <2>2. CommitInv'
    <3>1. \A h \in 1 .. height : staging'.blocks[h] \in {NoBlock, Prefix(target, h)}
      BY <1>0, <1>a, <1>b, <1>d DEF Inv, BlocksInv, CommitInv, block
    <3>2. \A h \in start .. height : staging'.blocks[h] = Prefix(target, h)
      BY <1>0, <1>a, <1>b, <1>d DEF Inv, BlocksInv, CommitInv, block
    <3>3. IF pc' = "saveBlocks" THEN height' \in start .. Len(target) /\ height = height' - 1 ELSE height = Len(target)
      BY <1>0, <1>a, <1>b
    <3>4. /\ target' = target /\ start' = start /\ durable' = durable
          /\ target \in Chains /\ Score(target) > Score(durable)
      BY Zenon, <1>0 DEF Inv, BlocksInv, CommitInv
    <3>5. QED
      BY <1>d, <2>1, <3>1, <3>2, <3>3, <3>4 DEF CommitInv
  <2>3. StagingInv' /\ WrittenInv' /\ MovingInv'
    BY <1>0, <1>a, <1>b, <1>d DEF Inv, BlocksInv, StagingInv, WrittenInv, MovingInv
  <2>4. (RecoverableChain = durable)'
    BY Zenon, <1>0, <1>a, StoredFacts DEF RecoverableChain
  <2>5. QED
    BY Zenon, <2>1, <2>2, <2>3, <2>4 DEF BlocksInv
<1>4. QED
  BY Zenon, <1>1, <1>2, <1>3 DEF Inv

\* CommitStateWritten.
LEMMA CommitStateWrittenStep ==
    ASSUME Inv, CommitStateWritten
    PROVE  Inv'
<1>0. /\ pc = "stateWritten" /\ pc' = "cacheCommit"
      /\ commitStep' = "State_Written" /\ durable' = target
      /\ UNCHANGED <<storage, staging, serverLock, host, target, start, height>>
  BY Zenon DEF CommitStateWritten
<1>a. /\ ~Written /\ Top(storage) = durable /\ storage.index = Len(durable) /\ target \in Chains
      /\ start \in 2 .. Len(target) /\ staging.index = Len(target) /\ Len(target) \in 1 .. MaxHeight
      /\ start - 1 <= storage.index /\ storage.blocks[start - 1] = Prefix(target, start - 1)
  BY StoredFacts DEF Inv, ProcessInv, BlocksInv, CommitInv, StartInv, CommitStateWritten
<1>b. \A h \in start .. Len(target) : staging.blocks[h] = Prefix(target, h) /\ Prefix(target, h) # NoBlock
  <2>1. \A h \in start .. Len(target) : staging.blocks[h] = Prefix(target, h) /\ h \in 1 .. Len(target)
    BY <1>a DEF Inv, BlocksInv, CommitInv, CommitStateWritten
  <2>2. QED
    BY <1>a, <2>1, PrefixFacts, ChainFacts, Zenon
<1>c. \A h \in 1 .. Len(target) : staging.blocks[h] \in {NoBlock, Prefix(target, h)}
  BY Zenon, <1>a DEF Inv, BlocksInv, CommitInv, CommitStateWritten
<1>d. Top(staging) = target /\ target # NoBlock
  BY <1>a, <1>b, WholePrefix DEF Top
<1>e. ASSUME NEW h \in 1 .. (start - 1) PROVE h <= storage.index /\ storage.blocks[h] = Prefix(target, h)
  <2>1. h \in 1 .. storage.index /\ start - 1 \in 1 .. storage.index /\ start - 1 \in 1 .. Len(target)
    BY <1>a
  <2>2. storage.blocks[h] = Prefix(durable, h) /\ storage.blocks[start - 1] = Prefix(durable, start - 1)
    BY Zenon, <1>a, <2>1 DEF Inv, BlocksInv, StorageInv
  <2>3. QED
    BY <1>a, <2>1, <2>2, StoredFacts, PrefixOfPrefix
<1>1. Types'
  BY Zenon, <1>0, <1>a DEF Inv, Types
<1>2. ProcessInv'
  BY Zenon, <1>0 DEF Inv, ProcessInv
<1>3. BlocksInv'
  <2>1. StorageInv' /\ StagingInv' /\ CommitInv'
    BY Zenon, <1>0 DEF Inv, BlocksInv, StorageInv, StagingInv, CommitInv
  <2>2. WrittenInv'
    <3>1. Staged(durable)' /\ staging'.index \in {0, Len(durable')}
      BY <1>0, <1>a, <1>c DEF Staged
    <3>2. \A h \in 1 .. Len(target) :
              staging.blocks[h] = NoBlock => h <= storage.index /\ storage.blocks[h] = Prefix(target, h)
      BY <1>a, <1>b, <1>e
    <3>3. Top(staging)' = target
      BY Zenon, <1>0, <1>d
    <3>4. QED
      BY <1>0, <1>d, <3>1, <3>2, <3>3 DEF WrittenInv
  <2>3. MovingInv'
    BY Zenon, <1>0, <1>a, <1>b DEF MovingInv, StartInv
  <2>4. (RecoverableChain = durable)'
    BY <1>0, <1>a, <1>d DEF RecoverableChain
  <2>5. QED
    BY <2>1, <2>2, <2>3, <2>4 DEF BlocksInv
<1>4. QED
  BY Zenon, <1>1, <1>2, <1>3 DEF Inv

\* Two chains share a prefix up to CommonHeight, and the better one is longer.
LEMMA CommonHeightFacts ==
    ASSUME NEW a \in Chains, NEW b \in Chains, Score(a) > Score(b)
    PROVE  /\ CommonHeight(a, b) \in 1 .. (Len(a) - 1) /\ CommonHeight(a, b) <= Len(b)
           /\ Prefix(a, CommonHeight(a, b)) = Prefix(b, CommonHeight(a, b))
<1> DEFINE Shared == {h \in 1 .. Len(a) : h <= Len(b) /\ Prefix(a, h) = Prefix(b, h)}
           Parts(h) == /\ h <= Len(b) /\ Prefix(a, h) = Prefix(b, h)
                       /\ (h < Len(a) /\ h < Len(b)) => a[h + 1] # b[h + 1]
           Left == {Len(a) - h : h \in Shared}
<1>1. Len(a) \in Nat /\ Len(b) \in Nat /\ Len(a) >= 1 /\ Len(b) >= 1
  BY ChainFacts
<1>2. 1 \in Shared
  BY <1>1, WholePrefix
<1>3. Left \in SUBSET Nat /\ Len(a) - 1 \in Left
  BY <1>1, <1>2
<1>4. PICK x \in Left : \A y \in Left : x <= y
  <2> HIDE DEF Left
  <2>1. QED
    BY Zenon, <1>3, LeastNatural
<1>5. PICK m \in Shared : x = Len(a) - m
  BY Zenon, <1>4
<1>6. ASSUME NEW h \in Shared PROVE h <= m
  <2>1. x <= Len(a) - h
    BY Zenon, <1>4
  <2>2. m \in Nat /\ h \in Nat
    BY <1>1, <1>5
  <2>3. QED
    BY <1>1, <1>5, <2>1, <2>2
<1>7. Parts(m)
  <2> SUFFICES ASSUME m < Len(a), m < Len(b), a[m + 1] = b[m + 1] PROVE FALSE
    BY <1>5
  <2>1. m + 1 \in 1 .. Len(a) /\ m + 1 \in 1 .. Len(b) /\ m \in 1 .. Len(a) /\ m \in 1 .. Len(b)
    BY <1>1, <1>5
  <2>2. \A i \in 1 .. m : a[i] = b[i]
    <3>1. Prefix(a, m) = Prefix(b, m)
      BY Zenon, <1>5
    <3>2. /\ \A i \in 1 .. m : Prefix(a, m)[i] = a[i]
          /\ \A i \in 1 .. m : Prefix(b, m)[i] = b[i]
      BY Zenon, <2>1, PrefixFacts
    <3>3. QED
      BY Zenon, <3>1, <3>2
  <2>3. \A i \in 1 .. m + 1 : a[i] = b[i]
    BY <2>1, <2>2
  <2>4. Prefix(a, m + 1) = Prefix(b, m + 1)
    <3>1. /\ Prefix(a, m + 1) \in Chains /\ Len(Prefix(a, m + 1)) = m + 1
          /\ Prefix(b, m + 1) \in Chains /\ Len(Prefix(b, m + 1)) = m + 1
          /\ \A i \in 1 .. m + 1 : Prefix(a, m + 1)[i] = a[i]
          /\ \A i \in 1 .. m + 1 : Prefix(b, m + 1)[i] = b[i]
      BY Zenon, <2>1, PrefixFacts
    <3>2. QED
      BY Zenon, <2>3, <3>1, ChainEqual
  <2>5. m + 1 \in Shared
    BY <2>1, <2>4
  <2>6. QED
    BY <1>5, <1>6, <2>1, <2>5
<1>8. \E h \in 1 .. Len(a) : Parts(h)
  BY Zenon, <1>5, <1>7
<1> DEFINE c == CommonHeight(a, b)
<1>9. c \in 1 .. Len(a) /\ Parts(c)
  <2>1. c = CHOOSE h \in 1 .. Len(a) : Parts(h)
    BY Zenon DEF CommonHeight
  <2> HIDE DEF Parts, c
  <2>2. QED
    BY <1>8, <2>1, Zenon
<1>10. c # Len(a)
  <2> SUFFICES ASSUME c = Len(a) PROVE FALSE
    OBVIOUS
  <2>1. a = Prefix(b, c) /\ c \in 1 .. Len(b)
    BY <1>1, <1>9, WholePrefix
  <2>2. Score(a) <= Score(b)
    BY Zenon, <2>1, ScoreMonotone
  <2>3. QED
    BY <2>2, ScoreFacts
<1>11. QED
  BY <1>1, <1>9, <1>10

\* StartCommit.
LEMMA StartCommitStep ==
    ASSUME Inv, NEW chain \in Chains, StartCommit(chain)
    PROVE  Inv'
<1>0. /\ pc = "idle" /\ pc' = "saveBlocks" /\ target' = chain /\ height' = start'
      /\ UNCHANGED <<storage, commitStep, serverLock, host, durable>>
  BY Zenon DEF StartCommit
<1> DEFINE common == CommonHeight(chain, Top(storage))
<1>a. ~Written /\ Top(storage) = durable /\ storage.index = Len(durable) /\ Score(chain) > Score(durable)
  BY Zenon, StoredFacts DEF Inv, ProcessInv, StartCommit
<1>b. /\ common \in 1 .. (Len(chain) - 1) /\ common <= Len(durable)
      /\ Prefix(chain, common) = Prefix(durable, common)
      /\ Len(chain) \in 1 .. MaxHeight /\ Len(durable) \in 1 .. MaxHeight
  BY <1>a, StoredFacts, CommonHeightFacts, ChainFacts
<1>c. start' = common + 1 /\ height' = common + 1 /\ target' = chain
  BY Zenon DEF StartCommit
<1> HIDE DEF common
<1>d. common \in 0 .. MaxHeight /\ common + 1 - 1 = common /\ common + 1 \in 2 .. Len(chain)
  BY <1>b
<1>e. staging' \in BlockFiles /\ staging'.index = common /\ staging'.blocks = staging.blocks
  <2>1. staging' = dropBlocksAfter(staging, common)
    BY <1>c, <1>d DEF StartCommit
  <2>2. QED
    BY <1>d, <2>1, StoredFacts, DropBlocksFacts, Zenon
<1>1. Types'
  BY Zenon, <1>0, <1>e DEF Inv, Types
<1>2. ProcessInv'
  BY Zenon, <1>0 DEF Inv, ProcessInv
<1>3. BlocksInv'
  <2>1. StorageInv' /\ StartInv(chain)'
    <3>1. storage.blocks[common] = Prefix(chain, common)
      BY <1>a, <1>b DEF Inv, BlocksInv, StorageInv
    <3>2. QED
      BY <1>0, <1>a, <1>b, <1>c, <1>d, <3>1 DEF Inv, BlocksInv, StorageInv, StartInv, Top
  <2>2. CommitInv'
    <3>1. ASSUME NEW h \in 1 .. common PROVE staging.blocks[h] \in {NoBlock, Prefix(chain, h)}
      <4>1. Prefix(chain, h) = Prefix(durable, h)
        BY <1>a, <1>b, StoredFacts, PrefixOfPrefix
      <4>2. h \in 1 .. Len(durable)
        BY <1>b
      <4>3. QED
        BY Zenon, <1>0, <4>1, <4>2 DEF Inv, BlocksInv, StagingInv, Staged, ProcessInv
    <3>2. pc' = "saveBlocks" /\ durable' = durable
      BY Zenon, <1>0
    <3>3. QED
      BY <1>a, <1>c, <1>d, <1>e, <2>1, <3>1, <3>2 DEF CommitInv
  <2>3. StagingInv' /\ WrittenInv' /\ MovingInv'
    BY Zenon, <1>0, <1>a, <1>e DEF Inv, BlocksInv, StagingInv, WrittenInv, MovingInv
  <2>4. (RecoverableChain = durable)'
    BY Zenon, <1>0, <1>a DEF RecoverableChain
  <2>5. QED
    BY Zenon, <2>1, <2>2, <2>3, <2>4 DEF BlocksInv
<1>4. QED
  BY Zenon, <1>1, <1>2, <1>3 DEF Inv

\* A storage that holds the prefixes of a chain up to a height has that prefix.
LEMMA TopIs ==
    ASSUME NEW s \in BlockFiles, NEW chain \in Chains, NEW n \in 1 .. Len(chain), s.index = n,
           \A h \in 1 .. n : s.blocks[h] = Prefix(chain, h)
    PROVE  /\ Top(s) = Prefix(chain, n) /\ s.index >= 1 /\ Top(s) \in Chains /\ Len(Top(s)) = s.index
           /\ \A h \in 1 .. s.index : s.blocks[h] = Prefix(Top(s), h)
<1>1. Top(s) = Prefix(chain, n) /\ n >= 1 /\ n \in 1 .. n
  BY DEF Top
<1>2. Prefix(chain, n) \in Chains /\ Len(Prefix(chain, n)) = n
  BY Zenon, PrefixFacts
<1>3. \A h \in 1 .. n : Prefix(Prefix(chain, n), h) = Prefix(chain, h)
  BY Zenon, PrefixOfPrefix
<1>4. QED
  BY Zenon, <1>1, <1>2, <1>3

\* The storage agrees with a chain up to a height if it does so at that height.
LEMMA BelowStart ==
    ASSUME Inv, NEW chain \in Chains, NEW h \in 1 .. storage.index, h <= Len(chain),
           storage.blocks[h] = Prefix(chain, h), NEW k \in 1 .. h
    PROVE  storage.blocks[k] = Prefix(chain, k) /\ k <= storage.index
<1>1. /\ k \in 1 .. storage.index /\ h \in 1 .. Len(chain)
      /\ Top(storage) \in Chains /\ Len(Top(storage)) = storage.index
      /\ storage.blocks[h] = Prefix(Top(storage), h) /\ storage.blocks[k] = Prefix(Top(storage), k)
  <2>1. k \in 1 .. storage.index /\ h \in 1 .. Len(chain)
    BY StoredFacts
  <2>2. QED
    BY Zenon, <2>1 DEF Inv, BlocksInv, StorageInv
<1>2. Prefix(Prefix(Top(storage), h), k) = Prefix(Top(storage), k) /\ Prefix(Prefix(chain, h), k) = Prefix(chain, k)
  BY <1>1, PrefixOfPrefix, Zenon
<1>3. QED
  BY <1>1, <1>2

\* What the server and the recovery process know when they move blocks.
LEMMA MovingFacts ==
    ASSUME Inv, pc \in {"dropBlocks", "moveBlocks"}
    PROVE  /\ Written /\ start \in 2 .. Len(durable) /\ staging.index = Len(durable)
           /\ start - 1 \in 1 .. storage.index
           /\ \A h \in start .. Len(durable) : staging.blocks[h] = Prefix(durable, h) /\ staging.blocks[h] # NoBlock
           /\ \A h \in 1 .. (start - 1) : storage.blocks[h] = Prefix(durable, h)
           /\ Top(staging) = durable
<1>1. /\ Written /\ start \in 2 .. Len(durable) /\ staging.index = Len(durable)
      /\ start - 1 <= storage.index /\ storage.blocks[start - 1] = Prefix(durable, start - 1)
      /\ \A h \in start .. Len(durable) : staging.blocks[h] = Prefix(durable, h)
  BY Zenon DEF Inv, ProcessInv, BlocksInv, MovingInv, StartInv
<1>2. start - 1 \in 1 .. storage.index /\ start - 1 <= Len(durable)
  BY <1>1
<1>3. \A h \in start .. Len(durable) : Prefix(durable, h) # NoBlock
  BY <1>1, StoredFacts, PrefixFacts, ChainFacts
<1>4. \A h \in 1 .. (start - 1) : storage.blocks[h] = Prefix(durable, h)
  BY <1>1, <1>2, StoredFacts, BelowStart
<1>5. Top(staging) = durable
  BY <1>1, StoredFacts, WholePrefix DEF Top
<1>6. QED
  BY <1>1, <1>2, <1>3, <1>4, <1>5

\* MoveBlockFiles drops the blocks of the old fork.
LEMMA DropBlocksStep ==
    ASSUME Inv, MoveBlockFiles, pc = "dropBlocks"
    PROVE  Inv'
<1>0. /\ pc = "dropBlocks" /\ pc' = "moveBlocks" /\ height' = start
      /\ UNCHANGED <<staging, commitStep, serverLock, host, target, start, durable>>
  BY Zenon DEF MoveBlockFiles
<1>a. storage' \in BlockFiles /\ storage'.index = start - 1 /\ storage'.blocks = storage.blocks
  <2>1. start - 1 \in 0 .. MaxHeight /\ start - 1 <= storage.index /\ start \in Nat
    BY MovingFacts, StoredFacts
  <2>2. CASE start <= storage.index
    <3>1. storage' = dropBlocksAfter(storage, start - 1)
      BY Zenon, <2>2 DEF MoveBlockFiles
    <3>2. QED
      BY Zenon, <2>1, <3>1, StoredFacts, DropBlocksFacts
  <2>3. CASE ~(start <= storage.index)
    BY <2>1, <2>3, StoredFacts DEF MoveBlockFiles
  <2>4. QED
    BY <2>2, <2>3
<1>b. /\ staging' = staging /\ durable' = durable /\ start' = start /\ height' = start
      /\ commitStep' = commitStep /\ pc' = "moveBlocks"
  BY Zenon DEF MoveBlockFiles
<1>c. start - 1 \in 1 .. Len(durable)
  BY MovingFacts
<1>1. Types'
  BY Zenon, <1>0, <1>a DEF Inv, Types
<1>2. ProcessInv'
  BY Zenon, <1>0 DEF Inv, ProcessInv
<1>3. BlocksInv'
  <2>1. StorageInv'
    BY <1>a, <1>c, MovingFacts, StoredFacts, TopIs DEF StorageInv
  <2>2. WrittenInv'
    <3>1. \A h \in 1 .. Len(durable) : staging.blocks[h] = NoBlock => h \in 1 .. (start - 1)
      BY MovingFacts
    <3>2. QED
      BY <1>a, <1>b, <3>1 DEF Inv, BlocksInv, WrittenInv, Staged
  <2>3. MovingInv'
    BY <1>a, <1>b, <1>c, MovingFacts DEF MovingInv, StartInv
  <2>4. CommitInv' /\ StagingInv'
    BY Zenon, <1>b, MovingFacts DEF Inv, BlocksInv, CommitInv, StagingInv
  <2>5. (RecoverableChain = durable)'
    BY <1>b, MovingFacts, StoredFacts, ChainFacts DEF RecoverableChain
  <2>6. QED
    BY Zenon, <2>1, <2>2, <2>3, <2>4, <2>5 DEF BlocksInv
<1>4. QED
  BY Zenon, <1>1, <1>2, <1>3 DEF Inv

\* MoveBlockFiles moves one block.
LEMMA MoveBlocksStep ==
    ASSUME Inv, MoveBlockFiles, pc = "moveBlocks"
    PROVE  Inv'
<1>0. /\ pc = "moveBlocks" /\ pc' = IF height = staging.index THEN "purgeStaging" ELSE pc
      /\ height' = height + 1
      /\ UNCHANGED <<staging, commitStep, serverLock, host, target, start, durable>>
  BY Zenon DEF MoveBlockFiles
<1>a. height \in start .. Len(durable) /\ height \in 1 .. Len(durable) /\ storage.index = height - 1
  BY MovingFacts DEF Inv, BlocksInv, MovingInv
<1>b. staging.blocks[height] = Prefix(durable, height) /\ Prefix(durable, height) \in Chains
      /\ Len(Prefix(durable, height)) = height
  BY Zenon, <1>a, MovingFacts, StoredFacts, PrefixFacts
<1>c. /\ storage' \in BlockFiles /\ storage'.index = height /\ storage'.blocks[height] = Prefix(durable, height)
      /\ \A h \in 1 .. MaxHeight : h # height => storage'.blocks[h] = storage.blocks[h]
  <2>1. storage' = saveBlock(storage, Prefix(durable, height))
    BY Zenon, <1>b DEF MoveBlockFiles
  <2>2. storage \in BlockFiles
    BY Zenon, StoredFacts
  <2> DEFINE block == Prefix(durable, height)
  <2>3. storage' = saveBlock(storage, block) /\ block \in Chains /\ Len(block) = height
    BY <1>b, <2>1
  <2> HIDE DEF block
  <2>4. /\ storage' \in BlockFiles /\ storage'.index = height /\ storage'.blocks[height] = block
        /\ \A h \in 1 .. MaxHeight : h # height => storage'.blocks[h] = storage.blocks[h]
    BY <2>2, <2>3, SaveBlockFacts
  <2>5. QED
    BY Zenon, <2>4 DEF block
<1>d. /\ staging' = staging /\ durable' = durable /\ start' = start /\ height' = height + 1 /\ height + 1 \in Nat
      /\ commitStep' = commitStep /\ pc' = IF height = Len(durable) THEN "purgeStaging" ELSE "moveBlocks"
  BY <1>a, MovingFacts DEF MoveBlockFiles
<1>e. \A h \in 1 .. height : storage'.blocks[h] = Prefix(durable, h) /\ h \in 1 .. MaxHeight
  <2>1. ASSUME NEW h \in 1 .. (height - 1) PROVE storage.blocks[h] = Prefix(durable, h) /\ h \in 1 .. MaxHeight
    <3>1. height - 1 \in 1 .. storage.index /\ height - 1 <= Len(durable) /\ h \in 1 .. MaxHeight
      BY <1>a, StoredFacts
    <3>2. storage.blocks[height - 1] = Prefix(durable, height - 1)
      BY Zenon DEF Inv, BlocksInv, MovingInv
    <3>3. QED
      BY Zenon, <3>1, <3>2, StoredFacts, BelowStart
  <2>2. QED
    BY <1>a, <1>c, <2>1, StoredFacts
<1>f. StorageInv' /\ Top(storage') = Prefix(durable, height)
  BY <1>a, <1>c, <1>e, StoredFacts, TopIs DEF StorageInv
<1>1. Types'
  BY Zenon, <1>0, <1>c, <1>d DEF Inv, Types
<1>2. ProcessInv'
  BY Zenon, <1>0 DEF Inv, ProcessInv
<1>3. BlocksInv'
  <2>1. WrittenInv'
    <3>1. \A h \in 1 .. Len(durable) : staging.blocks[h] = NoBlock => h \in 1 .. (start - 1)
      BY MovingFacts
    <3>2. \A h \in 1 .. (start - 1) : h \in 1 .. height
      BY <1>a, MovingFacts
    <3>3. QED
      BY <1>c, <1>d, <1>e, <3>1, <3>2, MovingFacts DEF Inv, BlocksInv, WrittenInv, Staged, Top
  <2>2. StartInv(durable)'
    BY <1>a, <1>c, <1>d, <1>e, MovingFacts DEF StartInv
  <2>3. MovingInv'
    <3>1. CASE height = Len(durable)
      BY <1>d, <1>f, <3>1, MovingFacts, StoredFacts, WholePrefix DEF MovingInv
    <3>2. CASE height # Len(durable)
      BY <1>a, <1>c, <1>d, <2>2, <3>2, MovingFacts DEF MovingInv
    <3>3. QED
      BY Zenon, <3>1, <3>2
  <2>4. CommitInv' /\ StagingInv'
    BY Zenon, <1>d, MovingFacts DEF Inv, BlocksInv, CommitInv, StagingInv
  <2>5. (RecoverableChain = durable)'
    BY <1>d, MovingFacts, StoredFacts, ChainFacts DEF RecoverableChain
  <2>6. QED
    BY Zenon, <1>f, <2>1, <2>3, <2>4, <2>5 DEF BlocksInv
<1>4. QED
  BY Zenon, <1>1, <1>2, <1>3 DEF Inv

\* MoveBlockFiles purges block_sync, first its index or first its blocks.
LEMMA PurgeStagingStep ==
    ASSUME Inv, MoveBlockFiles, pc = "purgeStaging"
    PROVE  Inv'
<1>0. /\ pc = "purgeStaging" /\ pc' = "purgeStagingRest"
      /\ UNCHANGED <<storage, commitStep, serverLock, host, target, start, height, durable>>
  BY Zenon DEF MoveBlockFiles
<1>a. /\ Written /\ Top(storage) = durable /\ staging.index = Len(durable)
      /\ storage' = storage /\ durable' = durable /\ commitStep' = commitStep /\ pc' = "purgeStagingRest"
  BY Zenon DEF Inv, ProcessInv, BlocksInv, MovingInv, MoveBlockFiles
<1>b. /\ staging' \in BlockFiles
      /\ \/ staging'.index = 0 /\ staging'.blocks = staging.blocks
         \/ staging'.index = Len(durable) /\ \A h \in 1 .. MaxHeight : staging'.blocks[h] = NoBlock
  BY <1>a, StoredFacts DEF MoveBlockFiles, PartlyPurged, EmptyStorage, BlockFiles
<1>1. Types'
  BY Zenon, <1>0, <1>b DEF Inv, Types
<1>2. ProcessInv'
  BY Zenon, <1>0 DEF Inv, ProcessInv
<1>3. BlocksInv'
  <2>1. CommitInv' /\ MovingInv' /\ StorageInv'
    BY Zenon, <1>a DEF Inv, BlocksInv, CommitInv, MovingInv, StorageInv
  <2>2. CASE staging'.index = 0 /\ staging'.blocks = staging.blocks
    BY <1>a, <2>1, <2>2 DEF Inv, BlocksInv, StagingInv, WrittenInv, Staged, RecoverableChain
  <2>3. CASE staging'.index = Len(durable) /\ \A h \in 1 .. MaxHeight : staging'.blocks[h] = NoBlock
    <3>1. Top(staging') = NoBlock /\ staging'.blocks[1] = NoBlock /\ Staged(durable)'
      BY <1>a, <2>3, StoredFacts DEF Top, Staged
    <3>2. (RecoverableChain = durable)'
      BY Zenon, <1>a, <3>1 DEF RecoverableChain
    <3>3. StagingInv' /\ WrittenInv'
      BY Zenon, <1>a, <2>3, <3>1 DEF StagingInv, WrittenInv
    <3>4. QED
      BY Zenon, <2>1, <3>2, <3>3 DEF BlocksInv
  <2>4. QED
    BY Zenon, <1>b, <2>2, <2>3
<1>4. QED
  BY Zenon, <1>1, <1>2, <1>3 DEF Inv

\* MoveBlockFiles purges what is left of block_sync.
LEMMA PurgeRestStep ==
    ASSUME Inv, MoveBlockFiles, pc = "purgeStagingRest"
    PROVE  Inv'
<1>0. /\ pc = "purgeStagingRest" /\ pc' = IF host = "recovery" THEN "reset"
            ELSE IF EnableCacheDatabaseStorage THEN "purgeState" ELSE "allUpdated"
      /\ staging' = EmptyStorage
      /\ UNCHANGED <<storage, commitStep, serverLock, host, durable>>
  BY Zenon DEF MoveBlockFiles
<1>a. /\ Written /\ Top(storage) = durable /\ staging' = EmptyStorage
      /\ storage' = storage /\ durable' = durable /\ commitStep' = commitStep
  BY Zenon DEF Inv, ProcessInv, BlocksInv, MovingInv, MoveBlockFiles
<1>1. Types'
  BY Zenon, <1>0, <1>a, EmptyStorageFacts DEF Inv, Types
<1>2. ProcessInv'
  BY Zenon, <1>0 DEF Inv, ProcessInv
<1>3. BlocksInv'
  <2>1. CommitInv' /\ MovingInv' /\ StorageInv'
    BY Zenon, <1>0, <1>a DEF Inv, BlocksInv, CommitInv, MovingInv, StorageInv
  <2>2. StagingInv' /\ WrittenInv' /\ (RecoverableChain = durable)'
    BY <1>0, <1>a, EmptyStorageFacts, StoredFacts DEF StagingInv, WrittenInv, Staged, RecoverableChain
  <2>3. QED
    BY Zenon, <2>1, <2>2 DEF BlocksInv
<1>4. QED
  BY Zenon, <1>1, <1>2, <1>3 DEF Inv

\* The first staged block of the durable chain follows a stored one.
LEMMA FindStartFacts ==
    ASSUME Inv, FindStart
    PROVE  /\ staging.index = 0 \/ Top(staging) # NoBlock
           /\ staging.index > 0 =>
                  /\ staging.index = Len(durable) /\ StartInv(durable)'
                  /\ \A h \in start' .. Len(durable) : staging.blocks[h] = Prefix(durable, h)
<1>1. Written /\ staging.index \in {0, Len(durable)} /\ (staging.index > 0 => Top(staging) # NoBlock)
  BY Zenon DEF Inv, ProcessInv, BlocksInv, WrittenInv, FindStart
<1> SUFFICES ASSUME staging.index > 0
             PROVE  StartInv(durable)' /\ \A h \in start' .. Len(durable) : staging.blocks[h] = Prefix(durable, h)
  BY <1>1
<1> DEFINE n == staging.index
           First(h) == /\ \A i \in h .. staging.index : staging.blocks[i] # NoBlock
                       /\ h > 1 => staging.blocks[h - 1] = NoBlock
           Filled == {h \in 1 .. n : \A i \in h .. n : staging.blocks[i] # NoBlock}
<1>2. n = Len(durable) /\ n \in Nat /\ n >= 1 /\ staging.blocks[n] # NoBlock
  BY <1>1 DEF Top
<1>3. n \in Filled /\ Filled \in SUBSET Nat
  BY <1>2
<1>4. PICK m \in Filled : \A h \in Filled : m <= h
  <2> HIDE DEF Filled
  <2>1. QED
    BY Zenon, <1>3, LeastNatural
<1>5. First(m) /\ m \in 1 .. n
  <2>1. m \in 1 .. n /\ \A i \in m .. n : staging.blocks[i] # NoBlock
    BY Zenon, <1>4
  <2>2. ASSUME m > 1, staging.blocks[m - 1] # NoBlock PROVE FALSE
    <3>1. m - 1 \in 1 .. n /\ \A i \in (m - 1) .. n : staging.blocks[i] # NoBlock
      BY <1>2, <2>1, <2>2
    <3>2. m - 1 \in Filled
      BY <3>1
    <3> HIDE DEF Filled
    <3>3. m <= m - 1 /\ m \in Nat
      BY Zenon, <1>3, <1>4, <3>2
    <3>4. QED
      BY <3>3
  <2>3. QED
    BY Zenon, <2>1, <2>2
<1>6. start' \in 1 .. n /\ First(start')
  <2>1. start' = CHOOSE h \in 1 .. n : First(h)
    BY <1>1, <1>2 DEF FindStart
  <2> HIDE DEF First, n
  <2>2. QED
    BY <1>5, <2>1, Zenon
<1>7. start' \in 2 .. n /\ start' - 1 \in 1 .. n /\ staging.blocks[start' - 1] = NoBlock
  <2>1. staging.blocks[1] = NoBlock
    BY Zenon DEF Inv, BlocksInv, StagingInv
  <2>2. start' # 1
    BY <1>2, <1>6, <2>1
  <2>3. start' \in 2 .. n /\ start' - 1 \in 1 .. n /\ start' > 1
    <3>1. start' \in 1 .. n /\ n \in Nat
      BY <1>2, <1>6
    <3>2. \A k \in 1 .. n : k # 1 => k \in 2 .. n /\ k - 1 \in 1 .. n /\ k > 1
      BY <3>1
    <3>3. QED
      BY <2>2, <3>1, <3>2, Zenon
  <2>4. staging.blocks[start' - 1] = NoBlock
    BY Zenon, <1>6, <2>3
  <2>5. QED
    BY <2>3, <2>4, Zenon
<1>8. start' - 1 <= storage.index /\ storage.blocks[start' - 1] = Prefix(durable, start' - 1)
  <2> HIDE DEF n
  <2>1. QED
    BY Zenon, <1>1, <1>2, <1>7 DEF Inv, BlocksInv, WrittenInv
<1>9. \A h \in start' .. Len(durable) : staging.blocks[h] = Prefix(durable, h)
  <2>1. \A h \in start' .. Len(durable) : h \in 1 .. Len(durable) /\ staging.blocks[h] # NoBlock
    BY <1>2, <1>6
  <2>2. QED
    BY Zenon, <1>1, <2>1 DEF Inv, BlocksInv, WrittenInv, Staged
<1>10. storage' = storage /\ durable' = durable
  BY Zenon, <1>1 DEF FindStart
<1>11. QED
  BY Zenon, <1>2, <1>7, <1>8, <1>9, <1>10 DEF StartInv

\* FindStart.
LEMMA FindStartStep ==
    ASSUME Inv, FindStart
    PROVE  Inv'
<1>a. /\ UNCHANGED <<diskVars, host, exiting, historyVars>>
      /\ pc = "findStart" /\ IF staging.index = 0 THEN pc' = "reset" /\ start' = start ELSE pc' = "dropBlocks"
  BY FindStartFacts DEF FindStart
<1>b. Written
  BY Zenon, <1>a DEF Inv, ProcessInv
<1>1. Types'
  BY <1>a, <1>b DEF Inv, Types
<1>2. ProcessInv'
  BY <1>a DEF Inv, ProcessInv
<1>3. BlocksInv'
  <2>1. StorageInv' /\ CommitInv' /\ StagingInv' /\ (RecoverableChain = durable)'
    BY Zenon, <1>a, <1>b DEF Inv, BlocksInv, StorageInv, CommitInv, StagingInv, RecoverableChain
  <2>2. WrittenInv'
    BY <1>a, <1>b DEF Inv, BlocksInv, WrittenInv, Staged
  <2>3. MovingInv'
    <3>1. CASE staging.index = 0
      BY Zenon, <1>a, <3>1 DEF MovingInv
    <3>2. CASE staging.index # 0
      <4>1. staging.index > 0
        BY <3>2, StoredFacts
      <4>2. /\ staging.index = Len(durable) /\ StartInv(durable)'
            /\ \A h \in start' .. Len(durable) : staging.blocks[h] = Prefix(durable, h)
        BY Zenon, <4>1, FindStartFacts
      <4>3. QED
        BY Zenon, <1>a, <3>2, <4>2 DEF MovingInv
    <3>3. QED
      BY <3>1, <3>2
  <2>4. QED
    BY Zenon, <2>1, <2>2, <2>3 DEF BlocksInv
<1>4. QED
  BY Zenon, <1>1, <1>2, <1>3 DEF Inv

\* A storage that is partly purged.
LEMMA PartlyPurgedFacts ==
    ASSUME NEW s \in BlockFiles, NEW t \in PartlyPurged(s)
    PROVE  /\ t \in BlockFiles /\ t.index \in {0, s.index}
           /\ \A h \in 1 .. MaxHeight : t.blocks[h] \in {NoBlock, s.blocks[h]}
<1>1. CASE t = [s EXCEPT !.index = 0]
  BY <1>1 DEF BlockFiles
<1>2. CASE t = [s EXCEPT !.blocks = EmptyStorage.blocks]
  BY <1>2 DEF BlockFiles, EmptyStorage
<1>3. QED
  BY Zenon, <1>1, <1>2 DEF PartlyPurged

\* RepairSpooling purges block_sync, in whatever order.
LEMMA PurgeSyncStep ==
    ASSUME Inv, PurgeSync
    PROVE  Inv'
<1>1. /\ UNCHANGED <<storage, commitStep, serverLock, host, exiting, durable>>
      /\ \/ pc = "purgeSync" /\ pc' = "purgeSyncRest" /\ staging' \in PartlyPurged(staging)
         \/ pc = "purgeSyncRest" /\ pc' = "reindex" /\ staging' = EmptyStorage
  BY Zenon DEF PurgeSync
<1>2. ProcessInv' /\ ~Written /\ ~Written'
  BY Zenon, <1>1 DEF Inv, ProcessInv
<1>3. /\ staging' \in BlockFiles
      /\ staging'.index \in {0, staging.index}
      /\ pc' = "reindex" => staging'.index = 0
      /\ \A h \in 1 .. MaxHeight : staging'.blocks[h] \in {NoBlock, staging.blocks[h]}
  BY Zenon, <1>1, StoredFacts, EmptyStorageFacts, PartlyPurgedFacts
<1>4. StorageInv' /\ CommitInv' /\ WrittenInv' /\ MovingInv' /\ (RecoverableChain = durable)'
  BY Zenon, <1>1, <1>2, StoredFacts DEF Inv, BlocksInv, StorageInv, CommitInv, WrittenInv, MovingInv, RecoverableChain
<1>5. staging'.blocks[1] = NoBlock
  BY <1>3, StoredFacts DEF Inv, BlocksInv, StagingInv
<1>6. StagingInv'
  <2>1. CASE pc = "purgeSync"
    <3> SUFFICES ASSUME ~serverLock PROVE staging'.index = 0 /\ Staged(durable)'
      BY Zenon, <1>1, <1>2, <1>5, <2>1 DEF StagingInv
    <3>1. staging.index = 0 /\ Staged(durable)
      BY Zenon, <1>2, <2>1, NothingStaged
    <3>2. QED
      BY <1>1, <1>3, <3>1, StoredFacts DEF Staged
  <2>2. CASE pc = "purgeSyncRest"
    <3>1. staging'.index = 0 /\ Staged(durable)'
      BY <1>1, <2>2, EmptyStorageFacts, StoredFacts DEF Staged
    <3>2. QED
      BY Zenon, <1>5, <3>1 DEF StagingInv
  <2>3. QED
    BY Zenon, <1>1, <2>1, <2>2
<1>7. QED
  BY Zenon, <1>1, <1>2, <1>3, <1>4, <1>6 DEF Inv, Types, BlocksInv

-----------------------------------------------------------------------------
(* The invariant holds in every reachable state.                           *)

\* A node that was never booted.
LEMMA InitInv ==
    ASSUME Init
    PROVE  Inv
<1>1. storage \in BlockFiles /\ storage.index = 1 /\ storage.blocks[1] = Nemesis
  <2>1. storage = saveBlock(EmptyStorage, Nemesis) /\ EmptyStorage \in BlockFiles /\ Nemesis \in Chains /\ Len(Nemesis) = 1
    BY Zenon, EmptyStorageFacts, NemesisFacts DEF Init
  <2>2. storage \in BlockFiles /\ storage.index = Len(Nemesis) /\ storage.blocks[Len(Nemesis)] = Nemesis
    BY Zenon, <2>1, SaveBlockFacts
  <2>3. QED
    BY Zenon, <2>1, <2>2
<1>2. staging \in BlockFiles /\ staging.index = 0 /\ \A h \in 1 .. MaxHeight : staging.blocks[h] = NoBlock
  BY Zenon, EmptyStorageFacts DEF Init
<1>3. /\ Nemesis \in Chains /\ Len(Nemesis) = 1 /\ Prefix(Nemesis, 1) = Nemesis /\ 1 \in 1 .. MaxHeight
      /\ durable = Nemesis /\ pc = "down" /\ host = "none" /\ ~Written
  BY NemesisFacts, WholePrefix DEF Init
<1>4. Types /\ ProcessInv
  BY Zenon, <1>1, <1>2, <1>3 DEF Types, ProcessInv
<1>5. StorageInv /\ RecoverableChain = durable
  BY <1>1, <1>3 DEF StorageInv, Top, RecoverableChain
<1>6. CommitInv /\ WrittenInv /\ MovingInv
  BY Zenon, <1>3 DEF CommitInv, WrittenInv, MovingInv
<1>7. StagingInv
  <2>1. staging.blocks[1] = NoBlock /\ \A h \in 1 .. 1 : staging.blocks[h] = NoBlock
    BY <1>2, <1>3
  <2>2. Staged(durable)
    BY Zenon, <1>3, <2>1 DEF Staged
  <2>3. QED
    BY Zenon, <1>2, <2>1, <2>2 DEF StagingInv
<1>8. QED
  BY <1>4, <1>5, <1>6, <1>7 DEF Inv, BlocksInv

\* Every action keeps the invariant, a crash only where it opens no window.
LEMMA NextInv ==
    ASSUME Inv, Next, Crash => CrashWindows = {}
    PROVE  Inv'
<1>1. CASE ServerStep
  BY <1>1, Zenon, BootServerStep, ServerQuietStep, ReaderStep, SaveBlocksStep, BlocksWrittenStep, CommitStateWrittenStep,
       AllUpdatedStep DEF ServerStep
<1>2. CASE RecoveryStep
  BY <1>2, Zenon, RepairStep, ThrowingStep, PurgeSyncStep, FindStartStep, ResetStep DEF RecoveryStep
<1>3. CASE MoveBlockFiles
  <2>1. pc \in Moving
    BY Zenon, <1>3 DEF MoveBlockFiles
  <2>2. QED
    BY <1>3, <2>1, Zenon, DropBlocksStep, MoveBlocksStep, PurgeStagingStep, PurgeRestStep
<1>4. CASE SaveState \/ MoveSupplementalDataFiles \/ Exit
  BY <1>4, Zenon, SaveStateStep, RepairStep, ExitStep
<1>5. CASE BrokerRead \/ ShutdownServer
  BY <1>5, Zenon, ReaderStep, ServerQuietStep
<1>6. ASSUME NEW chain \in Chains, StartCommit(chain) PROVE Inv'
  BY <1>6, StartCommitStep
<1>7. CASE Crash
  BY <1>7, CrashStep
<1>8. QED
  BY <1>1, <1>2, <1>3, <1>4, <1>5, <1>6, <1>7 DEF Next, SharedStep

LEMMA StutterInv ==
    ASSUME Inv, UNCHANGED vars
    PROVE  Inv'
<1>1. UNCHANGED <<storage, staging, commitStep, serverLock, host, pc, exiting, target, start, height, durable>>
  BY Zenon DEF vars
<1>2. ProcessInv'
  BY Zenon, <1>1 DEF Inv, ProcessInv
<1>3. QuietLabels
  BY Zenon, <1>1 DEF QuietLabels
<1>4. QED
  BY Zenon, <1>1, <1>2, <1>3, QuietStep

\* Only a crash opens windows, and only the State_Written checkpoint makes a
\* chain durable.
LEMMA HistoryFacts ==
    ASSUME Next
    PROVE  /\ windows' = windows \/ (Crash /\ windows' = windows \cup CrashWindows)
           /\ durable' = durable \/ (CommitStateWritten /\ windows' = windows)
<1>1. CASE ServerStep
  BY Zenon, <1>1 DEF ServerStep, BootServer, NotifyNemesis, SkipNemesis, LoadNemesis, Cleanup, SaveBlocks,
       CommitBlocksWritten, NotifyScoreChange, NotifyStateChange, PreStateWritten, CommitStateWritten,
       CommitCache, CommitAllUpdated, Publish
<1>2. CASE RecoveryStep
  BY Zenon, <1>2 DEF RecoveryStep, StartRecovery, PurgeSync, Reindex, RecoveryLoadState, RepairCatchUp, RepairReplay,
       RepairAdvance, RepairReindex, PurgeStateTmp, FindStart, ResetSystemState, RecoveryThrows
<1>3. CASE SharedStep
  BY Zenon, <1>3 DEF SharedStep, SaveState, MoveBlockFiles, MoveSupplementalDataFiles, Exit
<1>4. CASE BrokerRead \/ ShutdownServer
  BY Zenon, <1>4 DEF BrokerRead, ShutdownServer
<1>5. ASSUME NEW chain \in Chains, StartCommit(chain) PROVE windows' = windows /\ durable' = durable
  BY Zenon, <1>5 DEF StartCommit
<1>6. CASE Crash
  BY Zenon, <1>6 DEF Crash
<1>7. QED
  BY <1>1, <1>2, <1>3, <1>4, <1>5, <1>6 DEF Next

LEMMA IndInvStep ==
    ASSUME IndInv, [Next]_vars
    PROVE  IndInv'
<1> SUFFICES ASSUME windows' = {} PROVE Inv'
  BY Zenon DEF IndInv
<1>1. CASE Next
  <2>1. windows = {} /\ (windows' = windows \cup CrashWindows => CrashWindows = {})
    BY <1>1, HistoryFacts
  <2>2. Crash => CrashWindows = {}
    BY Zenon, <2>1 DEF Crash
  <2>3. QED
    BY <1>1, <2>1, <2>2, NextInv DEF IndInv
<1>2. CASE UNCHANGED vars
  <2>1. windows' = windows
    BY Zenon, <1>2 DEF vars
  <2>2. QED
    BY <1>2, <2>1, StutterInv DEF IndInv
<1>3. QED
  BY <1>1, <1>2

\* The blocks on disk and commit_step.dat satisfy the invariant in every
\* reachable state, while no crash has hit a window that recovery can not repair
\* (commitAll, MoveBlockFiles, RecoveryOrchestrator).
THEOREM Invariance == Spec => []IndInv
<1>1. Init => IndInv
  BY Zenon, InitInv DEF IndInv
<1>2. IndInv /\ [Next]_vars => IndInv'
  BY Zenon, IndInvStep
<1>3. QED
  BY <1>1, <1>2, PTL DEF Spec

-----------------------------------------------------------------------------
(* What follows from it.                                                   *)

\* A node that runs between two commits stores the blocks of the last commit
\* that passed the State_Written checkpoint: a commit that did not get there
\* leaves no block behind, one that did has all of its blocks moved (commitAll,
\* MoveBlockFiles, RecoveryOrchestrator::recover).
THEOREM BlocksAreDurable == Spec => [](windows = {} /\ pc = "idle" => Top(storage) = durable /\ staging.index = 0)
<1>1. IndInv => (windows = {} /\ pc = "idle" => Top(storage) = durable /\ staging.index = 0)
  <2> SUFFICES ASSUME Inv, pc = "idle" PROVE Top(storage) = durable /\ staging.index = 0
    BY Zenon DEF IndInv
  <2>1. ~Written
    BY Zenon DEF Inv, ProcessInv
  <2>2. QED
    BY Zenon, <2>1, StoredFacts, NothingStaged
<1>2. QED
  BY <1>1, Invariance, PTL

\* The chain the data directory stands for changes at one file operation, the
\* one that records State_Written, and only to a better chain (commitAll,
\* MoveBlockFiles, RecoveryOrchestrator).
THEOREM CommitAtomic == Spec => CommitIsAtomic
<1> DEFINE Atomic == windows = {} /\ RecoverableChain' # RecoverableChain =>
                         pc = "stateWritten" /\ Score(RecoverableChain') > Score(RecoverableChain)
<1>1. ASSUME IndInv, IndInv', [Next]_vars PROVE [Atomic]_vars
  <2> SUFFICES ASSUME Next, windows = {}, RecoverableChain' # RecoverableChain
               PROVE  pc = "stateWritten" /\ Score(RecoverableChain') > Score(RecoverableChain)
    BY <1>1
  <2>1. Inv /\ RecoverableChain = durable
    BY Zenon, <1>1 DEF IndInv, Inv, BlocksInv
  <2>2. CASE Crash
    BY Zenon, <2>2 DEF Crash, RecoverableChain
  <2>3. CASE ~Crash
    <3>1. windows' = {}
      BY <2>3, HistoryFacts
    <3>2. RecoverableChain' = durable'
      BY Zenon, <1>1, <3>1 DEF IndInv, Inv, BlocksInv
    <3>3. CommitStateWritten
      BY <2>1, <3>2, HistoryFacts
    <3>4. pc = "stateWritten" /\ durable' = target
      BY Zenon, <3>3 DEF CommitStateWritten
    <3>5. Score(target) > Score(durable)
      BY Zenon, <2>1, <3>4 DEF Inv, BlocksInv, CommitInv
    <3>6. QED
      BY <2>1, <3>2, <3>4, <3>5
  <2>4. QED
    BY <2>2, <2>3
<1>2. QED
  BY <1>1, Invariance, PTL DEF Spec, CommitIsAtomic, Atomic
=============================================================================

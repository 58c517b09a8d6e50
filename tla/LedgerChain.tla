----------------------------- MODULE LedgerChain -----------------------------
(***************************************************************************)
(* The chain of a node with every plugin: blocks are executed on and       *)
(* rolled back from the catapult cache, and a harvester builds the next    *)
(* block from unconfirmed transactions on a detached delta of it.          *)
(*                                                                         *)
(* Blocks are undone and executed on a delta that is committed only if     *)
(* every entity of the new blocks is valid, so execution and rollback of a *)
(* block are single steps; so is harvesting, whose delta nobody else sees. *)
(* An exception that escapes drops the delta and ends the behaviour.       *)
(***************************************************************************)
EXTENDS Ledger

CONSTANTS
    Networks,                           \* names of the alternative networks
    TransactionsOf(_),                  \* network -> transactions that may be confirmed
    HeadersOf(_),                       \* network -> [Signer, Beneficiary, FeeMultiplier] of the blocks
    NemesisOf(_),                       \* network -> transactions of the nemesis block
    BlockSizesOf(_),                    \* network -> numbers of transactions a block may have
    MaxHeightOf(_),                     \* network -> bound on the height of the chain
    UnconfirmedOf(_),                   \* network -> contents the unconfirmed transactions cache may have
    StrategiesOf(_)                     \* network -> transaction selection strategies of the harvester

VARIABLES
    network,                            \* the network of this behaviour
    cache,                              \* the catapult cache
    chain,                              \* the blocks after the nemesis block: [Header, Transactions, Before]
    peak,                               \* the height of the chain the node has or is about to replace
    unwinding,                          \* blocks are being undone to make room for another chain
    harvested,                          \* the block the harvester has just built, or NoBlock
    skewed                              \* history: signers of undone modifications that only lower thresholds

vars == <<network, cache, chain, peak, unwinding, harvested, skewed>>

NoBlock == [Built |-> FALSE]
Height == Len(chain) + 1

-----------------------------------------------------------------------------

NemesisHeader == [Signer |-> NemesisAccount, Beneficiary |-> NemesisAccount, FeeMultiplier |-> 0]

Init ==
    /\ network \in Networks
    /\ cache = NemesisCache(NemesisHeader, NemesisOf(network))
    /\ chain = <<>>
    /\ peak = 1
    /\ unwinding = FALSE
    /\ harvested = NoBlock
    /\ skewed = {}

(* Transactions and those embedded in them *)
WithEmbedded(txs) ==
    txs \cup UNION {ToSet(tx.Transactions) : tx \in {t \in txs : "Transactions" \in DOMAIN t}}

TransactionsIn(block) == WithEmbedded(ToSet(block.Transactions))

ModificationsIn(txs) == {tx \in txs : tx.Type = "MultisigAccountModification"}

(* A block whose entities are all valid is appended. *)
ExecuteBlock(header, txs) ==
    /\ Height < MaxHeightOf(network)
    /\ ~cache.thrown
    /\ \E r \in {ProcessBlock(header, Height + 1, txs, cache)} :
           /\ r.Valid
           /\ \/ /\ ~r.Cache.thrown
                 /\ cache' = r.Cache
                 /\ chain' = Append(chain, [Header |-> header, Transactions |-> txs, Before |-> cache])
                 /\ peak' = Max({peak, Height + 1})
              \/ /\ r.Cache.thrown
                 /\ cache' = Throw(cache)
                 /\ UNCHANGED <<chain, peak>>
    /\ unwinding' = FALSE
    /\ harvested' = NoBlock
    /\ UNCHANGED <<network, skewed>>

(* The last block is undone to make room for another chain, which ends no lower than this one.  The    *)
(* chain of a peer is refused when its first block is more than MaxRollbackBlocks below the local       *)
(* height, so MaxRollbackBlocks + 1 blocks can be undone, and all of them before any is executed.       *)
RollbackBlock ==
    LET block == Last(chain)
    IN  /\ Height > 1
        /\ unwinding \/ Height = peak
        /\ peak - Height <= MaxRollbackBlocks
        /\ ~cache.thrown
        /\ \E c \in {RollbackEntities(block.Header, Height, block.Transactions, cache)} :
              \/ /\ ~c.thrown
                 /\ cache' = c
                 /\ chain' = Front(chain)
              \/ /\ c.thrown
                 /\ cache' = Throw(cache)
                 /\ UNCHANGED chain
        /\ unwinding' = TRUE
        /\ harvested' = NoBlock
        /\ skewed' = skewed \cup {tx.Signer : tx \in {m \in ModificationsIn(TransactionsIn(block)) :
                                   m.Modifications = <<>> /\ m.MinRemovalDelta = -1 /\ m.MinApprovalDelta = -1}}
        /\ UNCHANGED <<network, peak>>

(* The block generator, on the chain the node has: a block that commit rejects is not built. *)
Harvest(strategy, unconfirmed, signer) ==
    /\ harvested = NoBlock
    /\ Height = peak
    /\ Height < MaxHeightOf(network)
    /\ ~cache.thrown
    /\ \E candidates \in Candidates(strategy, unconfirmed) :
       \E selected \in {SupplyTransactions(strategy, cache, Height + 1, candidates, MaxTransactionsPerBlock)} :
       \E header \in {[Signer |-> signer, Beneficiary |-> signer, FeeMultiplier |-> selected.FeeMultiplier]} :
       \E r \in {FacadeCommit(selected.Facade, header, Height + 1)} :
           /\ r.Valid
           /\ harvested' = [Built |-> TRUE, Header |-> header, State |-> r.Cache,
                            Transactions |-> selected.Facade.Transactions, Candidates |-> ToSet(candidates)]
    /\ UNCHANGED <<network, cache, chain, peak, unwinding, skewed>>

TransactionLists ==
    UNION {[1..n -> TransactionsOf(network)] : n \in BlockSizesOf(network)}

Next ==
    \/ \E header \in HeadersOf(network), txs \in TransactionLists : ExecuteBlock(header, txs)
    \/ RollbackBlock
    \/ \E strategy \in StrategiesOf(network), unconfirmed \in UnconfirmedOf(network),
          header \in HeadersOf(network) : Harvest(strategy, unconfirmed, header.Signer)

Spec == Init /\ [][Next]_vars
-----------------------------------------------------------------------------
(* Properties *)

(* The height up to which the blocks of the chain have pruned *)
PruneHeight == peak - MaxRollbackBlocks

LinkedRemotes(txs) ==
    {tx.RemotePublicKey : tx \in {t \in txs : t.Type = "AccountLink" /\ t.LinkAction = "Link"}}

(* The multisig cache up to what MultisigSettingsObserver.cpp:40 leaves when it undoes a modification of *)
(* -1 and -1 that found no entry: it inserts one, with thresholds of 1.  Entries without cosignatories    *)
(* count for the accounts they cosign for only, and the thresholds of skewed accounts do not count.       *)
MultisigGraph(multisigs) ==
    LET related == {k \in DOMAIN multisigs : multisigs[k].Cosignatories \cup multisigs[k].Multisigs # {}}
    IN  [k \in related |->
            IF multisigs[k].Cosignatories # {} /\ k \notin skewed THEN multisigs[k]
            ELSE [multisigs[k] EXCEPT !.MinApproval = 0, !.MinRemoval = 0]]

(* No observer of a plugin lets an exception escape when a valid block is executed, and none when a   *)
(* confirmed one is rolled back, but for a block that relied on a namespace that had expired and has    *)
(* been pruned since: one in which the owner registered the root again, while it still had children     *)
(* (NamespaceCacheDelta.cpp:135 does not remove the last root with children), or one with a transfer    *)
(* to an alias in it (an expired alias resolves until it is pruned, and then to no account).             *)
OnlyPrunedNamespacesThrow ==
    cache.thrown =>
        LET before == Last(chain).Before
            Pruned(id) == FindNamespace(before, id) /\ RootOf(before, id).Lifetime.End <= PruneHeight
            RegistersAgain(tx) == /\ tx.Type = "NamespaceRegistration"
                                  /\ Pruned(tx.Id)
                                  /\ RootOf(before, tx.Id).Owner = tx.Signer
                                  /\ NumChildren(RootOf(before, tx.Id)) > 0
            SendsToAlias(tx) == tx.Type = "Transfer" /\ Pruned(tx.RecipientAddress)
        IN  unwinding /\ \E tx \in TransactionsIn(Last(chain)) : RegistersAgain(tx) \/ SendsToAlias(tx)

(* What of a cache a rollback has to restore.  Entries that ended at PruneHeight or before may be gone, *)
(* and histories of bounded size keep a buffer for rollback.                                             *)
Retained(c) ==
    LET Unexpired(locks) == Restrict(locks, {k \in DOMAIN locks : locks[k].EndHeight > PruneHeight})
        Upcoming(groups) == Restrict(groups, {h \in DOMAIN groups : h > PruneHeight})
        roots == {id \in DOMAIN c.namespaces : PruneHistory(c.namespaces[id], PruneHeight) # <<>>}
        Newest(stack, size) == SubSeq(stack, 1, Min({Len(stack), size - Rollback_Buffer_Size}))
        voting == {h \in DOMAIN c.statistics : h > Max(DOMAIN c.statistics) - MaxDifficultyBlocks}
    IN  [c EXCEPT
            !.accounts = [a \in DOMAIN @ |->
                [@[a] EXCEPT !.ImportanceSnapshots = Newest(@, Importance_History_Size),
                             !.ActivityBuckets = Newest(@, Activity_Bucket_History_Size)]],
            !.hashes = {h \in @ : h[1] >= TimeOf(peak) - HashRetentionTime},
            !.statistics = Restrict(@, voting),
            !.hashLocks = Unexpired(@), !.hashLockGroups = Upcoming(@),
            !.secretLocks = Unexpired(@), !.secretLockGroups = Upcoming(@),
            !.namespaces = [id \in roots |-> PruneHistory(@[id], PruneHeight)],
            !.namespaceById = Restrict(@, {id \in DOMAIN @ : Head(@[id]) \in roots}),
            !.namespaceGroups = Upcoming(@),
            !.namespaceSizes = [Active |-> 0, Deep |-> 0],
            !.multisigs = MultisigGraph(@)]

(* A cache in which the locks that expire at the current height have been paid out: those of the lowest *)
(* block that can be undone are already pruned, and their refunds stay.                                  *)
Refunded(c, harvester) ==
    LET Pay(d, sub, groups, Owner(_)) ==
            FoldSet(LAMBDA k, e : Credit(e, Owner(c[sub][k]), c[sub][k].MosaicId, c[sub][k].Amount),
                    d, UnusedExpiredLocks(c, sub, groups, Height))
    IN  Pay(Pay(c, "hashLocks", "hashLockGroups", LAMBDA lock : harvester),
            "secretLocks", "secretLockGroups", LAMBDA lock : lock.SenderPublicKey)

(* What undoing the last block leaves: the cache before the block, with two differences.  The refunds  *)
(* of pruned locks stay, and an account that was linked without having been a remote account before     *)
(* looks like a former one from then on (AccountLinkObserver.cpp:50).                                    *)
LeftByRollback ==
    LET block == Last(chain)
        formerRemotes == {a \in DOMAIN cache.accounts : cache.accounts[a].AccountType = "Remote_Unlinked"}
                             \cup LinkedRemotes(TransactionsIn(block))
        FormerRemote(a, s) == IF a \in formerRemotes /\ s.AccountType = "Unlinked"
                              THEN [s EXCEPT !.AccountType = "Remote_Unlinked"]
                              ELSE s
    IN  [IF Height > PruneHeight THEN block.Before ELSE Refunded(block.Before, block.Header.Signer)
            EXCEPT !.accounts = [a \in DOMAIN @ |-> FormerRemote(a, @[a])]]

(* Rolling a block back leaves the cache as it was before the block was executed, in every sub cache *)
(* and for every kind of transaction, up to what Retained and LeftByRollback say: what pruning has      *)
(* dropped for good, empty multisig entries and skewed thresholds, former remote accounts, and the       *)
(* refunds of locks that expired in the lowest of MaxRollbackBlocks + 1 undone blocks.                   *)
RollbackRestores ==
    [][Len(chain') < Len(chain) => Retained(cache') = Retained(LeftByRollback)]_vars

SumOf(S, Value(_)) == MapThenSumSet(Value, S)

(* Locked funds that still have to be paid to somebody *)
LockedIn(sub, mosaicId) ==
    SumOf({k \in DOMAIN cache[sub] : /\ cache[sub][k].Status = "Unused"
                                     /\ cache[sub][k].EndHeight > Height
                                     /\ cache[sub][k].MosaicId = mosaicId},
          LAMBDA k : cache[sub][k].Amount)

(* Transfers, fees, locks, proofs, expiries and supply changes neither create nor destroy units: the    *)
(* balances and the funds in unsettled locks add up to the supply, and the currency to that and the     *)
(* inflation of every block.                                                                             *)
SupplyConserved ==
    \A m \in DOMAIN cache.mosaics :
        SumOf(DOMAIN cache.accounts, LAMBDA a : BalanceOf(cache.accounts[a], m))
            + LockedIn("hashLocks", m) + LockedIn("secretLocks", m)
        = cache.mosaics[m].supply + (IF m = Currency THEN Inflation * Height ELSE 0)

(* The secondary maps of the caches agree with the primary ones through additions, renewals, changes of *)
(* owner, pruning, and the queued removals of rollbacks: the key lookup map has exactly the accounts     *)
(* whose public key is known, the flat namespace map exactly the newest roots and their children, and    *)
(* the two size counters count what is there.                                                            *)
LookupsAgree ==
    LET Newest(id) == Last(cache.namespaces[id])
        roots == DOMAIN cache.namespaces
    IN  /\ cache.keys = {a \in DOMAIN cache.accounts : cache.accounts[a].PublicKeyHeight # 0}
        /\ cache.namespaceById =
               FoldSet(LAMBDA id, f : f @@ (id :> <<id>>) @@ PathsOf(Newest(id).Children), << >>, roots)
        /\ cache.namespaceSizes.Active = Cardinality(DOMAIN cache.namespaceById)
        /\ cache.namespaceSizes.Deep =
               SumOf(roots, LAMBDA id :
                   FoldFunction(LAMBDA r, n : 1 + NumChildren(r) + n, 0, cache.namespaces[id]))

(* The multisig graph is the same seen from both ends, has no account above itself and no path longer *)
(* than allowed, and a multisig account can always be signed for: its thresholds are met by its        *)
(* cosignatories, and zero where there are none, unless they are skewed by the rollback of a             *)
(* modification (MultisigInvalidSettingsValidator.cpp:41 accepts -1 and -1 from an account without an    *)
(* entry).                                                                                               *)
MultisigGraphValid ==
    /\ \A k \in DOMAIN cache.multisigs :
           /\ \A o \in cache.multisigs[k].Cosignatories : k \in MultisigsOf(cache, o)
           /\ \A o \in cache.multisigs[k].Multisigs : k \in CosignatoriesOf(cache, o)
    /\ \A k \in DOMAIN cache.multisigs :
           LET entry == cache.multisigs[k]
           IN  /\ NumLevels(cache, k, "Ancestors") <= MaxMultisigDepth
               /\ k \notin FindAll(cache, k, "Ancestors")
               /\ k \notin skewed =>
                      {entry.MinApproval, entry.MinRemoval} \subseteq
                          IF entry.Cosignatories = {} THEN {0} ELSE 1..Cardinality(entry.Cosignatories)

(* A main account and its remote account name each other; nobody else is linked, so that an importance *)
(* is never delegated twice.                                                                            *)
LinksSymmetric ==
    \A a \in DOMAIN cache.accounts :
        LET s == cache.accounts[a]
        IN  IF s.AccountType \in {"Main", "Remote"}
            THEN /\ s.LinkedAccountKey \in DOMAIN cache.accounts
                 /\ cache.accounts[s.LinkedAccountKey].LinkedAccountKey = a
                 /\ {s.AccountType, cache.accounts[s.LinkedAccountKey].AccountType} = {"Main", "Remote"}
            ELSE s.LinkedAccountKey = NoKey

(* An account can always change its operation restriction: the restriction never forbids the operation *)
(* restriction transaction itself.  An entry without restrictions is not kept.                          *)
RestrictionsEscapable ==
    \A a \in DOMAIN cache.accountRestrictions :
        /\ IsAllowed(cache, a, "TransactionTypeOutgoing", RelevantEntityType)
        /\ ~IsEmptyRestrictions(cache.accountRestrictions[a])

(* No transaction is confirmed twice on one chain, although its hash is forgotten after the retention *)
(* time and hashes are removed again by rollbacks.                                                      *)
ConfirmedOnce ==
    LET hashes == FlattenSeq([h \in DOMAIN chain |->
                      [i \in DOMAIN chain[h].Transactions |-> chain[h].Transactions[i].EntityHash]])
    IN  Cardinality(ToSet(hashes)) = Len(hashes)

(* The part of a cache that is hashed into a block *)
HashedState(c) == [c EXCEPT !.queued = {}, !.hashes = {}, !.statistics = << >>]

(* A block the harvester has built is one its own node accepts, and executing it leads to the state the *)
(* harvester has hashed into it: undoing the transactions that failed or were dropped, charging maximum *)
(* fees and refunding the surplus in the facade adds up to the plain execution of the block.  An undone  *)
(* transaction leaves three things in the facade, and the agreement is up to these: the accounts and     *)
(* keys it introduced (their removal is only queued, and the facade never commits removals), the linked  *)
(* account as a former remote one, and an entry for the signer of a multisig modification.  Nothing is   *)
(* said of a block that rests on them: one with an alias to such an account or with a modification by    *)
(* such a signer.                                                                                         *)
HarvestedBlockExecutes ==
    harvested.Built =>
        LET kept == WithEmbedded(ToSet(harvested.Transactions))
            undone == WithEmbedded(harvested.Candidates \ ToSet(harvested.Transactions))
            introduced == {q[2] : q \in harvested.State.queued}
            Modifiers(txs) == {tx.Signer : tx \in ModificationsIn(txs)}
            restsOnLeftovers ==
                \/ \E tx \in kept : tx.Type = "AddressAlias" /\ tx.AliasedData \in introduced
                \/ Modifiers(kept) \intersect Modifiers(undone) # {}
            (* The account s of the facade as it is in the executed cache c, where only leftovers differ *)
            Executed(a, s, c) ==
                [s EXCEPT !.PublicKeyHeight = IF a \in introduced \ c.keys THEN 0 ELSE @,
                          !.AccountType = IF a \in LinkedRemotes(undone) /\ @ = "Remote_Unlinked"
                                          THEN c.accounts[a].AccountType ELSE @]
            WithoutLeftovers(c) ==
                [harvested.State EXCEPT
                    !.accounts = [a \in DOMAIN @ \ (introduced \ DOMAIN c.accounts) |-> Executed(a, @[a], c)],
                    !.keys = @ \ (introduced \ c.keys)]
            Compared(c) == [HashedState(c) EXCEPT !.multisigs = MultisigGraph(@)]
            Agrees(r) == r.Valid /\ Compared(r.Cache) = Compared(WithoutLeftovers(r.Cache))
        IN  restsOnLeftovers \/ Agrees(ProcessBlock(harvested.Header, Height + 1, harvested.Transactions, cache))

(* The importances the harvesters are chosen by never add up to more than the importance of the chain. *)
ImportanceBounded ==
    SumOf({a \in DOMAIN cache.accounts :
               SnapshotHeight(cache.accounts[a]) = ConvertToImportanceHeight(Height + 1)},
          LAMBDA a : CurrentImportance(cache.accounts[a])) <= TotalChainImportance
=============================================================================

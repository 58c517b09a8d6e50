-------------------------------- MODULE Ledger --------------------------------
(***************************************************************************)
(* What happens to an entity: how a transaction and a block are published, *)
(* validated and observed, and how entities and blocks are executed,       *)
(* undone and rolled back; and how a harvester selects transactions.       *)
(*                                                                         *)
(* An entity is published as a sequence of notifications.  Executing it    *)
(* validates and then observes one notification after the other; rolling   *)
(* it back observes them in the opposite order, and for each notification  *)
(* the observers in the opposite order, with the mode Rollback.            *)
(***************************************************************************)
EXTENDS Plugins

(* Blocks are one unit of time apart. *)
TimeOf(height) == height

-----------------------------------------------------------------------------
(* Transactions and their publication *)

(* The fields only a top level transaction has *)
TopLevel(tx, hash, deadline, maxFee) ==
    tx @@ [EntityHash |-> hash, Deadline |-> deadline, MaxFee |-> maxFee, Size |-> 1]

CalculateTransactionFee(feeMultiplier, tx) == feeMultiplier * tx.Size

(* BasicNotificationPublisher, then the plugin; the fee is the maximum fee outside of a block. *)
PublishTransaction(tx, fee) ==
    <<AccountPublicKeyNotification(tx.Signer),
      TransactionNotification(tx.Signer, tx.EntityHash, tx.Type, tx.Deadline),
      TransactionDeadlineNotification(tx.Deadline, MaxLifetimeOf(tx)),
      TransactionFeeNotification(tx.Signer, tx.Size, fee, tx.MaxFee),
      BalanceDebitNotification(tx.Signer, Currency, fee),
      SignatureNotification(tx.Signer)>>
    \o PublishCustom(tx)

TotalFee(header, txs) ==
    FoldFunction(LAMBDA tx, total : CalculateTransactionFee(header.FeeMultiplier, tx) + total, 0, txs)

PublishBlock(header, height, txs) ==
    <<AccountPublicKeyNotification(header.Signer)>>
    \o (IF header.Signer = header.Beneficiary THEN << >>
        ELSE <<AccountPublicKeyNotification(header.Beneficiary)>>)
    \o <<BlockNotification(header @@ [Timestamp |-> TimeOf(height)], TotalFee(header, txs), Len(txs)),
         SignatureNotification(header.Signer)>>

-----------------------------------------------------------------------------
(* Validation and observation of a notification *)

(* AggregateStatefulValidatorBuilder: every validator registered for the notification *)
Validate(n, x, c) ==
    /\ CoreValidators(n, x, c)
    /\ HashCacheValidators(n, c)
    /\ AggregateValidators(n)
    /\ MultisigValidators(n, c)
    /\ AccountLinkValidators(n, c)
    /\ TransferValidators(n)
    /\ NamespaceValidators(n, x, c)
    /\ AliasValidators(n, c)
    /\ MosaicValidators(n, x, c)
    /\ HashLockValidators(n, x, c)
    /\ SecretLockValidators(n, x, c)
    /\ MetadataValidators(n, c)
    /\ AccountRestrictionValidators(n, c)
    /\ MosaicRestrictionValidators(n, c)

(* The plugins in the order in which they are loaded, then the transient observers *)
ObserversOf(type) ==
    CoreObservers(type) \o HashLockObservers(type) \o SecretLockObservers(type)
    \o NamespaceObservers(type) \o AliasObservers(type) \o MosaicObservers(type)
    \o MultisigObservers(type) \o AccountLinkObservers(type) \o MetadataObservers(type)
    \o AccountRestrictionObservers(type) \o MosaicRestrictionObservers(type)
    \o CoreTransientObservers(type) \o HashCacheTransientObservers(type)

(* AggregateNotificationObserver::notifyAll: an exception stops everything. *)
RECURSIVE NotifyAll(_, _, _, _)
NotifyAll(names, n, x, c) ==
    IF c.thrown \/ names = <<>> THEN c
    ELSE NotifyAll(Tail(names), n, x, RunObserver(Head(names), n, x, c))

(* The observers of a notification run backwards on rollback. *)
Observe(n, x, c) ==
    NotifyAll(IF IsCommit(x) THEN ObserversOf(n.Type) ELSE Reverse(ObserversOf(n.Type)), n, x, c)

-----------------------------------------------------------------------------
(* Execution of entities *)

(* ProcessingNotificationSubscriber: validate and observe until the first failure *)
RECURSIVE ProcessFrom(_, _, _)
ProcessFrom(notifications, x, r) ==
    IF ~r.Valid \/ r.Cache.thrown \/ notifications = <<>> THEN r
    ELSE ProcessFrom(Tail(notifications), x,
             IF Validate(Head(notifications), x, r.Cache)
             THEN [r EXCEPT !.Cache = Observe(Head(notifications), x, @), !.NumObserved = @ + 1]
             ELSE [r EXCEPT !.Valid = FALSE])

Process(notifications, x, c) ==
    ProcessFrom(notifications, x, [Valid |-> TRUE, Cache |-> c, NumObserved |-> 0])

(* NotificationObserverAdapter *)
RECURSIVE ObserveAll(_, _, _)
ObserveAll(notifications, x, c) ==
    IF c.thrown \/ notifications = <<>> THEN c
    ELSE ObserveAll(Tail(notifications), x, Observe(Head(notifications), x, c))

(* ReverseNotificationObserverAdapter and ProcessingUndoNotificationSubscriber::undo *)
ObserveReverse(notifications, x, c) ==
    ObserveAll(Reverse(notifications), [x EXCEPT !.Mode = "Rollback"], c)

BlockContext(height) == Context(height, "Commit", TimeOf(height))

(* ExtractEntityInfos: what the transactions of a block and then the block itself publish *)
EntityInfos(header, height, txs) ==
    [i \in DOMAIN txs |-> PublishTransaction(txs[i], CalculateTransactionFee(header.FeeMultiplier, txs[i]))]
    \o <<PublishBlock(header, height, txs)>>

(* BatchEntityProcessor *)
ProcessBlock(header, height, txs, c) ==
    FoldLeft(LAMBDA r, info : IF r.Valid THEN Process(info, BlockContext(height), r.Cache) ELSE r,
             [Valid |-> TRUE, Cache |-> c], EntityInfos(header, height, txs))

(* RollbackBlock *)
RollbackEntities(header, height, txs, c) ==
    CommitRemovals(
        FoldLeft(LAMBDA d, info : IF d.thrown THEN d ELSE ObserveReverse(info, BlockContext(height), d),
                 c, Reverse(EntityInfos(header, height, txs))))

-----------------------------------------------------------------------------
(* The nemesis block, observed on an empty cache *)

EmptyCache ==
    [accounts |-> << >>, keys |-> {}, queued |-> {}, thrown |-> FALSE, hashes |-> {}, statistics |-> << >>,
     state |-> [LastRecalculationHeight |-> 0, DynamicFeeMultiplier |-> 0, NumTotalTransactions |-> 0],
     namespaces |-> << >>, namespaceById |-> << >>, namespaceGroups |-> << >>,
     namespaceSizes |-> [Active |-> 0, Deep |-> 0],
     hashLocks |-> << >>, hashLockGroups |-> << >>, secretLocks |-> << >>, secretLockGroups |-> << >>,
     mosaics |-> << >>, mosaicGroups |-> << >>, multisigs |-> << >>, metadata |-> << >>,
     accountRestrictions |-> << >>, globalRestrictions |-> << >>, addressRestrictions |-> << >>]

(* NemesisBlockLoader: the observers run without the validators. *)
NemesisCache(header, txs) ==
    FoldLeft(LAMBDA d, info : IF d.thrown THEN d ELSE ObserveAll(info, BlockContext(1), d),
             EmptyCache, EntityInfos(header, 1, txs))

-----------------------------------------------------------------------------
(* HarvestingUtFacade: Cache is its delta, Transactions the applied transactions *)

(* apply: the fee is the maximum fee; what a failure has observed is undone. *)
FacadeApply(facade, height, tx) ==
    LET notifications == PublishTransaction(tx, tx.MaxFee)
        Finish(r) ==
            IF r.Valid THEN [Cache |-> r.Cache, Transactions |-> Append(facade.Transactions, tx)]
            ELSE [facade EXCEPT !.Cache = ObserveReverse(SubSeq(notifications, 1, r.NumObserved),
                                                          BlockContext(height), r.Cache)]
    IN  Finish(Process(notifications, BlockContext(height), facade.Cache))

FacadeUnapply(facade, height) ==
    LET tx == Last(facade.Transactions)
    IN  [Cache |-> ObserveReverse(PublishTransaction(tx, tx.MaxFee), BlockContext(height), facade.Cache),
         Transactions |-> Front(facade.Transactions)]

(* Mutant: the surplus is paid back and still counts as activity. *)
ApplyFeeSurplusKeepsActivity(c, account, surplus, importanceHeight) == Credit(c, account, Currency, surplus)

ApplyFeeSurplus(c, account, surplus, importanceHeight) ==
    TryUpdateBuckets(Credit(c, account, Currency, surplus), account, importanceHeight,
                     LAMBDA b : [b EXCEPT !.TotalFeesPaid = @ - surplus], FALSE)

FacadeCommit(facade, header, height) ==
    LET Refund(c, tx) ==
            LET surplus == tx.MaxFee - CalculateTransactionFee(header.FeeMultiplier, tx)
            IN  IF surplus = 0 THEN c
                ELSE ApplyFeeSurplus(c, tx.Signer, surplus, ConvertToImportanceHeight(height))
        refunded == FoldLeft(Refund, facade.Cache, facade.Transactions)
    IN  Process(PublishBlock(header, height, facade.Transactions), BlockContext(height), refunded)

-----------------------------------------------------------------------------
(* Selection of the transactions of a harvested block *)

CalculateTransactionMaxFeeMultiplier(tx) == tx.MaxFee \div tx.Size

(* GetFirstTransactionInfoPointers with the facade as the filter *)
ApplyFirst(c, height, candidates, count) ==
    FoldLeft(LAMBDA f, tx : IF Len(f.Transactions) = count THEN f ELSE FacadeApply(f, height, tx),
             [Cache |-> c, Transactions |-> <<>>], candidates)

(* TransactionFeeMaximizer: the number of transactions with the largest total fee, more before fewer *)
BestFeePolicy(txs) ==
    LET TotalOf(k) == IF k = 0 THEN 0
                      ELSE CalculateTransactionMaxFeeMultiplier(txs[k])
                               * FoldFunction(LAMBDA tx, n : tx.Size + n, 0, SubSeq(txs, 1, k))
    IN  CHOOSE k \in 0..Len(txs) :
            \A j \in 0..Len(txs) : TotalOf(j) < TotalOf(k) \/ (TotalOf(j) = TotalOf(k) /\ j <= k)

(* std::sort leaves the order of equal elements open: the candidates in any order it may produce *)
Candidates(strategy, unconfirmed) ==
    LET Multiplier(tx) == CalculateTransactionMaxFeeMultiplier(tx)
        orders == {q \in SetToSeqs(ToSet(unconfirmed)) : Len(q) = Len(unconfirmed)}
    IN  CASE strategy = "Oldest" -> {unconfirmed}
          [] strategy = "Minimize_Fee" ->
                 {q \in orders : \A i, j \in DOMAIN q : i < j => Multiplier(q[i]) <= Multiplier(q[j])}
          [] strategy = "Maximize_Fee" ->
                 {q \in orders : \A i, j \in DOMAIN q : i < j => Multiplier(q[i]) >= Multiplier(q[j])}

(* CreateTransactionsInfoSupplier: the facade with the selected transactions and the fee multiplier *)
SupplyTransactions(strategy, c, height, candidates, count) ==
    LET Truncate(applied) ==
            IF strategy # "Maximize_Fee" THEN applied
            ELSE FoldLeft(LAMBDA f, i : FacadeUnapply(f, height), applied,
                          [i \in 1..(Len(applied.Transactions) - BestFeePolicy(applied.Transactions)) |-> i])
        Priced(facade) ==
            LET multipliers == {CalculateTransactionMaxFeeMultiplier(tx) : tx \in ToSet(facade.Transactions)}
            IN  [Facade |-> facade, FeeMultiplier |-> IF multipliers = {} THEN 0 ELSE Min(multipliers)]
    IN  Priced(Truncate(ApplyFirst(c, height, candidates, count)))
=============================================================================

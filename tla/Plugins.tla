-------------------------------- MODULE Plugins --------------------------------
(***************************************************************************)
(* The transfer and the hash cache plugins, and what every plugin          *)
(* registers with the plugin manager: transactions, validators, observers. *)
(***************************************************************************)
EXTENDS MosaicRestrictions

CONSTANTS
    HashRetentionTime,                  \* CalculateTransactionCacheDuration
    IdOrder                             \* the mosaic ids and namespace ids in increasing order

-----------------------------------------------------------------------------
(* The transfer plugin *)

(* mosaics: a sequence of [MosaicId, Amount] *)
TransferTransaction(signer, recipient, mosaics) ==
    [Type |-> "Transfer", Signer |-> signer, RecipientAddress |-> recipient, Mosaics |-> mosaics]

TransferMosaicsNotification(mosaics) == [Type |-> "TransferMosaics", Mosaics |-> mosaics]

PublishTransfer(tx) ==
    <<AccountAddressNotification(tx.RecipientAddress),
      AddressInteractionNotification(tx.Signer, tx.Type, {tx.RecipientAddress}, {})>>
    \o [i \in DOMAIN tx.Mosaics |->
            BalanceTransferNotification(tx.Signer, tx.RecipientAddress,
                                        tx.Mosaics[i].MosaicId, tx.Mosaics[i].Amount, "Static")]
    \o (IF tx.Mosaics = <<>> THEN << >> ELSE <<TransferMosaicsNotification(tx.Mosaics)>>)

TransferMosaicsValidator(n) ==
    LET Rank(id) == CHOOSE i \in DOMAIN IdOrder : IdOrder[i] = id
    IN  \A i \in 2..Len(n.Mosaics) : Rank(n.Mosaics[i - 1].MosaicId) < Rank(n.Mosaics[i].MosaicId)

-----------------------------------------------------------------------------
(* The hash cache plugin *)

UniqueTransactionHashValidator(n, c) == <<n.Deadline, n.TransactionHash>> \notin c.hashes

TransactionHashObserver(n, x, c) ==
    LET hash == <<n.Deadline, n.TransactionHash>>
    IN  IF IsCommit(x) = (hash \in c.hashes) THEN Throw(c)
        ELSE [c EXCEPT !.hashes = IF IsCommit(x) THEN @ \cup {hash} ELSE @ \ {hash}]

(* Mutant: a hash is forgotten as soon as its deadline has passed. *)
TransactionHashPruningObserverAtDeadline(n, x, c) ==
    IF ShouldPrune(x, BlockPruneInterval)
    THEN [c EXCEPT !.hashes = {h \in @ : h[1] >= n.Timestamp}]
    ELSE c

TransactionHashPruningObserver(n, x, c) ==
    IF ShouldPrune(x, BlockPruneInterval)
    THEN [c EXCEPT !.hashes = {h \in @ : h[1] >= n.Timestamp - HashRetentionTime}]
    ELSE c

-----------------------------------------------------------------------------
(* The alias validator that needs the account state cache *)

AddressAliasValidator(n, c) == FindByAddress(c, n.AliasedData)

-----------------------------------------------------------------------------
(* The transaction registry *)

(* The publication of a transaction by its own plugin, embedded or not *)
PublishEmbeddable(tx) ==
    CASE tx.Type = "Transfer" -> PublishTransfer(tx)
      [] tx.Type = "AccountLink" -> PublishAccountLink(tx)
      [] tx.Type = "HashLock" -> PublishHashLock(tx)
      [] tx.Type = "SecretLock" -> PublishSecretLock(tx)
      [] tx.Type = "SecretProof" -> PublishSecretProof(tx)
      [] tx.Type = "NamespaceRegistration" -> PublishNamespaceRegistration(tx, Currency, NemesisAccount)
      [] tx.Type = "AddressAlias" -> PublishAddressAlias(tx)
      [] tx.Type = "MosaicAlias" -> PublishMosaicAlias(tx)
      [] tx.Type = "MosaicDefinition" -> PublishMosaicDefinition(tx)
      [] tx.Type = "MosaicSupplyChange" -> PublishMosaicSupplyChange(tx)
      [] tx.Type = "MultisigAccountModification" -> PublishMultisigAccountModification(tx)
      [] tx.Type \in {"AccountMetadata", "MosaicMetadata", "NamespaceMetadata"} -> PublishMetadata(tx)
      [] tx.Type \in {"AccountAddressRestriction", "AccountMosaicRestriction", "AccountOperationRestriction"} ->
             PublishAccountRestriction(tx)
      [] tx.Type = "MosaicGlobalRestriction" -> PublishMosaicGlobalRestriction(tx)
      [] tx.Type = "MosaicAddressRestriction" -> PublishMosaicAddressRestriction(tx)

PublishCustom(tx) ==
    IF tx.Type \in {"AggregateComplete", "AggregateBonded"}
    THEN PublishAggregate(tx, PublishEmbeddable)
    ELSE PublishEmbeddable(tx)

-----------------------------------------------------------------------------
(* Registration: the validators and the names of the observers of each plugin by notification, in the *)
(* order of registration.                                                                              *)

CoreValidators(n, x, c) ==
    CASE n.Type = "AccountAddress" -> AddressValidator(n, c)
      [] n.Type = "Transaction" -> NemesisSinkValidator(n, x)
      [] n.Type = "TransactionDeadline" -> DeadlineValidator(n, x)
      [] n.Type = "TransactionFee" -> TransactionFeeValidator(n)
      [] n.Type = "BalanceDebit" -> BalanceDebitValidator(n, c)
      [] n.Type = "BalanceTransfer" -> BalanceTransferValidator(n, c)
      [] n.Type = "Block" -> MaxTransactionsValidator(n) /\ EligibleHarvesterValidator(n, x, c)
      [] OTHER -> TRUE

CoreObservers(type) ==
    CASE type \in {"AccountAddress", "AccountPublicKey", "BalanceDebit", "BalanceTransfer", "TransactionFee"} ->
             <<type>>
      [] type = "Block" -> <<"Beneficiary", "HarvestFee", "TotalTransactions">>
      [] OTHER -> << >>

CoreTransientObservers(type) ==
    IF type = "Block" THEN <<"RecalculateImportances", "BlockStatistic", "BlockStatisticPruning">> ELSE << >>

HashCacheValidators(n, c) == n.Type = "Transaction" => UniqueTransactionHashValidator(n, c)

HashCacheTransientObservers(type) ==
    CASE type = "Transaction" -> <<"TransactionHash">>
      [] type = "Block" -> <<"TransactionHashPruning">>
      [] OTHER -> << >>

AggregateValidators(n) ==
    n.Type = "AggregateCosignatures" =>
        BasicAggregateCosignaturesValidator(n) /\ StrictAggregateCosignaturesValidator(n)

MultisigValidators(n, c) ==
    CASE n.Type = "Transaction" -> MultisigPermittedOperationValidator(n, c)
      [] n.Type = "AggregateCosignatures" -> MultisigAggregateEligibleCosignatoriesValidator(n, c)
      [] n.Type = "AggregateEmbeddedTransaction" -> MultisigAggregateSufficientCosignatoriesValidator(n, c)
      [] n.Type = "MultisigNewCosignatory" ->
             MultisigMaxCosignedAccountsValidator(n, c) /\ MultisigLoopAndLevelValidator(n, c)
      [] n.Type = "MultisigCosignatories" ->
             /\ MultisigCosignatoriesValidator(n)
             /\ MultisigMaxCosignatoriesValidator(n, c)
             /\ MultisigInvalidCosignatoriesValidator(n, c)
      [] n.Type = "MultisigSettings" -> MultisigInvalidSettingsValidator(n, c)
      [] OTHER -> TRUE

MultisigObservers(type) == IF type \in {"MultisigCosignatories", "MultisigSettings"} THEN <<type>> ELSE << >>

AccountLinkValidators(n, c) ==
    CASE n.Type = "RemoteAccountLink" -> AccountLinkAvailabilityValidator(n, c)
      [] n.Type = "NewRemoteAccount" -> NewRemoteAccountAvailabilityValidator(n, c)
      [] n.Type = "Transaction" -> RemoteSenderValidator(n, c)
      [] n.Type = "AddressInteraction" -> RemoteInteractionValidator(n, c)
      [] OTHER -> TRUE

AccountLinkObservers(type) == IF type = "RemoteAccountLink" THEN <<type>> ELSE << >>

TransferValidators(n) == n.Type = "TransferMosaics" => TransferMosaicsValidator(n)

NamespaceValidators(n, x, c) ==
    CASE n.Type = "RootNamespace" ->
             /\ RootNamespaceValidator(n)
             /\ RootNamespaceAvailabilityValidator(n, x, c)
             /\ NamespaceDurationOverflowValidator(n, x, c)
      [] n.Type = "ChildNamespace" ->
             ChildNamespaceAvailabilityValidator(n, x, c) /\ RootNamespaceMaxChildrenValidator(n, c)
      [] n.Type = "NamespaceRequired" -> RequiredNamespaceValidator(n, x, c)
      [] OTHER -> TRUE

NamespaceObservers(type) ==
    CASE type \in {"RootNamespace", "ChildNamespace"} -> <<type>>
      [] type = "Block" -> <<"NamespacePruning">>
      [] OTHER -> << >>

AliasValidators(n, c) ==
    CASE n.Type = "AliasLink" -> AliasAvailabilityValidator(n, c)
      [] n.Type = "AliasedAddress" ->
             UnlinkAliasedDataConsistencyValidator(n, "Address", c) /\ AddressAliasValidator(n, c)
      [] n.Type = "AliasedMosaicId" -> UnlinkAliasedDataConsistencyValidator(n, "Mosaic", c)
      [] OTHER -> TRUE

AliasObservers(type) == IF type \in {"AliasedAddress", "AliasedMosaicId"} THEN <<type>> ELSE << >>

MosaicValidators(n, x, c) ==
    CASE n.Type = "MosaicProperties" -> MosaicPropertiesValidator(n)
      [] n.Type = "MosaicRequired" -> RequiredMosaicValidator(n, x, c)
      [] n.Type = "MosaicDefinition" ->
             MosaicAvailabilityValidator(n, x, c) /\ MosaicDurationValidator(n, c)
      [] n.Type = "BalanceTransfer" ->
             MosaicTransferValidator(n, x, c) /\ MaxMosaicsBalanceTransferValidator(n, c)
      [] n.Type = "MosaicSupplyChange" ->
             /\ MosaicSupplyChangeValidator(n)
             /\ MosaicSupplyChangeAllowedValidator(n, c)
             /\ MaxMosaicsSupplyChangeValidator(n, c)
      [] OTHER -> TRUE

MosaicObservers(type) == IF type \in {"MosaicDefinition", "MosaicSupplyChange"} THEN <<type>> ELSE << >>

HashLockValidators(n, x, c) ==
    CASE n.Type = "HashLockDuration" -> LockDurationValidator(n, MaxHashLockDuration)
      [] n.Type = "Transaction" -> AggregateHashPresentValidator(n, x, c)
      [] n.Type = "HashLock" -> HashLockCacheUniqueValidator(n, c)
      [] n.Type = "HashLockMosaic" -> HashLockMosaicValidator(n, c)
      [] OTHER -> TRUE

HashLockObservers(type) ==
    CASE type = "HashLock" -> <<type>>
      [] type = "Block" -> <<"ExpiredHashLockInfo", "HashLockPruning">>
      [] type = "Transaction" -> <<"CompletedAggregate">>
      [] OTHER -> << >>

SecretLockValidators(n, x, c) ==
    CASE n.Type = "SecretLockDuration" -> LockDurationValidator(n, MaxSecretLockDuration)
      [] n.Type = "ProofSecret" -> ProofSecretValidator(n)
      [] n.Type = "SecretLock" -> SecretLockCacheUniqueValidator(n, c)
      [] n.Type = "ProofPublication" -> ProofValidator(n, x, c)
      [] OTHER -> TRUE

SecretLockObservers(type) ==
    CASE type \in {"SecretLock", "ProofPublication"} -> <<type>>
      [] type = "Block" -> <<"ExpiredSecretLockInfo", "SecretLockPruning">>
      [] OTHER -> << >>

MetadataValidators(n, c) ==
    CASE n.Type = "MetadataSizes" -> MetadataSizesValidator(n)
      [] n.Type = "MetadataValue" -> MetadataValueValidator(n, c)
      [] OTHER -> TRUE

MetadataObservers(type) == IF type = "MetadataValue" THEN <<type>> ELSE << >>

AccountRestrictionValidators(n, c) ==
    CASE n.Type = "AccountRestrictionType" -> AccountRestrictionTypeValidator(n)
      [] n.Type = "ModifyAccountRestriction" ->
             RedundantModificationValidator(n, c) /\ MaxAccountRestrictionValuesValidator(n, c)
      [] n.Type = "ModifyAccountRestrictionValue" ->
             /\ AccountAddressRestrictionNoSelfModificationValidator(n)
             /\ ValueModificationValidator(n, c)
             /\ AccountOperationRestrictionNoSelfBlockingValidator(n, c)
      [] n.Type = "AddressInteraction" -> AddressInteractionValidator(n, c)
      [] n.Type = "BalanceTransfer" -> MosaicRecipientValidator(n, c)
      [] n.Type = "Transaction" -> OperationRestrictionValidator(n, c)
      [] OTHER -> TRUE

AccountRestrictionObservers(type) == IF type = "ModifyAccountRestrictionValue" THEN <<type>> ELSE << >>

MosaicRestrictionValidators(n, c) ==
    CASE n.Type = "BalanceDebit" -> MosaicRestrictionBalanceValidator(n.MosaicId, {n.Sender}, c)
      [] n.Type = "BalanceTransfer" ->
             MosaicRestrictionBalanceValidator(n.MosaicId, {n.Sender, ResolveAddress(c, n.Recipient)}, c)
      [] n.Type = "MosaicRestrictionRequired" -> MosaicRestrictionRequiredValidator(n, c)
      [] n.Type \in {"MosaicGlobalRestrictionModification", "MosaicAddressRestrictionModification"} ->
             MosaicRestrictionModificationValidator(n, c) /\ MosaicRestrictionMaxValuesValidator(n, c)
      [] OTHER -> TRUE

MosaicRestrictionObservers(type) ==
    IF type \in {"MosaicGlobalRestrictionModification", "MosaicAddressRestrictionModification"}
    THEN <<type>> ELSE << >>

(* The observer with a name *)
RunObserver(name, n, x, c) ==
    CASE name = "AccountAddress" -> AccountAddressObserver(n, x, c)
      [] name = "AccountPublicKey" -> AccountPublicKeyObserver(n, x, c)
      [] name = "BalanceDebit" -> BalanceDebitObserver(n, x, c)
      [] name = "BalanceTransfer" -> BalanceTransferObserver(n, x, c)
      [] name = "Beneficiary" -> BeneficiaryObserver(n, x, c)
      [] name = "TransactionFee" -> TransactionFeeActivityObserver(n, x, c)
      [] name = "HarvestFee" -> HarvestFeeObserver(n, x, c)
      [] name = "TotalTransactions" -> TotalTransactionsObserver(n, x, c)
      [] name = "RecalculateImportances" -> RecalculateImportancesObserver(n, x, c)
      [] name = "BlockStatistic" -> BlockStatisticObserver(n, x, c)
      [] name = "BlockStatisticPruning" -> BlockStatisticPruningObserver(x, c)
      [] name = "TransactionHash" -> TransactionHashObserver(n, x, c)
      [] name = "TransactionHashPruning" -> TransactionHashPruningObserver(n, x, c)
      [] name = "RemoteAccountLink" -> AccountLinkObserver(n, x, c)
      [] name = "HashLock" -> HashLockObserver(n, x, c)
      [] name = "ExpiredHashLockInfo" -> ExpiredHashLockInfoObserver(n, x, c)
      [] name = "HashLockPruning" -> HashLockPruningObserver(x, c)
      [] name = "CompletedAggregate" -> CompletedAggregateObserver(n, x, c)
      [] name = "SecretLock" -> SecretLockObserver(n, x, c)
      [] name = "ProofPublication" -> ProofObserver(n, x, c)
      [] name = "ExpiredSecretLockInfo" -> ExpiredSecretLockInfoObserver(n, x, c)
      [] name = "SecretLockPruning" -> SecretLockPruningObserver(x, c)
      [] name = "RootNamespace" -> RootNamespaceObserver(n, x, c)
      [] name = "ChildNamespace" -> ChildNamespaceObserver(n, x, c)
      [] name = "NamespacePruning" -> NamespacePruningObserver(x, c)
      [] name = "AliasedAddress" -> AliasedObserverHandler(n, x, c, "Address")
      [] name = "AliasedMosaicId" -> AliasedObserverHandler(n, x, c, "Mosaic")
      [] name = "MosaicDefinition" -> MosaicDefinitionObserver(n, x, c)
      [] name = "MosaicSupplyChange" -> MosaicSupplyChangeObserver(n, x, c)
      [] name = "MultisigCosignatories" -> MultisigCosignatoriesObserver(n, x, c)
      [] name = "MultisigSettings" -> MultisigSettingsObserver(n, x, c)
      [] name = "MetadataValue" -> MetadataValueObserver(n, x, c)
      [] name = "ModifyAccountRestrictionValue" -> ValueModificationObserver(n, x, c)
      [] name \in {"MosaicGlobalRestrictionModification", "MosaicAddressRestrictionModification"} ->
             MosaicRestrictionModificationObserver(n, x, c)
      [] OTHER -> c
=============================================================================

SPECIFICATION Spec
CHECK_DEADLOCK FALSE
CONSTANTS
  Networks <- MCNetworks
  TransactionsOf <- MCTransactionsOf
  HeadersOf <- MCHeadersOf
  NemesisOf <- MCNemesisOf
  BlockSizesOf <- MCBlockSizesOf
  MaxHeightOf <- MCMaxHeightOf
  UnconfirmedOf <- MCUnconfirmedOf
  StrategiesOf <- MCStrategiesOf
  Addresses <- MCAddresses
  MosaicIds <- MCMosaicIds
  NamespaceIds <- MCNamespaceIds
  IdOrder <- MCIdOrder
  NemesisAccount = "nemesis"
  SinkAccount = "sink"
  Currency = "cur"
  HarvestingMosaic = "har"
  MaxRollbackBlocks = 2
  HashRetentionTime = 2
  GracePeriodDuration = 1
  MinNamespaceDuration = 1
  MaxNamespaceDuration = 6
  MaxNamespaceDepth = 3
  MaxChildNamespaces = 2
  RootFeePerBlock = 1
  ChildFee = 1
  MinHarvesterBalance = 10
  TotalChainImportance = 100
  ImportanceActivityPercentage = 20
  ImportanceGrouping = 2
  HarvestBeneficiaryPercentage = 50
  Inflation = 1
  MaxDifficultyBlocks = 3
  BlockPruneInterval = 2
  DefaultDynamicFeeMultiplier = 1
  MaxTransactionsPerBlock = 2
  MaxTransactionLifetime = 8
  MaxBondedTransactionLifetime = 5
  Importance_History_Size = 3
  Activity_Bucket_History_Size = 5
  Rollback_Buffer_Size = 2
  LockedFundsPerAggregate = 4
  MaxHashLockDuration = 3
  MaxSecretLockDuration = 3
  MaxMosaics = 4
  MaxMosaicDuration = 4
  MaxDivisibility = 3
  MaxAtomicUnits = 100
  MosaicRentalFee = 1
  MaxMultisigDepth = 2
  MaxCosignatoriesPerAccount = 2
  MaxCosignedAccountsPerAccount = 2
  MaxTransactionsPerAggregate = 2
  MaxCosignaturesPerAggregate = 3
  EnableStrictCosignatureCheck = FALSE
  MaxValueSize = 2
  MaxAccountRestrictionValues = 2
  MaxMosaicRestrictionValues = 2
INVARIANTS
  OnlyPrunedNamespacesThrow
  SupplyConserved
  LookupsAgree
  MultisigGraphValid
  LinksSymmetric
  RestrictionsEscapable
  ConfirmedOnce
  ImportanceBounded
  HarvestedBlockExecutes
PROPERTY
  RollbackRestores

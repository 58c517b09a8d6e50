CONSTANTS
    Txs <- MCTxs
    Requires <- MCRequires
    Excludes <- MCExcludes
    LowFee <- MCLowFee
    Bonded <- MCBonded
    NewTxs <- MCNewTxs
    NumSubCaches = 2
    Home <- MCHome
    InitialChains <- MCInitialChains
    PeerChains <- MCPeerChains
    HarvestWeights <- MCHarvestWeights
    MaxCacheSize = 2
    MaxTransactionsPerBlock = 1
    MaxRollbackBlocks = 2
    MaxHeight = 2
SPECIFICATION FairSpec
INVARIANTS StorageAgreesWithCache ViewConsistent PoolValid HarvestedBlockValid
PROPERTIES NoTransactionLost EveryThreadReturns

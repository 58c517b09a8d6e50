----------------------------- MODULE AccountStates -----------------------------
(***************************************************************************)
(* The core system plugin: accounts, balances, importances, block          *)
(* statistics, and the observers and validators of the core notifications. *)
(*                                                                         *)
(* An account's public key and its address are one element of Addresses;   *)
(* c.keys is the key lookup map, so an account known by address only is in *)
(* DOMAIN c.accounts and not in c.keys.  Stacks are sequences with the top *)
(* first.                                                                  *)
(***************************************************************************)
EXTENDS Namespaces

CONSTANTS
    Addresses,                          \* addresses valid on this network
    NemesisAccount,
    Currency, HarvestingMosaic,
    MinHarvesterBalance, TotalChainImportance, ImportanceActivityPercentage, ImportanceGrouping,
    HarvestBeneficiaryPercentage, Inflation,
    MaxDifficultyBlocks, BlockPruneInterval, DefaultDynamicFeeMultiplier,
    MaxTransactionsPerBlock, MaxTransactionLifetime,
    Importance_History_Size, Activity_Bucket_History_Size, Rollback_Buffer_Size

NoKey == "none"

-----------------------------------------------------------------------------
(* Compact stacks of bounded size *)

PushStack(s, v, size) == SubSeq(<<v>> \o s, 1, Min({size, Len(s) + 1}))
TopOr(s, default) == IF s = <<>> THEN default ELSE Head(s)

ConvertToImportanceHeight(height) ==
    LET grouped == ((height - 1) \div ImportanceGrouping) * ImportanceGrouping
    IN  IF grouped < 1 THEN 1 ELSE grouped

ActivityBucket(start) == [StartHeight |-> start, TotalFeesPaid |-> 0, BeneficiaryCount |-> 0, RawScore |-> 0]
LastBucket(s) == TopOr(s.ActivityBuckets, ActivityBucket(0))

(* AccountImportanceSnapshots *)
SnapshotHeight(s) == TopOr(s.ImportanceSnapshots, [Importance |-> 0, Height |-> 0]).Height
CurrentImportance(s) == TopOr(s.ImportanceSnapshots, [Importance |-> 0, Height |-> 0]).Importance

-----------------------------------------------------------------------------
(* Accounts *)

AccountState(height) ==
    [AddressHeight |-> height, PublicKeyHeight |-> 0,
     AccountType |-> "Unlinked", LinkedAccountKey |-> NoKey,
     ImportanceSnapshots |-> <<>>, ActivityBuckets |-> <<>>, Balances |-> << >>]

FindByAddress(c, address) == address \in DOMAIN c.accounts
FindByKey(c, key) == key \in c.keys /\ key \in DOMAIN c.accounts

AddAccountByAddress(c, address, height) ==
    IF FindByAddress(c, address) THEN c
    ELSE [c EXCEPT !.accounts = Put(@, address, AccountState(height))]

AddAccountByKey(c, key, height) ==
    LET known == AddAccountByAddress([c EXCEPT !.keys = @ \cup {key}], key, height)
    IN  IF known.accounts[key].PublicKeyHeight # 0 THEN known
        ELSE [known EXCEPT !.accounts[key].PublicKeyHeight = height]

RemoveByAddress(c, address, height) ==
    IF ~FindByAddress(c, address) \/ c.accounts[address].AddressHeight # height THEN c
    ELSE [c EXCEPT !.keys = IF c.accounts[address].PublicKeyHeight # 0 THEN @ \ {address} ELSE @,
                   !.accounts = Drop(@, address)]

RemoveByKey(c, key, height) ==
    IF ~FindByKey(c, key) \/ c.accounts[key].PublicKeyHeight # height THEN c
    ELSE IF c.accounts[key].AddressHeight = height
    THEN [c EXCEPT !.keys = @ \ {key}, !.accounts = Drop(@, key)]
    ELSE [c EXCEPT !.keys = @ \ {key}, !.accounts[key].PublicKeyHeight = 0]

QueueRemove(c, kind, id, height) == [c EXCEPT !.queued = @ \cup {<<kind, id, height>>}]

CommitRemovals(c) ==
    LET ByAddress(q, d) == RemoveByAddress(d, q[2], q[3])
        ByKey(q, d) == RemoveByKey(d, q[2], q[3])
        addresses == {q \in c.queued : q[1] = "Address"}
    IN  [FoldSet(ByKey, FoldSet(ByAddress, c, addresses), c.queued \ addresses) EXCEPT !.queued = {}]

-----------------------------------------------------------------------------
(* Balances *)

BalanceOf(s, mosaicId) == IF mosaicId \in DOMAIN s.Balances THEN s.Balances[mosaicId] ELSE 0

Credit(c, account, mosaicId, amount) ==
    IF amount = 0 THEN c
    ELSE [c EXCEPT !.accounts[account].Balances =
             Put(@, mosaicId, BalanceOf(c.accounts[account], mosaicId) + amount)]

Debit(c, account, mosaicId, amount) ==
    LET left == BalanceOf(c.accounts[account], mosaicId) - amount
    IN  IF amount = 0 THEN c
        ELSE IF left < 0 THEN Throw(c)
        ELSE IF left = 0 THEN [c EXCEPT !.accounts[account].Balances = Drop(@, mosaicId)]
        ELSE [c EXCEPT !.accounts[account].Balances[mosaicId] = left]

(* RequireLinkedRemoteAndMainAccounts *)
AreLinkedRemoteAndMain(c, remote, main) ==
    /\ c.accounts[remote].AccountType = "Remote"
    /\ c.accounts[main].AccountType = "Main"
    /\ c.accounts[main].LinkedAccountKey = remote
    /\ c.accounts[remote].LinkedAccountKey = main

(* ProcessForwardedAccountState: the account that acts for a key *)
ForwardedAccount(c, key) ==
    IF c.accounts[key].AccountType = "Remote" THEN c.accounts[key].LinkedAccountKey ELSE key

ProcessForwardedAccountState(c, key, Action(_, _)) ==
    LET main == ForwardedAccount(c, key)
    IN  IF ~FindByKey(c, key) THEN Throw(c)
        ELSE IF main = key THEN Action(c, key)
        ELSE IF ~FindByKey(c, main) THEN Throw(c)
        ELSE IF ~AreLinkedRemoteAndMain(c, key, main) THEN Throw(c)
        ELSE Action(c, main)

-----------------------------------------------------------------------------
(* Activity *)

HasHighValue(s) == BalanceOf(s, HarvestingMosaic) >= MinHarvesterBalance
HighValueAddresses(c) == {a \in DOMAIN c.accounts : HasHighValue(c.accounts[a])}

(* AccountActivityBuckets::tryUpdate *)
TryUpdateBuckets(c, account, height, Change(_), shouldCreateNewBucket) ==
    LET s == c.accounts[account]
    IN  IF LastBucket(s).StartHeight > height THEN Throw(c)
        ELSE IF LastBucket(s).StartHeight = height
        THEN [c EXCEPT !.accounts[account].ActivityBuckets[1] = Change(@)]
        ELSE IF shouldCreateNewBucket
        THEN [c EXCEPT !.accounts[account].ActivityBuckets =
                 PushStack(@, Change(ActivityBucket(height)), Activity_Bucket_History_Size)]
        ELSE c

PopBucket(c, account) == [c EXCEPT !.accounts[account].ActivityBuckets = Tail(@)]

ShouldPopBucket(bucket) == bucket.StartHeight # 0 /\ bucket = ActivityBucket(bucket.StartHeight)

UpdateActivity(c, key, x, CommitAction(_), RollbackAction(_)) ==
    LET importanceHeight == ConvertToImportanceHeight(x.Height)
        updated == TryUpdateBuckets(c, key, importanceHeight, RollbackAction, FALSE)
    IN  IF ~FindByKey(c, key) THEN Throw(c)
        ELSE IF ~HasHighValue(c.accounts[key]) THEN c
        ELSE IF IsCommit(x) THEN TryUpdateBuckets(c, key, importanceHeight, CommitAction, TRUE)
        ELSE IF ShouldPopBucket(LastBucket(updated.accounts[key])) THEN PopBucket(updated, key)
        ELSE updated

-----------------------------------------------------------------------------
(* Importance *)

PreviousImportanceHeight(height, count) ==
    IF height > ImportanceGrouping * count THEN height - ImportanceGrouping * count ELSE 1

(* SummarizeAccountActivity *)
ActivitySummary(s, height) ==
    LET previousHeight == IF height = 1 THEN 0 ELSE PreviousImportanceHeight(height, 1)
        minHeight == PreviousImportanceHeight(height, Activity_Bucket_History_Size - Rollback_Buffer_Size - 1)
        recent == SelectSeq(s.ActivityBuckets, LAMBDA b : b.StartHeight >= minHeight)
        Total(field) == FoldFunction(LAMBDA b, n : b[field] + n, 0, recent)
        previous == SelectSeq(recent, LAMBDA b : b.StartHeight = previousHeight)
    IN  [TotalFeesPaid |-> Total("TotalFeesPaid"),
         BeneficiaryCount |-> Total("BeneficiaryCount"),
         PreviousImportance |-> IF previous = <<>> THEN 0 ELSE Head(previous).RawScore]

(* Mutant: the stake takes the share of the activity, too. *)
StakeImportanceWhole(balance, activeHarvestingMosaics) ==
    (TotalChainImportance * balance) \div activeHarvestingMosaics

StakeImportance(balance, activeHarvestingMosaics) ==
    (TotalChainImportance * balance * (100 - ImportanceActivityPercentage))
        \div (activeHarvestingMosaics * 100)

ActivityShare(part, total, weight, balance) ==
    IF ImportanceActivityPercentage = 0 \/ total = 0 THEN 0
    ELSE ((TotalChainImportance * part * ImportanceActivityPercentage * MinHarvesterBalance * weight)
             \div (total * 1000)) \div balance

FinalImportance(stake, activity, totalActivity) ==
    IF totalActivity # 0
    THEN stake + (activity * ((TotalChainImportance * ImportanceActivityPercentage) \div 100))
                     \div totalActivity
    ELSE IF ImportanceActivityPercentage > 0
    THEN (stake * 100) \div (100 - ImportanceActivityPercentage)
    ELSE stake

Total(f) == FoldFunction(+, 0, f)

(* Step 3 of PosImportanceCalculator::recalculate: the shares of the accounts in fees and in blocks *)
ActivityImportances(summaries, balances) ==
    LET FieldTotal(field) == Total([a \in DOMAIN summaries |-> summaries[a][field]])
        Share(a, field, weight) == ActivityShare(summaries[a][field], FieldTotal(field), weight, balances[a])
    IN  [a \in DOMAIN summaries |-> Share(a, "TotalFeesPaid", 8) + Share(a, "BeneficiaryCount", 2)]

(* Step 4 for one account: the effective importance is the smaller of the last two. *)
FinalizeImportance(c, a, height, importance, previousImportance) ==
    LET effective == IF height = 1 THEN importance ELSE Min({importance, previousImportance})
    IN  IF SnapshotHeight(c.accounts[a]) >= height THEN Throw(c)
        ELSE [TryUpdateBuckets(c, a, height, LAMBDA b : [b EXCEPT !.RawScore = importance], TRUE)
                 EXCEPT !.accounts[a].ImportanceSnapshots =
                     PushStack(@, [Importance |-> effective, Height |-> height], Importance_History_Size)]

(* Step 5: an account that is no longer of high value does not collect activity. *)
DisableCollection(a, c, height) ==
    IF LastBucket(c.accounts[a]).StartHeight = height THEN PopBucket(c, a) ELSE c

(* PosImportanceCalculator::recalculate *)
PosRecalculate(c, height) ==
    LET FinalizeAll(summaries, balances, activities) ==
            FoldSet(LAMBDA a, d :
                        FinalizeImportance(d, a, height,
                            FinalImportance(StakeImportance(balances[a], Total(balances)),
                                            activities[a], Total(activities)),
                            summaries[a].PreviousImportance),
                    c, DOMAIN summaries)
        Recalculate(summaries, balances) ==
            FoldSet(LAMBDA a, d : DisableCollection(a, d, height),
                    FinalizeAll(summaries, balances, ActivityImportances(summaries, balances)),
                    DOMAIN c.accounts \ DOMAIN summaries)
    IN  IF \E a \in HighValueAddresses(c) : LastBucket(c.accounts[a]).StartHeight > height THEN Throw(c)
        ELSE Recalculate([a \in HighValueAddresses(c) |-> ActivitySummary(c.accounts[a], height)],
                         [a \in HighValueAddresses(c) |-> BalanceOf(c.accounts[a], HarvestingMosaic)])

(* Mutant: the buckets are restored and the importances are not. *)
RestoreRecalculateKeepsImportance(c, height) ==
    LET RestoreOne(a, d) ==
            [d EXCEPT !.accounts[a].ActivityBuckets =
                          IF @ # <<>> /\ height <= Head(@).StartHeight THEN Tail(@) ELSE @]
    IN  FoldSet(RestoreOne, c, HighValueAddresses(c))

(* RestoreImportanceCalculator::recalculate *)
RestoreRecalculate(c, height) ==
    LET RestoreOne(a, d) ==
            [d EXCEPT !.accounts[a].ImportanceSnapshots =
                          IF height < SnapshotHeight(d.accounts[a]) THEN Tail(@) ELSE @,
                      !.accounts[a].ActivityBuckets =
                          IF @ # <<>> /\ height <= Head(@).StartHeight THEN Tail(@) ELSE @]
    IN  FoldSet(RestoreOne, c, HighValueAddresses(c))

-----------------------------------------------------------------------------
(* Block statistics *)

(* Only the last maxDifficultyBlocks statistics count; zero multipliers do not. *)
CalculateDynamicFeeMultiplier(statistics, height) ==
    LET window == {h \in DOMAIN statistics : height - MaxDifficultyBlocks < h /\ h <= height}
        voting == {h \in window : statistics[h].FeeMultiplier # 0}
        multipliers == SortSeq(
            [i \in 1..MaxDifficultyBlocks |->
                IF i <= Cardinality(voting)
                THEN statistics[SetToSortSeq(voting, <)[i]].FeeMultiplier
                ELSE DefaultDynamicFeeMultiplier], <)
    IN  IF MaxDifficultyBlocks = 0 THEN DefaultDynamicFeeMultiplier
        ELSE multipliers[MaxDifficultyBlocks \div 2 + 1]

CalculateDifficultyHistorySize == MaxRollbackBlocks + MaxDifficultyBlocks

PruneStatistics(c, height) ==
    [c EXCEPT !.statistics = Restrict(@, {h \in DOMAIN @ : h >= height - CalculateDifficultyHistorySize})]

-----------------------------------------------------------------------------
(* Core validators *)

AddressValidator(n, c) == ResolveAddress(c, n.Address) \in Addresses

DeadlineValidator(n, x) ==
    LET maxLifetime == IF n.MaxLifetime = 0 THEN MaxTransactionLifetime ELSE n.MaxLifetime
    IN  x.BlockTime <= n.Deadline /\ n.Deadline <= x.BlockTime + maxLifetime

NemesisSinkValidator(n, x) == x.Height = 1 \/ n.Signer # NemesisAccount

TransactionFeeValidator(n) == n.Fee <= n.MaxFee

MaxTransactionsValidator(n) == n.NumTransactions <= MaxTransactionsPerBlock

(* ImportanceView::canHarvest, with the harvester's key forwarded to its main account *)
EligibleHarvesterValidator(n, x, c) ==
    /\ FindByAddress(c, n.Signer)
    /\ LET s == c.accounts[ForwardedAccount(c, n.Signer)]
       IN  /\ SnapshotHeight(s) = ConvertToImportanceHeight(x.Height)
           /\ CurrentImportance(s) > 0
           /\ HasHighValue(s)

(* A balance is looked up by key and, failing that, by address. *)
BalanceDebitValidator(n, c) ==
    /\ FindByAddress(c, n.Sender)
    /\ BalanceOf(c.accounts[n.Sender], ResolveMosaic(c, n.MosaicId)) >= n.Amount

EffectiveAmount(n, c) ==
    n.Amount * (IF n.TransferAmountType = "Dynamic" THEN c.state.DynamicFeeMultiplier ELSE 1)

BalanceTransferValidator(n, c) ==
    /\ FindByAddress(c, n.Sender)
    /\ BalanceOf(c.accounts[n.Sender], ResolveMosaic(c, n.MosaicId)) >= EffectiveAmount(n, c)

-----------------------------------------------------------------------------
(* Core observers *)

AccountAddressObserver(n, x, c) ==
    LET address == ResolveAddress(c, n.Address)
    IN  IF IsCommit(x) THEN AddAccountByAddress(c, address, x.Height)
        ELSE QueueRemove(c, "Address", address, x.Height)

AccountPublicKeyObserver(n, x, c) ==
    IF IsCommit(x) THEN AddAccountByKey(c, n.PublicKey, x.Height)
    ELSE QueueRemove(c, "Key", n.PublicKey, x.Height)

BalanceDebitObserver(n, x, c) ==
    LET mosaicId == ResolveMosaic(c, n.MosaicId)
    IN  IF ~FindByKey(c, n.Sender) THEN Throw(c)
        ELSE IF IsCommit(x) THEN Debit(c, n.Sender, mosaicId, n.Amount)
        ELSE Credit(c, n.Sender, mosaicId, n.Amount)

BalanceTransferObserver(n, x, c) ==
    LET mosaicId == ResolveMosaic(c, n.MosaicId)
        recipient == ResolveAddress(c, n.Recipient)
        Transfer(from, to) == Credit(Debit(c, from, mosaicId, EffectiveAmount(n, c)),
                                     to, mosaicId, EffectiveAmount(n, c))
    IN  IF ~FindByKey(c, n.Sender) \/ ~FindByAddress(c, recipient) THEN Throw(c)
        ELSE IF IsCommit(x) THEN Transfer(n.Sender, recipient)
        ELSE Transfer(recipient, n.Sender)

BeneficiaryObserver(n, x, c) ==
    LET Up(b) == [b EXCEPT !.BeneficiaryCount = @ + 1]
        Down(b) == [b EXCEPT !.BeneficiaryCount = @ - 1]
    IN  ProcessForwardedAccountState(c, n.Beneficiary,
            LAMBDA d, account : UpdateActivity(d, account, x, Up, Down))

TransactionFeeActivityObserver(n, x, c) ==
    LET Up(b) == [b EXCEPT !.TotalFeesPaid = @ + n.Fee]
        Down(b) == [b EXCEPT !.TotalFeesPaid = @ - n.Fee]
    IN  IF n.Fee = 0 THEN c ELSE UpdateActivity(c, n.Signer, x, Up, Down)

(* Mutant: the beneficiary's share is not taken from the harvester's. *)
HarvestFeeObserverPaysTwice(n, x, c) ==
    LET total == n.TotalFee + Inflation
        share == IF HarvestBeneficiaryPercentage > 0 /\ n.Signer # n.Beneficiary
                 THEN (total * HarvestBeneficiaryPercentage) \div 100
                 ELSE 0
        Apply(d, key, amount) ==
            ProcessForwardedAccountState(d, key,
                LAMBDA e, account : IF IsCommit(x) THEN Credit(e, account, Currency, amount)
                                    ELSE Debit(e, account, Currency, amount))
    IN  Apply(Apply(c, n.Signer, total), n.Beneficiary, share)

HarvestFeeObserver(n, x, c) ==
    LET total == n.TotalFee + Inflation
        share == IF HarvestBeneficiaryPercentage > 0 /\ n.Signer # n.Beneficiary
                 THEN (total * HarvestBeneficiaryPercentage) \div 100
                 ELSE 0
        Apply(d, key, amount) ==
            ProcessForwardedAccountState(d, key,
                LAMBDA e, account : IF IsCommit(x) THEN Credit(e, account, Currency, amount)
                                    ELSE Debit(e, account, Currency, amount))
        paid == Apply(c, n.Signer, total - share)
    IN  IF share = 0 THEN paid ELSE Apply(paid, n.Beneficiary, share)

TotalTransactionsObserver(n, x, c) ==
    [c EXCEPT !.state.NumTotalTransactions =
        @ + (IF IsCommit(x) THEN n.NumTransactions ELSE 0 - n.NumTransactions)]

RecalculateImportancesObserver(n, x, c) ==
    LET effectiveHeight == IF IsCommit(x) THEN x.Height + 1 ELSE x.Height
        importanceHeight == ConvertToImportanceHeight(effectiveHeight)
        recalculated == IF IsCommit(x) THEN PosRecalculate(c, importanceHeight)
                        ELSE RestoreRecalculate(c, importanceHeight)
    IN  IF importanceHeight = c.state.LastRecalculationHeight THEN c
        ELSE [recalculated EXCEPT !.state.LastRecalculationHeight = importanceHeight]

BlockStatisticObserver(n, x, c) ==
    LET statistic == [Timestamp |-> n.Timestamp, FeeMultiplier |-> n.FeeMultiplier]
        next == Max({0} \cup DOMAIN c.statistics) + 1
        changed == IF IsCommit(x)
                   THEN IF next # x.Height THEN Throw(c)
                        ELSE [c EXCEPT !.statistics = Put(@, x.Height, statistic)]
                   ELSE IF next # x.Height + 1 THEN Throw(c)
                        ELSE [c EXCEPT !.statistics = Drop(@, x.Height)]
        effectiveHeight == IF IsCommit(x) THEN x.Height ELSE x.Height - 1
    IN  [changed EXCEPT !.state.DynamicFeeMultiplier =
            CalculateDynamicFeeMultiplier(changed.statistics, effectiveHeight)]

BlockStatisticPruningObserver(x, c) ==
    CacheBlockPruningObserver(x, BlockPruneInterval, 0, c, PruneStatistics)
=============================================================================

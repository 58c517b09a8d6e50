----------------------------- MODULE LedgerCache -----------------------------
(***************************************************************************)
(* What every plugin of the ledger shares: the sub caches as fields of one *)
(* record, the cache mixins that look up, insert and remove entries (and   *)
(* throw), the identifier groups behind height based expiry, and the core  *)
(* notifications a transaction or a block is broken into.                  *)
(*                                                                         *)
(* A cache c is a record with one field per sub cache; each sub cache is a *)
(* function from the keys it contains to their values.  c.thrown says that *)
(* some observer has let an exception escape.  An observer is an operator  *)
(* from a notification n, a context x = [Height, Mode] and a cache to the  *)
(* changed cache.                                                          *)
(***************************************************************************)
EXTENDS Integers, Sequences, SequencesExt, FiniteSets, FiniteSetsExt, Functions, TLC

-----------------------------------------------------------------------------
(* Cache access *)

Put(f, k, v) == (k :> v) @@ f
Drop(f, k) == Restrict(f, DOMAIN f \ {k})
Throw(c) == [c EXCEPT !.thrown = TRUE]

(* cache.find(k).tryGet() and cache.contains(k) *)
Has(c, sub, k) == k \in DOMAIN c[sub]

(* BasicInsertRemoveMixin *)
InsertEntry(c, sub, k, v) ==
    IF Has(c, sub, k) THEN Throw(c) ELSE [c EXCEPT ![sub] = Put(@, k, v)]

RemoveEntry(c, sub, k) ==
    IF Has(c, sub, k) THEN [c EXCEPT ![sub] = Drop(@, k)] ELSE Throw(c)

(* CacheFindIterator::get on a mutable iterator followed by a change of the value *)
UpdateEntry(c, sub, k, Change(_)) ==
    IF Has(c, sub, k) THEN [c EXCEPT ![sub][k] = Change(@)] ELSE Throw(c)

(* ActivePredicateMixin *)
IsActiveEntry(c, sub, k, height, IsActive(_, _)) ==
    Has(c, sub, k) /\ IsActive(c[sub][k], height)

-----------------------------------------------------------------------------
(* Identifiers grouped by the height at which they expire *)

AddIdentifierWithGroup(groups, height, id) ==
    Put(groups, height, (IF height \in DOMAIN groups THEN groups[height] ELSE {}) \cup {id})

RemoveIdentifierWithGroup(groups, height, id) ==
    IF height \notin DOMAIN groups THEN groups
    ELSE IF groups[height] \ {id} = {} THEN Drop(groups, height)
    ELSE [groups EXCEPT ![height] = @ \ {id}]

IdentifiersWithGroup(groups, height) ==
    IF height \in DOMAIN groups THEN groups[height] ELSE {}

(* The primary set silently ignores an identifier it no longer contains. *)
RemoveAllIdentifiersWithGroup(c, sub, groupsSub, height) ==
    [c EXCEPT ![sub] = Restrict(@, DOMAIN @ \ IdentifiersWithGroup(c[groupsSub], height)),
              ![groupsSub] = Drop(@, height)]

-----------------------------------------------------------------------------
(* Modes in which observers run (NotifyMode) *)

Context(height, mode, blockTime) == [Height |-> height, Mode |-> mode, BlockTime |-> blockTime]
IsCommit(x) == x.Mode = "Commit"

ShouldPrune(x, interval) == IsCommit(x) /\ x.Height % interval = 0

ShouldLink(action, x) == IF IsCommit(x) THEN action = "Link" ELSE action = "Unlink"

(* CreateCacheBlockPruningObserver: Prune(c, h) is the cache's own pruning. *)
CacheBlockPruningObserver(x, interval, gracePeriod, c, Prune(_, _)) ==
    IF ShouldPrune(x, interval) /\ x.Height > gracePeriod
    THEN Prune(c, x.Height - gracePeriod)
    ELSE c

-----------------------------------------------------------------------------
(* Core notifications *)

AccountAddressNotification(address) == [Type |-> "AccountAddress", Address |-> address]

AccountPublicKeyNotification(key) == [Type |-> "AccountPublicKey", PublicKey |-> key]

BalanceTransferNotification(sender, recipient, mosaicId, amount, amountType) ==
    [Type |-> "BalanceTransfer", Sender |-> sender, Recipient |-> recipient,
     MosaicId |-> mosaicId, Amount |-> amount, TransferAmountType |-> amountType]

BalanceDebitNotification(sender, mosaicId, amount) ==
    [Type |-> "BalanceDebit", Sender |-> sender, MosaicId |-> mosaicId, Amount |-> amount]

BlockNotification(block, totalFee, numTransactions) ==
    [Type |-> "Block", Signer |-> block.Signer, Beneficiary |-> block.Beneficiary,
     Timestamp |-> block.Timestamp, FeeMultiplier |-> block.FeeMultiplier,
     TotalFee |-> totalFee, NumTransactions |-> numTransactions]

TransactionNotification(signer, hash, type, deadline) ==
    [Type |-> "Transaction", Signer |-> signer, TransactionHash |-> hash,
     TransactionType |-> type, Deadline |-> deadline]

TransactionDeadlineNotification(deadline, maxLifetime) ==
    [Type |-> "TransactionDeadline", Deadline |-> deadline, MaxLifetime |-> maxLifetime]

TransactionFeeNotification(signer, size, fee, maxFee) ==
    [Type |-> "TransactionFee", Signer |-> signer, TransactionSize |-> size,
     Fee |-> fee, MaxFee |-> maxFee]

SignatureNotification(signer) == [Type |-> "Signature", Signer |-> signer]

AddressInteractionNotification(source, type, addresses, keys) ==
    [Type |-> "AddressInteraction", Source |-> source, TransactionType |-> type,
     ParticipantsByAddress |-> addresses, ParticipantsByKey |-> keys]

MosaicRequiredNotification(signer, mosaicId, flags, mosaicType) ==
    [Type |-> "MosaicRequired", Signer |-> signer, MosaicId |-> mosaicId,
     PropertyFlagMask |-> flags, ProvidedMosaicType |-> mosaicType]
=============================================================================

-------------------------------- MODULE Locks --------------------------------
(***************************************************************************)
(* The hash lock and secret lock plugins.  A hash lock holds the funds     *)
(* that vouch for a bonded aggregate and is released when the aggregate is *)
(* confirmed; a secret lock is released by a proof of its secret.  A lock  *)
(* that expires unused pays the harvester of the block (hash lock) or its  *)
(* creator (secret lock).                                                  *)
(*                                                                         *)
(* A secret lock's composite hash is the pair <<secret, recipient>>.       *)
(***************************************************************************)
EXTENDS AccountStates

CONSTANTS LockedFundsPerAggregate, MaxHashLockDuration, MaxSecretLockDuration

-----------------------------------------------------------------------------
(* Lock infos and their cache: sub is "hashLocks" or "secretLocks", groups its height grouping *)

LockInfo(sender, mosaicId, amount, endHeight, recipient, algorithm) ==
    [SenderPublicKey |-> sender, MosaicId |-> mosaicId, Amount |-> amount, EndHeight |-> endHeight,
     Status |-> "Unused", RecipientAddress |-> recipient, HashAlgorithm |-> algorithm]

IsActiveLock(lock, height) == height < lock.EndHeight /\ lock.Status = "Unused"

InsertLock(c, sub, groups, key, lock) ==
    LET inserted == InsertEntry(c, sub, key, lock)
    IN  [inserted EXCEPT ![groups] = AddIdentifierWithGroup(@, lock.EndHeight, key)]

RemoveLock(c, sub, groups, key) ==
    IF Has(c, sub, key)
    THEN RemoveEntry([c EXCEPT ![groups] = RemoveIdentifierWithGroup(@, c[sub][key].EndHeight, key)], sub, key)
    ELSE Throw(c)

UnusedExpiredLocks(c, sub, groups, height) ==
    {key \in IdentifiersWithGroup(c[groups], height) :
        Has(c, sub, key) /\ c[sub][key].Status = "Unused"}

(* LockStatusAccountBalanceObserver, with the destination looked up in the account cache *)
LockStatusAccountBalanceObserver(x, c, sub, key, Destination(_), Find(_, _)) ==
    LET lock == c[sub][key]
        account == Destination(lock)
        marked(status) == [c EXCEPT ![sub][key].Status = status]
    IN  IF ~Has(c, sub, key) \/ ~Find(c, account) THEN Throw(c)
        ELSE IF IsCommit(x) THEN Credit(marked("Used"), account, lock.MosaicId, lock.Amount)
        ELSE Debit(marked("Unused"), account, lock.MosaicId, lock.Amount)

(* ExpiredLockInfoObserver *)
ExpiredLockInfoObserver(x, c, sub, groups, Owner(_)) ==
    LET Settle(key, d) ==
            LET lock == d[sub][key]
            IN  IF ~FindByKey(d, Owner(lock)) THEN Throw(d)
                ELSE IF IsCommit(x) THEN Credit(d, Owner(lock), lock.MosaicId, lock.Amount)
                ELSE Debit(d, Owner(lock), lock.MosaicId, lock.Amount)
    IN  FoldSet(Settle, c, UnusedExpiredLocks(c, sub, groups, x.Height))

-----------------------------------------------------------------------------
(* Notifications and transactions *)

LockDurationNotification(type, duration) == [Type |-> type, Duration |-> duration]

HashLockMosaicNotification(mosaic) == [Type |-> "HashLockMosaic", Mosaic |-> mosaic]

HashLockNotification(signer, mosaic, duration, hash) ==
    [Type |-> "HashLock", Signer |-> signer, Mosaic |-> mosaic, Duration |-> duration, Hash |-> hash]

SecretLockNotification(signer, mosaic, duration, algorithm, secret, recipient) ==
    [Type |-> "SecretLock", Signer |-> signer, Mosaic |-> mosaic, Duration |-> duration,
     HashAlgorithm |-> algorithm, Secret |-> secret, Recipient |-> recipient]

ProofSecretNotification(algorithm, secret, proof) ==
    [Type |-> "ProofSecret", HashAlgorithm |-> algorithm, Secret |-> secret, Proof |-> proof]

ProofPublicationNotification(signer, algorithm, secret, recipient) ==
    [Type |-> "ProofPublication", Signer |-> signer, HashAlgorithm |-> algorithm,
     Secret |-> secret, Recipient |-> recipient]

HashLockTransaction(signer, mosaic, duration, hash) ==
    [Type |-> "HashLock", Signer |-> signer, Mosaic |-> mosaic, Duration |-> duration, Hash |-> hash]

SecretLockTransaction(signer, mosaic, duration, algorithm, secret, recipient) ==
    [Type |-> "SecretLock", Signer |-> signer, Mosaic |-> mosaic, Duration |-> duration,
     HashAlgorithm |-> algorithm, Secret |-> secret, RecipientAddress |-> recipient]

SecretProofTransaction(signer, algorithm, secret, recipient, proof) ==
    [Type |-> "SecretProof", Signer |-> signer, HashAlgorithm |-> algorithm, Secret |-> secret,
     RecipientAddress |-> recipient, Proof |-> proof]

PublishHashLock(tx) ==
    <<LockDurationNotification("HashLockDuration", tx.Duration),
      HashLockMosaicNotification(tx.Mosaic),
      BalanceDebitNotification(tx.Signer, tx.Mosaic.MosaicId, tx.Mosaic.Amount),
      HashLockNotification(tx.Signer, tx.Mosaic, tx.Duration, tx.Hash)>>

(* The transfer of nothing puts the lock before the validators of mosaic transfers. *)
PublishSecretLock(tx) ==
    <<AccountAddressNotification(tx.RecipientAddress),
      LockDurationNotification("SecretLockDuration", tx.Duration),
      AddressInteractionNotification(tx.Signer, tx.Type, {tx.RecipientAddress}, {}),
      BalanceDebitNotification(tx.Signer, tx.Mosaic.MosaicId, tx.Mosaic.Amount),
      SecretLockNotification(tx.Signer, tx.Mosaic, tx.Duration, tx.HashAlgorithm, tx.Secret, tx.RecipientAddress),
      BalanceTransferNotification(tx.Signer, tx.RecipientAddress, tx.Mosaic.MosaicId, 0, "Static")>>

PublishSecretProof(tx) ==
    <<ProofSecretNotification(tx.HashAlgorithm, tx.Secret, tx.Proof),
      ProofPublicationNotification(tx.Signer, tx.HashAlgorithm, tx.Secret, tx.RecipientAddress)>>

-----------------------------------------------------------------------------
(* Validators *)

LockDurationValidator(n, maxDuration) == 0 < n.Duration /\ n.Duration <= maxDuration

HashLockMosaicValidator(n, c) ==
    /\ n.Mosaic.Amount = LockedFundsPerAggregate
    /\ ResolveMosaic(c, n.Mosaic.MosaicId) = Currency

HashLockCacheUniqueValidator(n, c) == ~Has(c, "hashLocks", n.Hash)

AggregateHashPresentValidator(n, x, c) ==
    n.TransactionType = "AggregateBonded" =>
        IsActiveEntry(c, "hashLocks", n.TransactionHash, x.Height, IsActiveLock)

(* CalculateHash: a secret is the algorithm applied to the proof. *)
ProofSecretValidator(n) == n.Secret = <<n.HashAlgorithm, n.Proof>>

CompositeHash(n, c) == <<n.Secret, ResolveAddress(c, n.Recipient)>>

SecretLockCacheUniqueValidator(n, c) == ~Has(c, "secretLocks", CompositeHash(n, c))

ProofValidator(n, x, c) ==
    /\ IsActiveEntry(c, "secretLocks", CompositeHash(n, c), x.Height, IsActiveLock)
    /\ c.secretLocks[CompositeHash(n, c)].HashAlgorithm = n.HashAlgorithm

-----------------------------------------------------------------------------
(* Observers *)

HashLockObserver(n, x, c) ==
    IF IsCommit(x)
    THEN InsertLock(c, "hashLocks", "hashLockGroups", n.Hash,
             LockInfo(n.Signer, ResolveMosaic(c, n.Mosaic.MosaicId), n.Mosaic.Amount,
                      x.Height + n.Duration, NoKey, "none"))
    ELSE RemoveLock(c, "hashLocks", "hashLockGroups", n.Hash)

SecretLockObserver(n, x, c) ==
    IF IsCommit(x)
    THEN InsertLock(c, "secretLocks", "secretLockGroups", CompositeHash(n, c),
             LockInfo(n.Signer, ResolveMosaic(c, n.Mosaic.MosaicId), n.Mosaic.Amount,
                      x.Height + n.Duration, ResolveAddress(c, n.Recipient), n.HashAlgorithm))
    ELSE RemoveLock(c, "secretLocks", "secretLockGroups", CompositeHash(n, c))

CompletedAggregateObserver(n, x, c) ==
    IF n.TransactionType # "AggregateBonded" THEN c
    ELSE LockStatusAccountBalanceObserver(x, c, "hashLocks", n.TransactionHash,
             LAMBDA lock : lock.SenderPublicKey, FindByKey)

ProofObserver(n, x, c) ==
    LockStatusAccountBalanceObserver(x, c, "secretLocks", CompositeHash(n, c),
        LAMBDA lock : lock.RecipientAddress, FindByAddress)

ExpiredHashLockInfoObserver(n, x, c) ==
    ExpiredLockInfoObserver(x, c, "hashLocks", "hashLockGroups", LAMBDA lock : n.Signer)

ExpiredSecretLockInfoObserver(n, x, c) ==
    ExpiredLockInfoObserver(x, c, "secretLocks", "secretLockGroups", LAMBDA lock : lock.SenderPublicKey)

HashLockPruningObserver(x, c) ==
    CacheBlockPruningObserver(x, 1, MaxRollbackBlocks, c,
        LAMBDA d, height : RemoveAllIdentifiersWithGroup(d, "hashLocks", "hashLockGroups", height))

SecretLockPruningObserver(x, c) ==
    CacheBlockPruningObserver(x, 1, MaxRollbackBlocks, c,
        LAMBDA d, height : RemoveAllIdentifiersWithGroup(d, "secretLocks", "secretLockGroups", height))
=============================================================================

------------------------------ MODULE Multisigs ------------------------------
(***************************************************************************)
(* The multisig and aggregate plugins: the two-way graph of multisig       *)
(* accounts and cosignatories, and aggregates whose embedded transactions  *)
(* need the cosignatures the graph asks for.  Embedded transactions are    *)
(* transactions without the fields that only top level ones have.          *)
(***************************************************************************)
EXTENDS Mosaics

CONSTANTS MaxMultisigDepth, MaxCosignatoriesPerAccount, MaxCosignedAccountsPerAccount,
          MaxTransactionsPerAggregate, MaxCosignaturesPerAggregate, EnableStrictCosignatureCheck,
          MaxBondedTransactionLifetime

-----------------------------------------------------------------------------
(* Entries *)

MultisigEntry == [Cosignatories |-> {}, Multisigs |-> {}, MinApproval |-> 0, MinRemoval |-> 0]

GetMultisigEntry(c, key) ==
    IF Has(c, "multisigs", key) THEN c ELSE InsertEntry(c, "multisigs", key, MultisigEntry)

CosignatoriesOf(c, key) == IF Has(c, "multisigs", key) THEN c.multisigs[key].Cosignatories ELSE {}
MultisigsOf(c, key) == IF Has(c, "multisigs", key) THEN c.multisigs[key].Multisigs ELSE {}

RemoveIfEmpty(c, key) ==
    IF c.multisigs[key].Cosignatories = {} /\ c.multisigs[key].Multisigs = {}
    THEN RemoveEntry(c, "multisigs", key)
    ELSE c

(* FindAncestors and FindDescendants: the keys above or below, and the number of levels *)
LinkedKeys(c, key, direction) ==
    IF direction = "Ancestors" THEN MultisigsOf(c, key) ELSE CosignatoriesOf(c, key)

RECURSIVE FindAll(_, _, _)
FindAll(c, key, direction) ==
    UNION {{k} \cup FindAll(c, k, direction) : k \in LinkedKeys(c, key, direction)}

RECURSIVE NumLevels(_, _, _)
NumLevels(c, key, direction) ==
    Max({0} \cup {NumLevels(c, k, direction) + 1 : k \in LinkedKeys(c, key, direction)})

-----------------------------------------------------------------------------
(* Notifications and transactions *)

MultisigNewCosignatoryNotification(multisig, cosignatory) ==
    [Type |-> "MultisigNewCosignatory", MultisigAccountKey |-> multisig, CosignatoryKey |-> cosignatory]

MultisigCosignatoriesNotification(signer, modifications) ==
    [Type |-> "MultisigCosignatories", Signer |-> signer, Modifications |-> modifications]

MultisigSettingsNotification(signer, minRemovalDelta, minApprovalDelta) ==
    [Type |-> "MultisigSettings", Signer |-> signer,
     MinRemovalDelta |-> minRemovalDelta, MinApprovalDelta |-> minApprovalDelta]

AggregateCosignaturesNotification(tx) ==
    [Type |-> "AggregateCosignatures", Signer |-> tx.Signer, Transactions |-> tx.Transactions,
     Cosignatures |-> tx.Cosignatures]

AggregateEmbeddedTransactionNotification(tx, embedded) ==
    [Type |-> "AggregateEmbeddedTransaction", Signer |-> tx.Signer, Transaction |-> embedded,
     Cosignatures |-> tx.Cosignatures]

(* modifications: a sequence of [Action, Key] *)
MultisigAccountModificationTransaction(signer, minRemovalDelta, minApprovalDelta, modifications) ==
    [Type |-> "MultisigAccountModification", Signer |-> signer, MinRemovalDelta |-> minRemovalDelta,
     MinApprovalDelta |-> minApprovalDelta, Modifications |-> modifications]

AggregateTransaction(type, signer, transactions, cosignatures) ==
    [Type |-> type, Signer |-> signer, Transactions |-> transactions, Cosignatures |-> cosignatures]

(* TransactionAttributes::MaxLifetime: zero stands for the lifetime of the network. *)
MaxLifetimeOf(tx) == IF tx.Type = "AggregateBonded" THEN MaxBondedTransactionLifetime ELSE 0

Modified(modifications, action) ==
    {m.Key : m \in {n \in Range(modifications) : n.Action = action}}

PublishMultisigAccountModification(tx) ==
    LET added == SelectSeq(tx.Modifications, LAMBDA m : m.Action = "Add")
    IN  [i \in DOMAIN added |-> MultisigNewCosignatoryNotification(tx.Signer, added[i].Key)]
        \o (IF tx.Modifications = <<>> THEN << >>
            ELSE <<MultisigCosignatoriesNotification(tx.Signer, tx.Modifications)>>)
        \o (IF added = <<>> THEN << >>
            ELSE <<AddressInteractionNotification(tx.Signer, tx.Type, {}, Modified(added, "Add"))>>)
        \o <<MultisigSettingsNotification(tx.Signer, tx.MinRemovalDelta, tx.MinApprovalDelta)>>

(* Publish(_) is the publication of an embedded transaction by its own plugin. *)
PublishAggregate(tx, Publish(_)) ==
    <<AggregateCosignaturesNotification(tx)>>
    \o FlattenSeq([i \in DOMAIN tx.Transactions |->
            <<AccountPublicKeyNotification(tx.Transactions[i].Signer),
              AggregateEmbeddedTransactionNotification(tx, tx.Transactions[i])>>
            \o Publish(tx.Transactions[i])])
    \o [i \in DOMAIN tx.Cosignatures |-> SignatureNotification(tx.Cosignatures[i])]

(* ExtractAdditionalRequiredCosignatories of the embeddable transactions *)
AdditionalRequiredCosignatories(tx) ==
    IF tx.Type = "MultisigAccountModification" THEN Modified(tx.Modifications, "Add")
    ELSE IF tx.Type \in {"AccountMetadata", "MosaicMetadata", "NamespaceMetadata"} THEN {tx.TargetPublicKey}
    ELSE {}

-----------------------------------------------------------------------------
(* Validators *)

Cosigners(n) == {n.Signer} \cup Range(n.Cosignatures)

BasicAggregateCosignaturesValidator(n) ==
    /\ Len(n.Transactions) \in 1..MaxTransactionsPerAggregate
    /\ Len(n.Cosignatures) + 1 <= MaxCosignaturesPerAggregate
    /\ Cardinality(Cosigners(n)) = Len(n.Cosignatures) + 1

StrictAggregateCosignaturesValidator(n) ==
    EnableStrictCosignatureCheck => {t.Signer : t \in Range(n.Transactions)} = Cosigners(n)

MultisigPermittedOperationValidator(n, c) == CosignatoriesOf(c, n.Signer) = {}

MultisigCosignatoriesValidator(n) ==
    LET added == Modified(n.Modifications, "Add")
        removed == Modified(n.Modifications, "Del")
    IN  /\ added \cap removed = {}
        /\ Cardinality(removed) <= 1
        /\ Len(n.Modifications) = Cardinality(added) + Cardinality(removed)

MultisigMaxCosignedAccountsValidator(n, c) ==
    Cardinality(MultisigsOf(c, n.CosignatoryKey)) < MaxCosignedAccountsPerAccount

MultisigLoopAndLevelValidator(n, c) ==
    LET top == n.MultisigAccountKey
        bottom == n.CosignatoryKey
    IN  /\ NumLevels(c, top, "Ancestors") + NumLevels(c, bottom, "Descendants") + 1 <= MaxMultisigDepth
        /\ ({top} \cup FindAll(c, top, "Ancestors"))
               \cap ({bottom} \cup FindAll(c, bottom, "Descendants")) = {}

MultisigMaxCosignatoriesValidator(n, c) ==
    Cardinality(CosignatoriesOf(c, n.Signer)) + Cardinality(Modified(n.Modifications, "Add"))
        - Cardinality(Modified(n.Modifications, "Del")) <= MaxCosignatoriesPerAccount

MultisigInvalidCosignatoriesValidator(n, c) ==
    /\ Modified(n.Modifications, "Del") \subseteq CosignatoriesOf(c, n.Signer)
    /\ Modified(n.Modifications, "Add") \cap CosignatoriesOf(c, n.Signer) = {}

MultisigInvalidSettingsValidator(n, c) ==
    IF ~Has(c, "multisigs", n.Signer) THEN n.MinRemovalDelta = -1 /\ n.MinApprovalDelta = -1
    ELSE LET entry == c.multisigs[n.Signer]
             possible == 1..Cardinality(entry.Cosignatories)
         IN  /\ entry.MinRemoval + n.MinRemovalDelta \in possible
             /\ entry.MinApproval + n.MinApprovalDelta \in possible

(* The keys that may cosign for a key: itself, or the leaves below a multisig account *)
RECURSIVE EligibleCosignatories(_, _)
EligibleCosignatories(c, key) ==
    IF CosignatoriesOf(c, key) = {} THEN {key}
    ELSE UNION {EligibleCosignatories(c, k) : k \in CosignatoriesOf(c, key)}

MultisigAggregateEligibleCosignatoriesValidator(n, c) ==
    Cosigners(n) \subseteq
        UNION {UNION {EligibleCosignatories(c, k) : k \in {t.Signer} \cup AdditionalRequiredCosignatories(t)} :
               t \in Range(n.Transactions)}

OperationType(tx) ==
    IF tx.Type # "MultisigAccountModification" \/ Modified(tx.Modifications, "Del") = {} THEN "Normal"
    ELSE IF Modified(tx.Modifications, "Add") = {} THEN "Removal" ELSE "Max"

MinRequiredCosignatories(entry, operation) ==
    IF operation = "Max" THEN Max({entry.MinRemoval, entry.MinApproval})
    ELSE IF operation = "Removal" THEN entry.MinRemoval ELSE entry.MinApproval

RECURSIVE IsSatisfied(_, _, _, _)
IsSatisfied(c, cosigners, key, operation) ==
    IF CosignatoriesOf(c, key) = {} THEN key \in cosigners
    ELSE Cardinality({k \in CosignatoriesOf(c, key) : IsSatisfied(c, cosigners, k, operation)})
             >= MinRequiredCosignatories(c.multisigs[key], operation)

MultisigAggregateSufficientCosignatoriesValidator(n, c) ==
    \A key \in {n.Transaction.Signer} \cup AdditionalRequiredCosignatories(n.Transaction) :
        IsSatisfied(c, Cosigners(n), key, OperationType(n.Transaction))

-----------------------------------------------------------------------------
(* Observers *)

AddCosignatory(c, multisig, cosignatory) ==
    [GetMultisigEntry(c, cosignatory) EXCEPT
        !.multisigs[cosignatory].Multisigs = @ \cup {multisig},
        !.multisigs[multisig].Cosignatories = @ \cup {cosignatory}]

(* Mutant: the account that is no longer a cosignatory keeps its link. *)
RemoveCosignatoryKeepsLink(c, multisig, cosignatory) ==
    IF ~Has(c, "multisigs", cosignatory) THEN Throw(c)
    ELSE [c EXCEPT !.multisigs[multisig].Cosignatories = @ \ {cosignatory}]

RemoveCosignatory(c, multisig, cosignatory) ==
    IF ~Has(c, "multisigs", cosignatory) THEN Throw(c)
    ELSE RemoveIfEmpty([c EXCEPT !.multisigs[multisig].Cosignatories = @ \ {cosignatory},
                                 !.multisigs[cosignatory].Multisigs = @ \ {multisig}], cosignatory)

MultisigCosignatoriesObserver(n, x, c) ==
    LET Modify(d, m) == IF (m.Action = "Add") = IsCommit(x) THEN AddCosignatory(d, n.Signer, m.Key)
                        ELSE RemoveCosignatory(d, n.Signer, m.Key)
    IN  RemoveIfEmpty(FoldLeft(Modify, GetMultisigEntry(c, n.Signer), n.Modifications), n.Signer)

AddDelta(value, delta) == (value + delta + 256) % 256

MultisigSettingsObserver(n, x, c) ==
    LET direction == IF IsCommit(x) THEN 1 ELSE -1
    IN  IF ~Has(c, "multisigs", n.Signer) /\ IsCommit(x) THEN c
        ELSE [GetMultisigEntry(c, n.Signer) EXCEPT
                 !.multisigs[n.Signer].MinApproval = AddDelta(@, direction * n.MinApprovalDelta),
                 !.multisigs[n.Signer].MinRemoval = AddDelta(@, direction * n.MinRemovalDelta)]
=============================================================================

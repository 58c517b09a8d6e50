-------------------------- MODULE AccountRestrictions --------------------------
(***************************************************************************)
(* The account restriction plugin: per account, for each directional       *)
(* restriction type, either a list of allowed or a list of blocked values. *)
(***************************************************************************)
EXTENDS Metadata

CONSTANT MaxAccountRestrictionValues

RestrictionTypes == {"Address", "AddressOutgoing", "MosaicId", "TransactionTypeOutgoing"}

(* The restriction transaction whose blocking would lock the account out *)
RelevantEntityType == "AccountOperationRestriction"

-----------------------------------------------------------------------------
(* Entries *)

AccountRestriction == [Operation |-> "Block", Values |-> {}]
EmptyAccountRestrictions == [type \in RestrictionTypes |-> AccountRestriction]
IsEmptyRestrictions(restrictions) == \A type \in RestrictionTypes : restrictions[type].Values = {}

UpdateValues(values, m) == IF m.Action = "Add" THEN values \cup {m.Value} ELSE values \ {m.Value}

(* AccountRestriction::allow and AccountRestriction::block *)
AllowRestriction(restriction, m) ==
    LET values == UpdateValues(restriction.Values, m)
    IN  [Operation |-> IF values = {} THEN "Block" ELSE "Allow", Values |-> values]

BlockRestriction(restriction, m) ==
    [Operation |-> "Block", Values |-> UpdateValues(restriction.Values, m)]

IsOperationAllowed(restriction, m, operation) ==
    /\ restriction.Values = {} \/ restriction.Operation = operation
    /\ (m.Action = "Add") = (m.Value \notin restriction.Values)

RestrictionOf(c, address, type) ==
    IF Has(c, "accountRestrictions", address) THEN c.accountRestrictions[address][type] ELSE AccountRestriction

(* AccountRestrictionView::isAllowed; no entry restricts nothing *)
IsAllowed(c, address, type, value) ==
    LET restriction == RestrictionOf(c, address, type)
    IN  \/ restriction.Values = {}
        \/ (restriction.Operation = "Allow") = (value \in restriction.Values)

-----------------------------------------------------------------------------
(* Notifications and transactions *)

AccountRestrictionTypeNotification(type) == [Type |-> "AccountRestrictionType", RestrictionType |-> type]

ModifyAccountRestrictionNotification(key, type, operation, modifications) ==
    [Type |-> "ModifyAccountRestriction", Key |-> key, RestrictionType |-> type, Operation |-> operation,
     Modifications |-> modifications]

ModifyAccountRestrictionValueNotification(key, type, operation, modification) ==
    [Type |-> "ModifyAccountRestrictionValue", Key |-> key, RestrictionType |-> type, Operation |-> operation,
     Modification |-> modification]

(* type: AccountAddressRestriction, AccountMosaicRestriction or AccountOperationRestriction;
   modifications: a sequence of [Action, Value] *)
AccountRestrictionTransaction(type, signer, restrictionType, operation, modifications) ==
    [Type |-> type, Signer |-> signer, RestrictionType |-> restrictionType, Operation |-> operation,
     Modifications |-> modifications]

PublishAccountRestriction(tx) ==
    <<AccountRestrictionTypeNotification(tx.RestrictionType),
      ModifyAccountRestrictionNotification(tx.Signer, tx.RestrictionType, tx.Operation, tx.Modifications)>>
    \o [i \in DOMAIN tx.Modifications |->
            ModifyAccountRestrictionValueNotification(
                tx.Signer, tx.RestrictionType, tx.Operation, tx.Modifications[i])]

-----------------------------------------------------------------------------
(* Validators *)

AccountRestrictionTypeValidator(n) == n.RestrictionType \in RestrictionTypes

(* The comparison is with the unresolved address. *)
AccountAddressRestrictionNoSelfModificationValidator(n) ==
    n.RestrictionType \in {"Address", "AddressOutgoing"} => n.Modification.Value # n.Key

RedundantModificationValidator(n, c) ==
    /\ Cardinality({m.Value : m \in Range(n.Modifications)}) = Len(n.Modifications)
    /\ (\E m \in Range(n.Modifications) : m.Action = "Del") => Has(c, "accountRestrictions", n.Key)

ResolveRestrictionValue(c, type, value) ==
    IF type = "MosaicId" THEN ResolveMosaic(c, value)
    ELSE IF type = "TransactionTypeOutgoing" THEN value
    ELSE ResolveAddress(c, value)

ResolvedModification(n, c) ==
    [n.Modification EXCEPT !.Value = ResolveRestrictionValue(c, n.RestrictionType, @)]

ValueModificationValidator(n, c) ==
    Has(c, "accountRestrictions", n.Key) =>
        IsOperationAllowed(c.accountRestrictions[n.Key][n.RestrictionType], ResolvedModification(n, c), n.Operation)

(* The number of values is unsigned: below zero it is larger than every maximum. *)
MaxAccountRestrictionValuesValidator(n, c) ==
    LET Count(action) == Len(SelectSeq(n.Modifications, LAMBDA m : m.Action = action))
    IN  /\ Len(n.Modifications) <= MaxAccountRestrictionValues
        /\ Has(c, "accountRestrictions", n.Key) =>
               Cardinality(c.accountRestrictions[n.Key][n.RestrictionType].Values) + Count("Add") - Count("Del")
                   \in 0..MaxAccountRestrictionValues

(* Mutant: only blocking the relevant type is rejected, not allowing another one first. *)
NoSelfBlockingIgnoresAllow(n, c) ==
    n.RestrictionType = "TransactionTypeOutgoing" /\ n.Modification.Value = RelevantEntityType =>
        (n.Modification.Action = "Del") # (n.Operation = "Allow")

AccountOperationRestrictionNoSelfBlockingValidator(n, c) ==
    LET isRelevant == n.Modification.Value = RelevantEntityType
        isAllow == n.Operation = "Allow"
    IN  n.RestrictionType = "TransactionTypeOutgoing" =>
            IF n.Modification.Action = "Del" THEN ~(isAllow /\ isRelevant)
            ELSE /\ ~(isAllow /\ ~isRelevant /\ RestrictionOf(c, n.Key, n.RestrictionType).Values = {})
                 /\ ~(~isAllow /\ isRelevant)

IsInteractionAllowed(c, source, participant) ==
    \/ source = participant
    \/ IsAllowed(c, participant, "Address", source) /\ IsAllowed(c, source, "AddressOutgoing", participant)

AddressInteractionValidator(n, c) ==
    /\ \A a \in n.ParticipantsByAddress : IsInteractionAllowed(c, n.Source, ResolveAddress(c, a))
    /\ \A k \in n.ParticipantsByKey : IsInteractionAllowed(c, n.Source, k)

MosaicRecipientValidator(n, c) ==
    IsAllowed(c, ResolveAddress(c, n.Recipient), "MosaicId", ResolveMosaic(c, n.MosaicId))

OperationRestrictionValidator(n, c) ==
    IsAllowed(c, n.Signer, "TransactionTypeOutgoing", n.TransactionType)

-----------------------------------------------------------------------------
(* Observer *)

InvertModificationAction(action) == IF action = "Add" THEN "Del" ELSE "Add"

ValueModificationObserver(n, x, c) ==
    LET Directed(m) == IF IsCommit(x) THEN m ELSE [m EXCEPT !.Action = InvertModificationAction(@)]
        known == IF Has(c, "accountRestrictions", n.Key) THEN c
                 ELSE InsertEntry(c, "accountRestrictions", n.Key, EmptyAccountRestrictions)
        Changed(m) == [known EXCEPT !.accountRestrictions[n.Key][n.RestrictionType] =
                           IF n.Operation = "Allow" THEN AllowRestriction(@, m) ELSE BlockRestriction(@, m)]
        DropEmpty(d) == IF IsEmptyRestrictions(d.accountRestrictions[n.Key])
                        THEN RemoveEntry(d, "accountRestrictions", n.Key)
                        ELSE d
    IN  DropEmpty(Changed(Directed(ResolvedModification(n, c))))
=============================================================================

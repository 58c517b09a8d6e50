------------------------------- MODULE Mosaics -------------------------------
(***************************************************************************)
(* The mosaic plugin: definitions, which an owner may modify while the     *)
(* supply is zero, and supplies.  A modification is a delta: flags and     *)
(* divisibility are combined by exclusive or, the duration is added.       *)
(* Flags are sets of flag names.                                           *)
(***************************************************************************)
EXTENDS Locks, Bitwise

CONSTANTS MosaicIds, MaxMosaics, MaxMosaicDuration, MaxDivisibility, MaxAtomicUnits, MosaicRentalFee

-----------------------------------------------------------------------------
(* Definitions and their cache *)

MosaicProperties(flags, divisibility, duration) ==
    [flags |-> flags, divisibility |-> divisibility, duration |-> duration]

MosaicDefinition(startHeight, owner, revision, properties) ==
    [startHeight |-> startHeight, ownerPublicKey |-> owner, revision |-> revision,
     properties |-> properties]

MosaicEntry(definition) == [definition |-> definition, supply |-> 0]

IsEternal(definition) == definition.properties.duration = Eternal_Artifact_Duration
GetExpiryHeight(definition) == definition.startHeight + definition.properties.duration

IsActiveMosaic(entry, height) ==
    \/ IsEternal(entry.definition)
    \/ entry.definition.startHeight <= height /\ height < GetExpiryHeight(entry.definition)

InsertMosaic(c, id, entry) ==
    LET inserted == InsertEntry(c, "mosaics", id, entry)
    IN  IF IsEternal(entry.definition) THEN inserted
        ELSE [inserted EXCEPT !.mosaicGroups =
                 AddIdentifierWithGroup(@, GetExpiryHeight(entry.definition), id)]

RemoveMosaic(c, id) ==
    LET definition == c.mosaics[id].definition
        ungrouped == IF ~Has(c, "mosaics", id) \/ IsEternal(definition) THEN c
                     ELSE [c EXCEPT !.mosaicGroups =
                              RemoveIdentifierWithGroup(@, GetExpiryHeight(definition), id)]
    IN  RemoveEntry(ungrouped, "mosaics", id)

(* ActiveMosaicView::tryGet, without and with the owner *)
IsActiveMosaicId(c, id, height) == IsActiveEntry(c, "mosaics", id, height, IsActiveMosaic)

IsActiveMosaicOf(c, id, height, owner) ==
    IsActiveMosaicId(c, id, height) /\ c.mosaics[id].definition.ownerPublicKey = owner

-----------------------------------------------------------------------------
(* Notifications and transactions *)

MosaicPropertiesNotification(properties) == [Type |-> "MosaicProperties", Properties |-> properties]

MosaicDefinitionNotification(signer, id, properties) ==
    [Type |-> "MosaicDefinition", Signer |-> signer, MosaicId |-> id, Properties |-> properties]

MosaicSupplyChangeNotification(signer, id, action, delta) ==
    [Type |-> "MosaicSupplyChange", Signer |-> signer, MosaicId |-> id, Action |-> action, Delta |-> delta]

MosaicDefinitionTransaction(signer, id, properties) ==
    [Type |-> "MosaicDefinition", Signer |-> signer, Id |-> id, Properties |-> properties]

MosaicSupplyChangeTransaction(signer, id, action, delta) ==
    [Type |-> "MosaicSupplyChange", Signer |-> signer, MosaicId |-> id, Action |-> action, Delta |-> delta]

(* The nonce and the id derived from it are abstracted to the id. *)
PublishMosaicDefinition(tx) ==
    <<AccountPublicKeyNotification(SinkAccount)>>
    \o (IF tx.Signer = NemesisAccount THEN << >>
        ELSE <<BalanceTransferNotification(tx.Signer, SinkAccount, Currency, MosaicRentalFee, "Dynamic")>>)
    \o <<MosaicPropertiesNotification(tx.Properties),
         MosaicDefinitionNotification(tx.Signer, tx.Id, tx.Properties)>>

PublishMosaicSupplyChange(tx) ==
    <<MosaicRequiredNotification(tx.Signer, tx.MosaicId, {}, "Unresolved"),
      MosaicSupplyChangeNotification(tx.Signer, tx.MosaicId, tx.Action, tx.Delta)>>

-----------------------------------------------------------------------------
(* Validators *)

MosaicPropertiesValidator(n) ==
    n.Properties.divisibility <= MaxDivisibility /\ n.Properties.duration <= MaxMosaicDuration

MosaicAvailabilityValidator(n, x, c) ==
    Has(c, "mosaics", n.MosaicId) =>
        LET entry == c.mosaics[n.MosaicId]
        IN  /\ IsActiveMosaicOf(c, n.MosaicId, x.Height, n.Signer)
            /\ \/ n.Properties.flags # {} \/ n.Properties.divisibility # 0
               \/ ~IsEternal(entry.definition) /\ n.Properties.duration # 0
            /\ entry.supply = 0

MosaicDurationValidator(n, c) ==
    n.Properties.duration # 0 /\ Has(c, "mosaics", n.MosaicId) =>
        LET current == c.mosaics[n.MosaicId].definition.properties.duration
        IN  current # 0 /\ current + n.Properties.duration <= MaxMosaicDuration

RequiredMosaicValidator(n, x, c) ==
    LET id == IF n.ProvidedMosaicType = "Unresolved" THEN ResolveMosaic(c, n.MosaicId) ELSE n.MosaicId
    IN  /\ IsActiveMosaicOf(c, id, x.Height, n.Signer)
        /\ n.PropertyFlagMask \subseteq c.mosaics[id].definition.properties.flags

MosaicSupplyChangeValidator(n) == n.Delta # 0

MosaicSupplyChangeAllowedValidator(n, c) ==
    LET id == ResolveMosaic(c, n.MosaicId)
        entry == c.mosaics[id]
        ownerAmount == BalanceOf(c.accounts[n.Signer], id)
    IN  /\ "Supply_Mutable" \in entry.definition.properties.flags \/ ownerAmount = entry.supply
        /\ IF n.Action = "Decrease" THEN ownerAmount >= n.Delta
           ELSE entry.supply + n.Delta <= MaxAtomicUnits

(* MaxMosaicsValidator's CheckAccount *)
HasRoomForMosaic(c, account, id) ==
    BalanceOf(c.accounts[account], id) # 0
        \/ Cardinality(DOMAIN c.accounts[account].Balances) < MaxMosaics

MaxMosaicsBalanceTransferValidator(n, c) ==
    n.Amount # 0 =>
        HasRoomForMosaic(c, ResolveAddress(c, n.Recipient), ResolveMosaic(c, n.MosaicId))

MaxMosaicsSupplyChangeValidator(n, c) ==
    n.Action # "Decrease" => HasRoomForMosaic(c, n.Signer, ResolveMosaic(c, n.MosaicId))

MosaicTransferValidator(n, x, c) ==
    n.MosaicId # Currency =>
        LET id == ResolveMosaic(c, n.MosaicId)
            definition == c.mosaics[id].definition
        IN  /\ IsActiveMosaicId(c, id, x.Height)
            /\ \/ "Transferable" \in definition.properties.flags
               \/ definition.ownerPublicKey \in {n.Sender, ResolveAddress(c, n.Recipient)}

-----------------------------------------------------------------------------
(* Observers *)

FlagsXor(lhs, rhs) == (lhs \ rhs) \cup (rhs \ lhs)

MergeProperties(current, delta, x) ==
    MosaicProperties(FlagsXor(current.flags, delta.flags),
                     current.divisibility ^^ delta.divisibility,
                     IF IsCommit(x) THEN current.duration + delta.duration
                     ELSE current.duration - delta.duration)

MosaicDefinitionObserver(n, x, c) ==
    LET current == c.mosaics[n.MosaicId].definition
        revised == MosaicDefinition(current.startHeight, n.Signer,
                                    IF IsCommit(x) THEN current.revision + 1 ELSE current.revision - 1,
                                    MergeProperties(current.properties, n.Properties, x))
    IN  IF ~Has(c, "mosaics", n.MosaicId)
        THEN InsertMosaic(c, n.MosaicId, MosaicEntry(MosaicDefinition(x.Height, n.Signer, 1, n.Properties)))
        ELSE IF ~IsCommit(x) /\ current.revision = 1
        THEN RemoveMosaic(c, n.MosaicId)
        ELSE InsertMosaic(RemoveMosaic(c, n.MosaicId), n.MosaicId, MosaicEntry(revised))

MosaicSupplyChangeObserver(n, x, c) ==
    LET id == ResolveMosaic(c, n.MosaicId)
        increase == IsCommit(x) <=> n.Action = "Increase"
    IN  IF ~FindByKey(c, n.Signer) \/ ~Has(c, "mosaics", id) THEN Throw(c)
        ELSE IF increase THEN Credit([c EXCEPT !.mosaics[id].supply = @ + n.Delta], n.Signer, id, n.Delta)
        ELSE IF n.Delta > c.mosaics[id].supply THEN Throw(c)
        ELSE Debit([c EXCEPT !.mosaics[id].supply = @ - n.Delta], n.Signer, id, n.Delta)
=============================================================================

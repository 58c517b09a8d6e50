------------------------------- MODULE Metadata -------------------------------
(***************************************************************************)
(* The metadata plugin.  A value is a sequence of bytes (bits are enough   *)
(* here); a transaction carries the exclusive or of the old and the new    *)
(* value, zero extended, and the change of the size.                       *)
(***************************************************************************)
EXTENDS AccountLinks

CONSTANT MaxValueSize

MetadataKey(source, target, scopedKey, type, id) ==
    [Source |-> source, Target |-> target, ScopedKey |-> scopedKey, MetadataType |-> type, Id |-> id]

-----------------------------------------------------------------------------
(* Values *)

CanTrim(value, buffer, count) ==
    /\ Len(value) = Len(buffer) /\ count <= Len(value)
    /\ \A i \in (Len(buffer) - count + 1)..Len(buffer) : value[i] = buffer[i]

UpdateValue(value, buffer) ==
    [i \in DOMAIN buffer |-> IF i <= Len(value) THEN (value[i] + buffer[i]) % 2 ELSE buffer[i]]

-----------------------------------------------------------------------------
(* Notifications and transactions *)

MetadataSizesNotification(valueSizeDelta, value) ==
    [Type |-> "MetadataSizes", ValueSizeDelta |-> valueSizeDelta, ValueSize |-> Len(value)]

MetadataValueNotification(key, valueSizeDelta, value) ==
    [Type |-> "MetadataValue", Key |-> key, ValueSizeDelta |-> valueSizeDelta, Value |-> value]

MetadataTransaction(type, signer, target, scopedKey, id, valueSizeDelta, value) ==
    [Type |-> type, Signer |-> signer, TargetPublicKey |-> target, ScopedMetadataKey |-> scopedKey,
     Id |-> id, ValueSizeDelta |-> valueSizeDelta, Value |-> value]

PublishMetadata(tx) ==
    <<MetadataSizesNotification(tx.ValueSizeDelta, tx.Value),
      MetadataValueNotification(
          MetadataKey(tx.Signer, tx.TargetPublicKey, tx.ScopedMetadataKey, tx.Type, tx.Id),
          tx.ValueSizeDelta, tx.Value)>>
    \o CASE tx.Type = "AccountMetadata" -> << >>
         [] tx.Type = "MosaicMetadata" ->
                <<MosaicRequiredNotification(tx.TargetPublicKey, tx.Id, {}, "Unresolved")>>
         [] tx.Type = "NamespaceMetadata" -> <<NamespaceRequiredNotification(tx.TargetPublicKey, tx.Id)>>

-----------------------------------------------------------------------------
(* Validators *)

MetadataSizesValidator(n) ==
    /\ n.ValueSize \in 1..MaxValueSize
    /\ n.ValueSizeDelta \in (0 - n.ValueSize)..n.ValueSize

ResolveMetadataKey(key, c) ==
    IF key.MetadataType = "MosaicMetadata" THEN [key EXCEPT !.Id = ResolveMosaic(c, @)] ELSE key

MetadataValueValidator(n, c) ==
    LET key == ResolveMetadataKey(n.Key, c)
        value == c.metadata[key]
        size == Len(n.Value)
    IN  IF ~Has(c, "metadata", key) THEN n.ValueSizeDelta = size
        ELSE /\ Len(value) = IF n.ValueSizeDelta > 0 THEN size - n.ValueSizeDelta ELSE size
             /\ n.ValueSizeDelta < 0 => CanTrim(value, n.Value, 0 - n.ValueSizeDelta)

-----------------------------------------------------------------------------
(* Observer *)

UpdateMetadata(c, key, buffer) ==
    IF ~Has(c, "metadata", key) THEN InsertEntry(c, "metadata", key, UpdateValue(<<>>, buffer))
    ELSE IF buffer = <<>> THEN RemoveEntry(c, "metadata", key)
    ELSE [c EXCEPT !.metadata[key] = UpdateValue(@, buffer)]

(* A shrinking change is applied up to the new size, an undone growing change up to the old. *)
MetadataValueObserver(n, x, c) ==
    LET delta == n.ValueSizeDelta
        size == IF IsCommit(x) THEN Len(n.Value) + Min({delta, 0}) ELSE Len(n.Value) - Max({delta, 0})
    IN  UpdateMetadata(c, ResolveMetadataKey(n.Key, c), SubSeq(n.Value, 1, size))
=============================================================================

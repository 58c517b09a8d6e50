--------------------------- MODULE MosaicRestrictions ---------------------------
(***************************************************************************)
(* The mosaic restriction plugin: global rules of a mosaic, by restriction *)
(* key, and the values an address has for those keys.  A transaction       *)
(* carries the previous and the new value, so that it can be undone.       *)
(* c.globalRestrictions and c.addressRestrictions hold the two kinds of    *)
(* entries of the one mosaic restriction cache.                            *)
(***************************************************************************)
EXTENDS AccountRestrictions

CONSTANT MaxMosaicRestrictionValues

NoMosaic == "no mosaic"                 \* the zero mosaic id
Sentinel_Removal_Value == 99            \* larger than every value that is used

RestrictionRule(reference, value, type) ==
    [ReferenceMosaicId |-> reference, RestrictionValue |-> value, RestrictionType |-> type]

-----------------------------------------------------------------------------
(* Notifications and transactions *)

MosaicRestrictionRequiredNotification(mosaicId, key) ==
    [Type |-> "MosaicRestrictionRequired", MosaicId |-> mosaicId, RestrictionKey |-> key]

(* value: "PreviousValue" or "NewValue" *)
MosaicGlobalRestrictionModificationNotification(value, mosaicId, reference, key, restrictionValue, type) ==
    [Type |-> "MosaicGlobalRestrictionModification" , Which |-> value, MosaicId |-> mosaicId,
     RestrictionKey |-> key, Rule |-> RestrictionRule(reference, restrictionValue, type)]

MosaicAddressRestrictionModificationNotification(value, mosaicId, key, target, restrictionValue) ==
    [Type |-> "MosaicAddressRestrictionModification", Which |-> value, MosaicId |-> mosaicId,
     RestrictionKey |-> key, TargetAddress |-> target, RestrictionValue |-> restrictionValue]

(* previous and new: <<value, type>> *)
MosaicGlobalRestrictionTransaction(signer, mosaicId, reference, key, previous, new) ==
    [Type |-> "MosaicGlobalRestriction", Signer |-> signer, MosaicId |-> mosaicId,
     ReferenceMosaicId |-> reference, RestrictionKey |-> key, Previous |-> previous, New |-> new]

MosaicAddressRestrictionTransaction(signer, mosaicId, key, target, previous, new) ==
    [Type |-> "MosaicAddressRestriction", Signer |-> signer, MosaicId |-> mosaicId,
     RestrictionKey |-> key, TargetAddress |-> target, Previous |-> previous, New |-> new]

PublishMosaicGlobalRestriction(tx) ==
    LET Modification(which, value) ==
            MosaicGlobalRestrictionModificationNotification(
                which, tx.MosaicId, tx.ReferenceMosaicId, tx.RestrictionKey, value[1], value[2])
    IN  <<MosaicRequiredNotification(tx.Signer, tx.MosaicId, {"Restrictable"}, "Unresolved")>>
        \o (IF tx.ReferenceMosaicId = NoMosaic THEN << >>
            ELSE <<MosaicRestrictionRequiredNotification(tx.ReferenceMosaicId, tx.RestrictionKey)>>)
        \o <<Modification("PreviousValue", tx.Previous), Modification("NewValue", tx.New)>>

PublishMosaicAddressRestriction(tx) ==
    LET Modification(which, value) ==
            MosaicAddressRestrictionModificationNotification(
                which, tx.MosaicId, tx.RestrictionKey, tx.TargetAddress, value)
    IN  <<MosaicRequiredNotification(tx.Signer, tx.MosaicId, {"Restrictable"}, "Unresolved"),
          MosaicRestrictionRequiredNotification(tx.MosaicId, tx.RestrictionKey),
          Modification("PreviousValue", tx.Previous), Modification("NewValue", tx.New)>>

-----------------------------------------------------------------------------
(* The two notification facades *)

ToRule(n, c) == [n.Rule EXCEPT !.ReferenceMosaicId = ResolveMosaic(c, @)]

Facade(n, c) ==
    LET id == ResolveMosaic(c, n.MosaicId)
    IN  IF n.Type = "MosaicGlobalRestrictionModification"
        THEN [Sub |-> "globalRestrictions", Key |-> id, Rule |-> ToRule(n, c),
              IsDelete |-> n.Rule.RestrictionType = "NONE",
              IsUnset |-> ToRule(n, c) = RestrictionRule(NoMosaic, 0, "NONE")]
        ELSE [Sub |-> "addressRestrictions", Key |-> <<id, ResolveAddress(c, n.TargetAddress)>>,
              Rule |-> n.RestrictionValue,
              IsDelete |-> n.RestrictionValue = Sentinel_Removal_Value,
              IsUnset |-> n.RestrictionValue = Sentinel_Removal_Value]

(* The rules of an entry, none when there is no entry *)
RulesOf(c, sub, key) == IF Has(c, sub, key) THEN c[sub][key] ELSE << >>

-----------------------------------------------------------------------------
(* Validators *)

MosaicRestrictionRequiredValidator(n, c) ==
    n.RestrictionKey \in DOMAIN RulesOf(c, "globalRestrictions", ResolveMosaic(c, n.MosaicId))

MosaicRestrictionMaxValuesValidator(n, c) ==
    LET Allows(f, keys) ==
            IF f.IsDelete THEN n.RestrictionKey \in keys
            ELSE \/ ~Has(c, f.Sub, f.Key)
                 \/ n.RestrictionKey \in keys
                 \/ Cardinality(keys) < MaxMosaicRestrictionValues
        Check(f) == Allows(f, DOMAIN RulesOf(c, f.Sub, f.Key))
    IN  n.Which = "NewValue" => Check(Facade(n, c))

MosaicRestrictionModificationValidator(n, c) ==
    LET Matches(f, rules) ==
            IF n.RestrictionKey \in DOMAIN rules THEN rules[n.RestrictionKey] = f.Rule ELSE f.IsUnset
        Check(f) == Matches(f, RulesOf(c, f.Sub, f.Key))
    IN  n.Which = "PreviousValue" => Check(Facade(n, c))

Evaluate(rule, value) ==
    CASE rule.RestrictionType = "EQ" -> rule.RestrictionValue = value
      [] rule.RestrictionType = "NE" -> rule.RestrictionValue # value
      [] rule.RestrictionType = "LT" -> rule.RestrictionValue > value
      [] rule.RestrictionType = "LE" -> rule.RestrictionValue >= value
      [] rule.RestrictionType = "GT" -> rule.RestrictionValue < value
      [] rule.RestrictionType = "GE" -> rule.RestrictionValue <= value
      [] OTHER -> FALSE

EvaluateMosaicRestriction(rule, value) ==
    IF value = Sentinel_Removal_Value THEN rule.RestrictionType = "NE" ELSE Evaluate(rule, value)

(* GetMosaicGlobalRestrictionResolvedRules: a rule without a reference refers to the mosaic itself. *)
ResolvedRules(c, mosaicId) ==
    LET rules == RulesOf(c, "globalRestrictions", mosaicId)
    IN  [key \in DOMAIN rules |->
            [rules[key] EXCEPT !.ReferenceMosaicId = IF @ = NoMosaic THEN mosaicId ELSE @]]

(* EvaluateMosaicRestrictionResolvedRulesForAddress *)
IsAuthorized(c, resolvedRules, address) ==
    \A key \in DOMAIN resolvedRules :
        LET rule == resolvedRules[key]
            values == RulesOf(c, "addressRestrictions", <<rule.ReferenceMosaicId, address>>)
        IN  EvaluateMosaicRestriction(
                rule, IF key \in DOMAIN values THEN values[key] ELSE Sentinel_Removal_Value)

(* ProcessMosaicRules: no rules allow everything, a rule that refers to its own mosaic nothing *)
MosaicRestrictionBalanceValidator(unresolvedMosaicId, addresses, c) ==
    LET mosaicId == ResolveMosaic(c, unresolvedMosaicId)
        rules == RulesOf(c, "globalRestrictions", mosaicId)
    IN  /\ \A key \in DOMAIN rules : rules[key].ReferenceMosaicId # mosaicId
        /\ \A address \in addresses : IsAuthorized(c, ResolvedRules(c, mosaicId), address)

-----------------------------------------------------------------------------
(* Observer *)

SetRule(rules, key, f) == IF f.IsDelete THEN Drop(rules, key) ELSE Put(rules, key, f.Rule)

(* Committing observes the new value and undoing the previous one. *)
MosaicRestrictionModificationObserver(n, x, c) ==
    LET Apply(f, rules) ==
            IF ~Has(c, f.Sub, f.Key) THEN InsertEntry(c, f.Sub, f.Key, rules)
            ELSE IF rules = << >> THEN RemoveEntry(c, f.Sub, f.Key)
            ELSE [c EXCEPT ![f.Sub][f.Key] = rules]
        Modify(f) == Apply(f, SetRule(RulesOf(c, f.Sub, f.Key), n.RestrictionKey, f))
    IN  IF n.Which = (IF IsCommit(x) THEN "NewValue" ELSE "PreviousValue") THEN Modify(Facade(n, c)) ELSE c
=============================================================================

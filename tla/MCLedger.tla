------------------------------- MODULE MCLedger -------------------------------
(***************************************************************************)
(* The networks on which LedgerChain is checked.  Each has the             *)
(* transactions of one plugin, or of two that interact, and a nemesis      *)
(* block that gives two harvesters, a and b, what these need.              *)
(***************************************************************************)
EXTENDS LedgerChain

Mosaic(id, amount) == [MosaicId |-> id, Amount |-> amount]
Top(tx, hash) == TopLevel(tx, hash, 8, 2)
Until(tx, hash, deadline) == TopLevel(tx, hash, deadline, 2)
Header(signer, beneficiary, multiplier) ==
    [Signer |-> signer, Beneficiary |-> beneficiary, FeeMultiplier |-> multiplier]

MCAddresses == {"nemesis", "sink", "a", "b", "d", "e"}
MCMosaicIds == {"cur", "har", "gold"}
MCNamespaceIds == {"root", "child", "grandchild"}
MCIdOrder == <<"cur", "gold", "har", "root", "child", "grandchild">>

-----------------------------------------------------------------------------
(* Nemesis blocks *)

Distribution ==
    LET Nemesis(tx, i) == TopLevel(tx, <<"nemesis", i>>, 1, 0)
        properties == MosaicProperties({"Supply_Mutable", "Transferable"}, 0, 0)
    IN  <<Nemesis(MosaicDefinitionTransaction("nemesis", "cur", properties), 1),
          Nemesis(MosaicSupplyChangeTransaction("nemesis", "cur", "Increase", 60), 2),
          Nemesis(MosaicDefinitionTransaction("nemesis", "har", properties), 3),
          Nemesis(MosaicSupplyChangeTransaction("nemesis", "har", "Increase", 100), 4),
          Nemesis(TransferTransaction("nemesis", "a", <<Mosaic("cur", 30), Mosaic("har", 60)>>), 5),
          Nemesis(TransferTransaction("nemesis", "b", <<Mosaic("cur", 30), Mosaic("har", 40)>>), 6)>>

GoldOf(owner, flags, supply) ==
    <<TopLevel(MosaicDefinitionTransaction(owner, "gold", MosaicProperties(flags, 0, 0)), <<"nemesis", 7>>, 1, 0),
      TopLevel(MosaicSupplyChangeTransaction(owner, "gold", "Increase", supply), <<"nemesis", 8>>, 1, 0)>>

MCNemesisOf(net) ==
    Distribution \o
    CASE net \in {"metadata", "account restrictions"} -> GoldOf("a", {"Transferable"}, 2)
      [] net = "mosaic restrictions" -> GoldOf("a", {"Transferable", "Restrictable"}, 2)
      [] net = "settings" -> <<TopLevel(TransferTransaction("a", "d", <<Mosaic("cur", 5)>>), <<"nemesis", 7>>, 1, 0)>>
      [] net = "harvest" ->              \* a owns a namespace, and e is known by its address only
             <<TopLevel(RootNamespaceTransaction("a", "root", Eternal_Artifact_Duration), <<"nemesis", 7>>, 1, 0),
               TopLevel(TransferTransaction("nemesis", "e", << >>), <<"nemesis", 8>>, 1, 0)>>
      [] OTHER -> << >>

-----------------------------------------------------------------------------
(* Transactions *)

Transfers ==
    {Until(TransferTransaction("a", "d", <<Mosaic("cur", 3)>>), "t1", 3),
     Until(TransferTransaction("d", "b", <<Mosaic("cur", 1)>>), "t2", 5),
     Until(TransferTransaction("a", "b", <<Mosaic("cur", 1), Mosaic("har", 55)>>), "t3", 4),
     Until(TransferTransaction("b", "a", <<Mosaic("har", 55)>>), "t4", 5)}

Links ==
    {Top(AccountLinkTransaction("a", "d", "Link"), "l1"),
     Top(AccountLinkTransaction("a", "d", "Unlink"), "l2"),
     Top(AccountLinkTransaction("b", "d", "Link"), "l3"),
     Top(TransferTransaction("d", "b", << >>), "l4"),
     Top(TransferTransaction("b", "d", << >>), "l5")}

Bonded == Top(AggregateTransaction("AggregateBonded", "a", <<TransferTransaction("a", "b", <<Mosaic("cur", 1)>>)>>, <<>>), "bonded")
SecretOf(proof) == <<"sha3", proof>>

Locks_ ==
    {Top(HashLockTransaction("b", Mosaic("cur", 4), 2, "bonded"), "h1"), Bonded,
     Top(SecretLockTransaction("a", Mosaic("cur", 5), 2, "sha3", SecretOf(1), "d"), "s1"),
     Top(SecretProofTransaction("b", "sha3", SecretOf(1), "d", 1), "s2")}

(* a renews its namespace before it expires; in "expired namespaces" a registers it again. *)
Namespaces_ ==
    {Until(RootNamespaceTransaction("a", "root", 2), "n1", 2),
     Until(RootNamespaceTransaction("a", "root", 3), "n2", 4),
     Top(RootNamespaceTransaction("b", "root", 2), "n3"),
     Until(ChildNamespaceTransaction("a", "child", "root"), "n4", 3),
     Until(AliasTransaction("AddressAlias", "a", "child", "Link", "b"), "n5", 4),
     Until(TransferTransaction("a", "child", <<Mosaic("cur", 1)>>), "n6", 5)}

(* b cannot pay for u2 and u3; e, known by its address only, cannot pay at all. *)
Unconfirmed ==
    {TopLevel(TransferTransaction("a", "d", <<Mosaic("cur", 1)>>), "u1", 8, 1),
     TopLevel(TransferTransaction("b", "a", <<Mosaic("cur", 20)>>), "u2", 8, 2),
     TopLevel(TransferTransaction("b", "a", <<Mosaic("cur", 10)>>), "u3", 8, 4),
     TopLevel(TransferTransaction("b", "d", <<Mosaic("cur", 40)>>), "u4", 8, 4),
     TopLevel(TransferTransaction("e", "a", << >>), "u5", 8, 2)}

(* Transactions that leave something in the facade when they are undone, and some that come after them *)
Undoable ==
    LET Modify(signer, delta, modifications) ==
            MultisigAccountModificationTransaction(signer, delta, delta, modifications)
        Aggregate(signer, txs, cosignatures) == AggregateTransaction("AggregateComplete", signer, txs, cosignatures)
    IN  {TopLevel(AccountLinkTransaction("a", "e", "Link"), "v1", 8, 1),
         TopLevel(TransferTransaction("b", "d", <<Mosaic("cur", 40)>>), "v2", 8, 4),
         TopLevel(AliasTransaction("AddressAlias", "a", "root", "Link", "d"), "v3", 8, 3),
         TopLevel(Aggregate("a", <<Modify("a", -1, << >>), TransferTransaction("a", "b", <<Mosaic("cur", 40)>>)>>, << >>),
                  "v4", 8, 4),
         TopLevel(Aggregate("a", <<Modify("a", 0, <<[Action |-> "Add", Key |-> "b"]>>)>>, <<"b">>), "v5", 8, 4),
         TopLevel(Aggregate("b", <<Modify("b", 1, <<[Action |-> "Add", Key |-> "a"]>>)>>, <<"a">>), "v6", 8, 4)}

MCTransactionsOf(net) ==
    CASE net = "transfers" -> Transfers
      [] net = "links" -> Links
      [] net = "locks" -> Locks_
      [] net = "namespaces" -> Namespaces_
      [] net = "expired namespaces" ->
             {Top(RootNamespaceTransaction("a", "root", 1), "n1"),
              Top(ChildNamespaceTransaction("a", "child", "root"), "n2"),
              Top(RootNamespaceTransaction("a", "root", 2), "n3")}
      [] net = "settings" ->
             {Top(AggregateTransaction("AggregateComplete", "a",
                      <<MultisigAccountModificationTransaction("a", -1, -1, << >>)>>, << >>), "g1"),
              Top(AggregateTransaction("AggregateComplete", "a",
                      <<MultisigAccountModificationTransaction("a", 1, 1, <<[Action |-> "Add", Key |-> "b"]>>)>>, <<"b">>), "g2"),
              Top(AggregateTransaction("AggregateComplete", "b",
                      <<MultisigAccountModificationTransaction("a", -1, -1, <<[Action |-> "Del", Key |-> "b"]>>)>>, << >>), "g3"),
              Top(AggregateTransaction("AggregateComplete", "d",
                      <<MultisigAccountModificationTransaction("d", 1, 1, <<[Action |-> "Add", Key |-> "a"]>>)>>, <<"a">>), "g4")}
      [] net = "harvest" -> {}
      [] net = "mosaics" ->
             {Top(MosaicDefinitionTransaction("a", "gold", MosaicProperties({"Supply_Mutable"}, 1, 2)), "m1"),
              Top(MosaicDefinitionTransaction("a", "gold", MosaicProperties({"Transferable"}, 2, 1)), "m2"),
              Top(MosaicSupplyChangeTransaction("a", "gold", "Increase", 2), "m3"),
              Top(MosaicSupplyChangeTransaction("a", "gold", "Decrease", 2), "m4"),
              Top(TransferTransaction("a", "b", <<Mosaic("gold", 1)>>), "m5")}
      [] net = "multisigs" ->
             {Top(AggregateTransaction("AggregateComplete", "a",
                      <<MultisigAccountModificationTransaction("a", 1, 1, <<[Action |-> "Add", Key |-> "b"]>>)>>, <<"b">>), "g1"),
              Top(AggregateTransaction("AggregateComplete", "b",
                      <<MultisigAccountModificationTransaction("a", 1, 1, <<[Action |-> "Add", Key |-> "d"]>>)>>, <<"d">>), "g2"),
              Top(AggregateTransaction("AggregateComplete", "b",
                      <<MultisigAccountModificationTransaction("a", -1, -1, <<[Action |-> "Del", Key |-> "b"]>>)>>, << >>), "g3"),
              Top(AggregateTransaction("AggregateComplete", "b",
                      <<MultisigAccountModificationTransaction("b", 1, 1, <<[Action |-> "Add", Key |-> "d"]>>)>>, <<"d">>), "g4")}
      [] net = "metadata" ->
             {Top(AggregateTransaction("AggregateComplete", "b",
                      <<MetadataTransaction("MosaicMetadata", "b", "a", 1, "gold", 2, <<1, 1>>)>>, <<"a">>), "d1"),
              Top(AggregateTransaction("AggregateComplete", "b",
                      <<MetadataTransaction("MosaicMetadata", "b", "a", 1, "gold", -1, <<1, 1>>)>>, <<"a">>), "d2"),
              Top(AggregateTransaction("AggregateComplete", "b",
                      <<MetadataTransaction("MosaicMetadata", "b", "a", 1, "gold", 1, <<0, 1>>)>>, <<"a">>), "d3"),
              Top(AggregateTransaction("AggregateComplete", "b",
                      <<MetadataTransaction("MosaicMetadata", "b", "a", 1, "gold", -1, <<0>>)>>, <<"a">>), "d4")}
      [] net = "account restrictions" ->
             {Top(AccountRestrictionTransaction("AccountAddressRestriction", "b", "Address", "Allow",
                      <<[Action |-> "Add", Value |-> "d"]>>), "r1"),
              Top(AccountRestrictionTransaction("AccountOperationRestriction", "b", "TransactionTypeOutgoing", "Allow",
                      <<[Action |-> "Add", Value |-> "AccountOperationRestriction"], [Action |-> "Add", Value |-> "Transfer"]>>), "r2"),
              Top(AccountRestrictionTransaction("AccountOperationRestriction", "b", "TransactionTypeOutgoing", "Allow",
                      <<[Action |-> "Del", Value |-> "Transfer"]>>), "r3"),
              Top(AccountRestrictionTransaction("AccountMosaicRestriction", "b", "MosaicId", "Block",
                      <<[Action |-> "Add", Value |-> "gold"]>>), "r4"),
              Top(AccountRestrictionTransaction("AccountOperationRestriction", "b", "TransactionTypeOutgoing", "Allow",
                      <<[Action |-> "Add", Value |-> "Transfer"]>>), "r5"),
              Top(TransferTransaction("a", "b", <<Mosaic("gold", 1)>>), "r6")}
      [] net = "mosaic restrictions" ->
             {Top(MosaicGlobalRestrictionTransaction("a", "gold", NoMosaic, 1,
                      <<0, "NONE">>, <<1, "EQ">>), "x1"),
              Top(MosaicAddressRestrictionTransaction("a", "gold", 1, "a", Sentinel_Removal_Value, 1), "x2"),
              Top(MosaicAddressRestrictionTransaction("a", "gold", 1, "b", Sentinel_Removal_Value, 1), "x3"),
              Top(MosaicAddressRestrictionTransaction("a", "gold", 1, "b", 1, Sentinel_Removal_Value), "x4"),
              Top(TransferTransaction("a", "b", <<Mosaic("gold", 1)>>), "x5")}

MCHeadersOf(net) ==
    CASE net = "transfers" -> {Header("a", "b", 1), Header("b", "b", 0)}
      [] net = "links" -> {Header("a", "a", 0), Header("d", "a", 1)}
      [] net = "harvest" -> {Header("a", "a", 1)}
      [] net = "namespaces" -> {Header("a", "a", 2)}
      [] OTHER -> {Header("b", "b", 1)}

MCBlockSizesOf(net) == IF net \in {"namespaces", "expired namespaces", "mosaics"} THEN 0..2 ELSE 0..1
MCMaxHeightOf(net) ==
    CASE net \in {"locks", "namespaces"} -> 7
      [] net = "harvest" -> 3
      [] net \in {"links", "settings", "account restrictions"} -> 5
      [] OTHER -> 6
MCUnconfirmedOf(net) ==
    CASE net = "harvest" ->
             UNION {SetToSeqs(S) : S \in kSubset(3, Unconfirmed) \cup kSubset(2, Undoable)}
      [] OTHER -> {}
MCStrategiesOf(net) == {"Oldest", "Minimize_Fee", "Maximize_Fee"}
MCNetworks == {"transfers", "links", "locks", "namespaces", "expired namespaces", "mosaics", "multisigs",
               "settings", "metadata", "account restrictions", "mosaic restrictions", "harvest"}
=============================================================================

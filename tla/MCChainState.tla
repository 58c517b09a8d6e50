-------------------------- MODULE MCChainState --------------------------
(* Transaction c needs a and cannot follow b, b pays less than this node   *)
(* asks for, and c is bonded.  The local chain has two light blocks, so    *)
(* that a peer can replace it by one heavy block.                          *)
EXTENDS ChainState

MCTxs == {"a", "b", "c", "d"}
MCNewTxs == {"b", "c"}
MCLowFee == {"b"}
MCBonded == {"c"}
MCRequires == [t \in MCTxs |-> IF t = "c" THEN {"a"} ELSE {}]
MCExcludes == [t \in MCTxs |-> IF t = "c" THEN {"b"} ELSE {}]
MCHome == [t \in MCTxs |-> IF t = "a" THEN 1 ELSE 2]

Block(txs, weight) == [txs |-> txs, weight |-> weight]

AC == <<Block(<<"a">>, 1), Block(<<"c">>, 1)>>
D == <<Block(<<"d">>, 3)>>
DA == <<Block(<<"d">>, 3), Block(<<"a">>, 2)>>
B == <<Block(<<"b">>, 4)>>
Invalid == <<Block(<<"c">>, 4)>>

MCInitialChains == {AC}
MCPeerChains == {D, DA, B, Invalid}
MCHarvestWeights == {3}
=============================================================================

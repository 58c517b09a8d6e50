------------------------- MODULE MCChainSynchronizer --------------------------
EXTENDS ChainSynchronizer

\* Two branches above the nemesis block.
Fork(height) ==
    {<<"a">>} \cup UNION {{[i \in 1 .. h |-> "a"],
                           [i \in 1 .. h |-> IF i = 1 THEN "a" ELSE "b"]} : h \in 2 .. height}

ForkOfFour == Fork(4)

Uniform == [branch \in {"a", "b"} |-> 1]
===============================================================================

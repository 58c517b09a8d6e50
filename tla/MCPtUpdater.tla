------------------------------ MODULE MCPtUpdater ------------------------------
EXTENDS PtUpdater, TLC

\* All signers are needed; one alone is; no aggregate can be validated.
AllRequired == [eligible |-> Signers, required |-> Signers, fails |-> FALSE]
OneReplaced == {[eligible |-> {s}, required |-> {s}, fails |-> FALSE] : s \in Signers}
Broken == [eligible |-> Signers, required |-> Signers, fails |-> TRUE]

States == {AllRequired, Broken} \cup OneReplaced

\* One of the signers loses its right.
OneExcluded == {[AllRequired EXCEPT !.eligible = @ \ {s}, !.required = @ \ {s}] : s \in Signers}

Symmetry == Permutations(Signers) \cup Permutations(Transactions)
===============================================================================

---------------------------- MODULE MCSettlement ----------------------------
EXTENDS Settlement, TLC

OneBurn == {[position |-> 1, amount |-> 1]}

\* The validators clients call are interchangeable, and so are the recipients.
Symmetry == Permutations(Entry) \cup Permutations(Recipients)
=============================================================================

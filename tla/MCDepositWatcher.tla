-------------------------- MODULE MCDepositWatcher --------------------------
EXTENDS DepositWatcher

D(id, receipt, amount, token) == [id |-> id, receipt |-> receipt, amount |-> amount, token |-> token]

\* Two deposits to one receipt, and one to it with another amount.
SomeDeposits == {D(1, "r1", 1, "ours"), D(2, "r1", 1, "ours"), D(3, "r1", 2, "ours")}
Amounts == [r \in {"r1"} |-> 1]
=============================================================================

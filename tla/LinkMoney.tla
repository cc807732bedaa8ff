------------------------------ MODULE LinkMoney ------------------------------
(***************************************************************************)
(* What a Peal Links namespace promises, with nothing hidden: balances, and *)
(* payments that are owed until their receiver claims them once.  A deposit *)
(* creates one owed payment, a send moves balance into one, a claim moves   *)
(* one into balance.  A payment to Withdraw is owed for ever on the ledger: *)
(* the gateway pays it outside.                                             *)
(***************************************************************************)
EXTENDS Integers

CONSTANTS Accounts, Amounts, DepositIds, Withdraw,
          Ids           \* names of owed payments

VARIABLES bal,          \* account -> balance
          owed,         \* payment -> [amt, to], for the payments not yet claimed
          credited      \* deposits already turned into a payment

vars == <<bal, owed, credited>>

Init ==
    /\ bal = [a \in Accounts |-> 0]
    /\ owed = << >>
    /\ credited = {}

\* A new payment under a name no owed payment has.
Owe(p, v, to) ==
    /\ p \notin DOMAIN owed
    /\ owed' = [q \in DOMAIN owed \cup {p} |->
                    IF q = p THEN [amt |-> v, to |-> to] ELSE owed[q]]

Deposit(d, p, a, v) ==
    /\ d \notin credited
    /\ credited' = credited \cup {d}
    /\ Owe(p, v, a)
    /\ UNCHANGED bal

Send(a, p, to, v) ==
    /\ v <= bal[a]
    /\ bal' = [bal EXCEPT ![a] = @ - v]
    /\ Owe(p, v, to)
    /\ UNCHANGED credited

Claim(a, p) ==
    /\ p \in DOMAIN owed
    /\ owed[p].to = a
    /\ bal' = [bal EXCEPT ![a] = @ + owed[p].amt]
    /\ owed' = [q \in DOMAIN owed \ {p} |-> owed[q]]
    /\ UNCHANGED credited

Next ==
    \/ \E d \in DepositIds, p \in Ids, a \in Accounts, v \in Amounts : Deposit(d, p, a, v)
    \/ \E a \in Accounts, p \in Ids, v \in Amounts :
          \E to \in Accounts \cup {Withdraw} : Send(a, p, to, v)
    \/ \E a \in Accounts, p \in Ids : Claim(a, p)

Spec == Init /\ [][Next]_vars

=============================================================================

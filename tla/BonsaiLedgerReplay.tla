-------------------------- MODULE BonsaiLedgerReplay --------------------------
(***************************************************************************)
(* verify_replay: re-run the accepted history through a fresh ledger, and   *)
(* the reconciliation sum an operator runs against the gateway's reserves   *)
(* (crates/peal-bonsai/src/ledger.rs).                                      *)
(***************************************************************************)
EXTENDS BonsaiLedger, Functions

ASSUME AccountsAssumption == IsFiniteSet(Accounts)

Fresh == [accounts |-> [a \in Accounts |-> Unregistered], log |-> << >>,
          recent |-> RecentFromTree(<< >>), ids |-> {}, ok |-> TRUE]

Appended(s, leaf) ==
    [s EXCEPT !.log = Append(@, leaf),
              !.recent = PushRecent(@, Append(s.log, leaf))]

\* One history row through the fresh ledger; a row it would refuse clears ok.
ReplayOne(s, row) ==
    CASE row.kind = "register" ->
            [s EXCEPT !.accounts[row.account] = [bal |-> 0, claimed |-> {}, r |-> row.r],
                      !.ok = @ /\ s.accounts[row.account] = Unregistered]
      [] row.kind = "op" ->
            [Appended(s, row.env.receipt)
                EXCEPT !.accounts[row.env.account] = row.env.com_new,
                       !.ok = @ /\ OpPasses(s.accounts, s.recent, row.env)]
      [] row.kind = "mint" ->
            [Appended(s, row.receipt)
                EXCEPT !.ids = @ \cup {row.id},
                       !.ok = @ /\ row.id \notin s.ids]

Replayed[n \in 0 .. Len(ops)] == IF n = 0 THEN Fresh ELSE ReplayOne(Replayed[n - 1], ops[n])

verify_replay == Replayed[Len(ops)]

\* Replaying the whole accepted history accepts every row and lands on the
\* state the store holds: batched, retried and crashed application accept
\* exactly what one-by-one application would.
ReplayAgrees ==
    LET end == verify_replay IN
    /\ end.ok
    /\ end.accounts = accounts
    /\ end.log = receipts
    /\ end.ids = DOMAIN deposits

minted_total == SumFunction([d \in DOMAIN deposits |-> receipts[deposits[d]].amt])

\* Value is conserved: what was minted is exactly what accounts hold, what is
\* owed and unclaimed, and what was burned for withdrawal.
Conservation ==
    minted_total = SumFunction(BalanceOf) + SumFunction([p \in DOMAIN Owed |-> Owed[p].amt])

=============================================================================

---------------------------- MODULE MCBonsaiLedger ----------------------------
(* Small instances of the ledger for TLC: MCBonsaiLedger*.cfg.  Accounts,   *)
(* deposits and opening randomness are interchangeable.                     *)
EXTENDS BonsaiLedgerReplay, TLC

Symmetry == Permutations(Accounts) \cup Permutations(DepositIds) \cup Permutations(Rands)
=============================================================================

---------------------------- MODULE BonsaiLedger ----------------------------
(***************************************************************************)
(* The state transition function of one Peal Links namespace: account      *)
(* commitments, the append-only receipt log, the window of recent roots,   *)
(* the deposits already credited and the accepted history                  *)
(* (crates/peal-bonsai/src/ledger.rs).                                     *)
(*                                                                         *)
(* The sqlite store and the in-memory copy are separate variables: every   *)
(* accepted operation is one transaction, the tree and the window are      *)
(* moved before it, and a failed write or a restart rebuilds them.         *)
(*                                                                         *)
(* Commitments, receipts and roots are modelled by what they bind (hashes  *)
(* are injective): a commitment is the record it opens to, a root is the   *)
(* log prefix it digests.  Positions count from 1 (the code's from 0).     *)
(***************************************************************************)
EXTENDS Integers, Sequences, FiniteSets

CONSTANTS
    Accounts,       \* account identifiers A
    Amounts,        \* amounts a send or a deposit may name
    DepositIds,     \* full event identities of gateway deposits
    Rands,          \* opening randomness a client may use
    RootWindow,     \* LedgerConfig::root_window
    MaxPositions,   \* capacity of the receipt log
    MaxBalance,     \* the circuit's 64-bit range bound
    MaxSigned,      \* bound: envelopes a client may sign in one behaviour
    MintSender,     \* deposit.rs mint_sender(): no key derives it
    WithdrawReceiver, \* withdrawal.rs withdraw_receiver(): no key derives it
    Unregistered    \* no row in the accounts table

ASSUME ValueAssumption ==
    /\ Amounts \subseteq Nat
    /\ MaxBalance \in Nat
    /\ MaxPositions \in Nat
    /\ MaxSigned \in Nat
ASSUME WindowAssumption == RootWindow \in Nat
ASSUME IdentifierAssumption ==
    /\ MintSender \notin Accounts
    /\ WithdrawReceiver \notin Accounts
    /\ MintSender # WithdrawReceiver

Positions == 1 .. MaxPositions

\* Com_acct(b, root of the claimed set; r).
Commitments == [bal : 0 .. MaxBalance, claimed : SUBSET Positions, r : Rands]

ASSUME UnregisteredAssumption == Unregistered \notin Commitments

\* Com_rec(v, Sen, Rec, type; r''): type 1 is a payment, type 0 the dummy a
\* receive appends so that it looks like a send.
Parties == Accounts \cup {MintSender, WithdrawReceiver}
Leaves  == [real : BOOLEAN, amt : Amounts \cup {0}, from : Parties, to : Parties]
Dummy(a) == [real |-> FALSE, amt |-> 0, from |-> a, to |-> a]

Roots == Seq(Leaves)

Envelopes == [account : Accounts, com : Commitments, com_new : Commitments,
              receipt : Leaves, root : Roots]

\* Rows of the ops table.
Rows == [kind : {"register"}, account : Accounts, r : Rands]
          \cup [kind : {"op"}, env : Envelopes]
          \cup [kind : {"mint"}, id : DepositIds, receipt : Leaves]

VARIABLES
    accounts,   \* store: account -> current commitment
    receipts,   \* store: the receipt log
    deposits,   \* store: credited deposit id -> position of its receipt
    ops,        \* store: accepted history, seq = Len(ops)
    tree,       \* memory: the leaves of the ReceiptTree
    recent,     \* memory: the last RootWindow roots, oldest first
    batch,      \* memory: apply_batch's verified candidates still to apply
    net         \* envelopes signed so far, deliverable in any order, again

store == <<accounts, receipts, deposits, ops>>
memory == <<tree, recent, batch>>
vars == <<accounts, receipts, deposits, ops, tree, recent, batch, net>>

-----------------------------------------------------------------------------
(* The recent-root window *)

Window == IF RootWindow = 0 THEN 1 ELSE RootWindow

RootAt(log, size) == [i \in 1 .. size |-> log[i]]

\* Variant: the window keeps one root too many.
DroppedLate(len) == IF len > Window + 1 THEN len - Window - 1 ELSE 0

\* push_recent: newest last, oldest dropped beyond the window.
Dropped(len) == IF len > Window THEN len - Window ELSE 0

PushRecent(window, root) ==
    LET all == Append(window, root)
    IN  [i \in 1 .. (Len(all) - Dropped(Len(all))) |-> all[Dropped(Len(all)) + i]]

\* recent_from_tree: the roots at sizes from .. size.
From(size) == IF size >= Window - 1 THEN size - (Window - 1) ELSE 0

RecentFromTree(log) ==
    [i \in 1 .. (Len(log) - From(Len(log)) + 1) |-> RootAt(log, From(Len(log)) + i - 1)]

RootIsRecent(window, root) == \E i \in 1 .. Len(window) : window[i] = root

-----------------------------------------------------------------------------
(* The operation-hiding relation R_op *)

\* A send spends from the committed balance into a new payment receipt.
IsSend(env) ==
    /\ env.receipt.real
    /\ env.receipt.from = env.account
    /\ env.receipt.to \in Accounts \cup {WithdrawReceiver}
    /\ env.receipt.amt \in Amounts
    /\ env.receipt.amt <= env.com.bal
    /\ env.com_new.bal = env.com.bal - env.receipt.amt
    /\ env.com_new.claimed = env.com.claimed

\* A receive inserts an unclaimed position whose receipt, under the revealed
\* root, pays this account.
Claims(env, p) ==
    /\ p \in 1 .. Len(env.root)
    /\ env.root[p].real
    /\ env.root[p].to = env.account
    /\ p \notin env.com.claimed
    /\ env.com_new.bal = env.com.bal + env.root[p].amt
    /\ env.com_new.claimed = env.com.claimed \cup {p}

IsReceive(env) ==
    /\ env.receipt = Dummy(env.account)
    /\ \E p \in Positions : Claims(env, p)

ProofVerifies(env) == IsSend(env) \/ IsReceive(env)

\* Variant: the proof is checked, the account's current commitment is not.
OpPassesStale(accts, window, env) ==
    /\ accts[env.account] # Unregistered
    /\ RootIsRecent(window, env.root)
    /\ ProofVerifies(env)

\* Variant: the proof is not checked.
OpPassesUnproved(accts, window, env) ==
    /\ accts[env.account] # Unregistered
    /\ accts[env.account] = env.com
    /\ RootIsRecent(window, env.root)

\* The checks of apply before it writes: account known, commitment current,
\* root in the window, proof valid against the stored commitment.
OpPasses(accts, window, env) ==
    /\ accts[env.account] # Unregistered
    /\ accts[env.account] = env.com
    /\ RootIsRecent(window, env.root)
    /\ ProofVerifies(env)

-----------------------------------------------------------------------------
Init ==
    /\ accounts = [a \in Accounts |-> Unregistered]
    /\ receipts = << >>
    /\ deposits = << >>
    /\ ops = << >>
    /\ tree = << >>
    /\ recent = RecentFromTree(<< >>)
    /\ batch = << >>
    /\ net = {}

Idle == batch = << >>

\* Append in memory, then write: the transaction commits.
AppendReceipt(leaf) ==
    /\ Len(tree) < MaxPositions
    /\ tree' = Append(tree, leaf)
    /\ recent' = PushRecent(recent, tree')
    /\ receipts' = Append(receipts, leaf)

\* Append in memory, then write: the transaction fails and reload_tree
\* rebuilds tree and window from the store.
RollBackAppend ==
    /\ Len(tree) < MaxPositions
    /\ tree' = receipts
    /\ recent' = RecentFromTree(receipts)

register(a, r) ==
    /\ Idle
    /\ accounts[a] = Unregistered
    /\ accounts' = [accounts EXCEPT ![a] = [bal |-> 0, claimed |-> {}, r |-> r]]
    /\ ops' = Append(ops, [kind |-> "register", account |-> a, r |-> r])
    /\ UNCHANGED <<receipts, deposits, tree, recent, batch, net>>

\* The write of apply_verified.
WriteOp(env) ==
    /\ AppendReceipt(env.receipt)
    /\ accounts' = [accounts EXCEPT ![env.account] = env.com_new]
    /\ ops' = Append(ops, [kind |-> "op", env |-> env])
    /\ UNCHANGED deposits

apply(env) ==
    /\ Idle
    /\ OpPasses(accounts, recent, env)
    /\ WriteOp(env)
    /\ UNCHANGED <<batch, net>>

applyWriteFails(env) ==
    /\ Idle
    /\ OpPasses(accounts, recent, env)
    /\ RollBackAppend
    /\ UNCHANGED <<store, batch, net>>

Candidate(env) == IF OpPasses(accounts, recent, env) THEN <<env>> ELSE << >>

\* apply_batch, first half: admit and verify every envelope against the state
\* now; the candidates are applied one by one afterwards.
apply_batch(e1, e2) ==
    /\ Idle
    /\ batch' = Candidate(e1) \o Candidate(e2)
    /\ UNCHANGED <<store, tree, recent, net>>

\* Variants: a verified candidate is applied without looking at the account,
\* or at the window, again.
StillAppliesUnmoved(env) == RootIsRecent(recent, env.root)
StillAppliesOnce(env) == accounts[env.account] = env.com

\* apply_verified's re-check: the account has not moved and the root is still
\* recent at the moment of application.
StillApplies(env) ==
    /\ accounts[env.account] = env.com
    /\ RootIsRecent(recent, env.root)

BatchApply ==
    /\ batch # << >>
    /\ StillApplies(Head(batch))
    /\ WriteOp(Head(batch))
    /\ batch' = Tail(batch)
    /\ UNCHANGED net

BatchReject ==
    /\ batch # << >>
    /\ ~StillApplies(Head(batch)) \/ Len(tree) >= MaxPositions
    /\ batch' = Tail(batch)
    /\ UNCHANGED <<store, tree, recent, net>>

BatchWriteFails ==
    /\ batch # << >>
    /\ StillApplies(Head(batch))
    /\ RollBackAppend
    /\ batch' = Tail(batch)
    /\ UNCHANGED <<store, net>>

\* mint: credit a finalized deposit once, whoever the receipt pays.  R_dep
\* binds the receipt's amount to the observed one; it hides the account.
MintReceipt(a, v) == [real |-> TRUE, amt |-> v, from |-> MintSender, to |-> a]

\* Variant: the deposit's identity is not looked up first.
mintAgain(d, a, v) ==
    /\ Idle
    /\ AppendReceipt(MintReceipt(a, v))
    /\ deposits' = [x \in DOMAIN deposits \cup {d} |->
                        IF x = d THEN Len(receipts) + 1 ELSE deposits[x]]
    /\ ops' = Append(ops, [kind |-> "mint", id |-> d, receipt |-> MintReceipt(a, v)])
    /\ UNCHANGED <<accounts, batch, net>>

mint(d, a, v) ==
    /\ Idle
    /\ d \notin DOMAIN deposits
    /\ AppendReceipt(MintReceipt(a, v))
    /\ deposits' = [x \in DOMAIN deposits \cup {d} |->
                        IF x = d THEN Len(receipts) + 1 ELSE deposits[x]]
    /\ ops' = Append(ops, [kind |-> "mint", id |-> d, receipt |-> MintReceipt(a, v)])
    /\ UNCHANGED <<accounts, batch, net>>

mintWriteFails(d) ==
    /\ Idle
    /\ d \notin DOMAIN deposits
    /\ RollBackAppend
    /\ UNCHANGED <<store, batch, net>>

\* The process dies and init reopens the store.
Restart ==
    /\ tree' = receipts
    /\ recent' = RecentFromTree(receipts)
    /\ batch' = << >>
    /\ UNCHANGED <<store, net>>

-----------------------------------------------------------------------------
(* Clients: sign against the commitment the ledger holds and a recent root; *)
(* several envelopes may be signed from one commitment (two devices), and   *)
(* a client may sign an operation it cannot prove.                          *)

Envelope(a, root, com_new, receipt) ==
    [account |-> a, com |-> accounts[a], com_new |-> com_new,
     receipt |-> receipt, root |-> root]

SendEnvelope(a, root, to, v, r) ==
    Envelope(a, root, [bal |-> accounts[a].bal - v, claimed |-> accounts[a].claimed, r |-> r],
             [real |-> TRUE, amt |-> v, from |-> a, to |-> to])

ReceiveEnvelope(a, root, p, r) ==
    Envelope(a, root, [bal |-> accounts[a].bal + root[p].amt,
                       claimed |-> accounts[a].claimed \cup {p}, r |-> r], Dummy(a))

Sign(env) ==
    /\ Cardinality(net) < MaxSigned
    /\ env \in Envelopes
    /\ net' = net \cup {env}
    /\ UNCHANGED <<store, memory>>

signSend(a) ==
    /\ accounts[a] # Unregistered
    /\ \E i \in 1 .. Len(recent), to \in Accounts \cup {WithdrawReceiver},
          v \in Amounts, r \in Rands :
            /\ v <= accounts[a].bal
            /\ Sign(SendEnvelope(a, recent[i], to, v, r))

signReceive(a) ==
    /\ accounts[a] # Unregistered
    /\ \E i \in 1 .. Len(recent), r \in Rands : \E p \in 1 .. Len(recent[i]) :
            /\ recent[i][p].real /\ recent[i][p].to = a
            /\ p \notin accounts[a].claimed
            /\ Sign(ReceiveEnvelope(a, recent[i], p, r))

\* A claim of somebody else's receipt: no proof of it exists.
signUnprovable(a) ==
    /\ accounts[a] # Unregistered
    /\ \E i \in 1 .. Len(recent), r \in Rands : \E p \in 1 .. Len(recent[i]) :
            /\ recent[i][p].to # a
            /\ Sign(ReceiveEnvelope(a, recent[i], p, r))

-----------------------------------------------------------------------------
Next ==
    \/ \E a \in Accounts, r \in Rands : register(a, r)
    \/ \E env \in net : apply(env) \/ applyWriteFails(env)
    \/ \E e1, e2 \in net : apply_batch(e1, e2)
    \/ BatchApply \/ BatchReject \/ BatchWriteFails
    \/ \E d \in DepositIds, a \in Accounts, v \in Amounts : mint(d, a, v)
    \/ \E d \in DepositIds : mintWriteFails(d)
    \/ Restart
    \/ \E a \in Accounts : signSend(a) \/ signReceive(a) \/ signUnprovable(a)

Spec == Init /\ [][Next]_vars

-----------------------------------------------------------------------------
(* Properties *)

\* The type invariant: every variable holds what the store's schema and the
\* in-memory types allow.
TypeOK ==
    /\ accounts \in [Accounts -> Commitments \cup {Unregistered}]
    /\ receipts \in Seq(Leaves)
    /\ tree \in Seq(Leaves)
    /\ Len(receipts) <= MaxPositions
    /\ DOMAIN deposits \subseteq DepositIds
    /\ \A d \in DOMAIN deposits : deposits[d] \in 1 .. Len(receipts)
    /\ ops \in Seq(Rows)
    /\ batch \in Seq(Envelopes)
    /\ net \subseteq Envelopes

\* The in-memory tree and window are what a restart would rebuild from the
\* store, whatever writes failed before: the recent-root policy judges an
\* operation the same way with or without a crash in between.
MemoryIsStore ==
    /\ tree = receipts
    /\ recent = RecentFromTree(receipts)

\* An account only ever claims receipts that pay it, and the log still holds
\* them: the ledger stores no nullifiers, so this rests on every accepted
\* operation having spent from the account's current commitment.
ClaimsAreOwn ==
    \A a \in Accounts : accounts[a] # Unregistered =>
        \A p \in accounts[a].claimed :
            /\ p <= Len(receipts)
            /\ receipts[p].real
            /\ receipts[p].to = a

OpSeqs == {i \in 1 .. Len(ops) : ops[i].kind = "op"}
Claimed(i) == ops[i].env.com_new.claimed \ ops[i].env.com.claimed

\* No receipt is claimed by two accepted operations, of one account or of two,
\* however often and in whatever order their envelopes are delivered.
NoDoubleClaim ==
    \A i, j \in OpSeqs : i < j => Claimed(i) \cap Claimed(j) = {}

\* Both: a claim is of a payment to the claimer, and is made once
\* (apply_batch judges all its envelopes before it writes the first).
ClaimsAreSound == ClaimsAreOwn /\ NoDoubleClaim

MovesValue(env) ==
    \/ env.com_new.bal # env.com.bal
    \/ env.com_new.claimed # env.com.claimed

\* An envelope that moves value is accepted at most once, even when a client
\* reuses opening randomness: a commitment that was spent never comes back.
NoReplay ==
    \A i, j \in OpSeqs :
        i < j /\ ops[i].env = ops[j].env => ~MovesValue(ops[i].env)

\* Mint receipts and credited deposits correspond one to one: no deposit is
\* credited twice, and no mint receipt enters the log without its deposit.
DepositsMatchMints ==
    /\ \A d, e \in DOMAIN deposits : d # e => deposits[d] # deposits[e]
    /\ \A p \in 1 .. Len(receipts) :
          receipts[p].from = MintSender <=> \E d \in DOMAIN deposits : deposits[d] = p

\* The receipt log is append-only and an account's claimed set never shrinks:
\* a position handed to a client names the same receipt for ever.
KeepsReceiptsAndClaims ==
    /\ Len(receipts') >= Len(receipts)
    /\ \A p \in 1 .. Len(receipts) : receipts'[p] = receipts[p]
    /\ \A a \in Accounts : accounts[a] # Unregistered =>
          /\ accounts'[a] # Unregistered
          /\ accounts[a].claimed \subseteq accounts'[a].claimed

AppendOnly == [][KeepsReceiptsAndClaims]_vars

-----------------------------------------------------------------------------
(* The ledger implements LinkMoney: a payment is owed from the moment its   *)
(* receipt is appended until the receiver's claimed set holds its position. *)

BalanceOf == [a \in Accounts |-> IF accounts[a] = Unregistered THEN 0 ELSE accounts[a].bal]

IsClaimed(p) == \E a \in Accounts : accounts[a] # Unregistered /\ p \in accounts[a].claimed

Owed == [p \in {q \in 1 .. Len(receipts) : receipts[q].real /\ ~IsClaimed(q)} |->
            [amt |-> receipts[p].amt, to |-> receipts[p].to]]

Money == INSTANCE LinkMoney WITH
            bal <- BalanceOf, owed <- Owed, credited <- DOMAIN deposits,
            Withdraw <- WithdrawReceiver, Ids <- Positions

\* Every behaviour of the ledger is one of LinkMoney: hidden operations,
\* batches, failed writes and restarts move money only as a deposit, a send
\* or a claim would.
ImplementsLinkMoney == Money!Spec

=============================================================================

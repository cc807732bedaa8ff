--------------------------- MODULE BonsaiLedgerProofs ---------------------------
(***************************************************************************)
(* Theorems about the ledger, for every set of accounts and amounts, every  *)
(* window and every capacity.                                               *)
(***************************************************************************)
EXTENDS BonsaiLedgerReplay, SumTheorems, FiniteSetTheorems, TLAPS

-----------------------------------------------------------------------------
(* The recent-root window *)

\* What Append does to a typed sequence.
LEMMA AppendElements ==
  ASSUME NEW T, NEW q \in Seq(T), NEW x \in T
  PROVE  /\ Append(q, x) \in Seq(T)
         /\ Len(q) \in Nat /\ Len(Append(q, x)) = Len(q) + 1
         /\ \A i \in 1 .. Len(q) : Append(q, x)[i] = q[i]
         /\ Append(q, x)[Len(q) + 1] = x
  OBVIOUS

LEMMA WindowPositive == Window \in Nat \ {0}
  BY WindowAssumption DEF Window

\* A whole sequence is its own root.
LEMMA RootOfAll ==
  ASSUME NEW log \in Seq(Leaves)
  PROVE  RootAt(log, Len(log)) = log
  BY DEF RootAt

\* Appending a leaf changes no earlier root.
LEMMA RootsArePrefixes ==
  ASSUME NEW log \in Seq(Leaves), NEW leaf \in Leaves, NEW s \in 0 .. Len(log)
  PROVE  RootAt(Append(log, leaf), s) = RootAt(log, s)
  BY DEF RootAt

\* A function on 1 .. k is a sequence of length k.
LEMMA FunctionIsSequence ==
  ASSUME NEW T, NEW k \in Nat, NEW f \in [1 .. k -> T]
  PROVE  f \in Seq(T) /\ Len(f) = k
  OBVIOUS

\* The bounds of the window recent_from_tree builds.
LEMMA FromBounds ==
  ASSUME NEW n \in Nat
  PROVE  From(n) \in 0 .. n /\ n - From(n) + 1 \in Nat
  BY WindowPositive DEF From

\* One more leaf: what push_recent drops is what recent_from_tree skips.
LEMMA FromSuccessor ==
  ASSUME NEW n \in Nat
  PROVE  /\ Dropped(n - From(n) + 2) \in Nat
         /\ From(n) + Dropped(n - From(n) + 2) = From(n + 1)
PROOF
<1>1. CASE n >= Window - 1
  <2>1. From(n) = n - (Window - 1) /\ From(n + 1) = n + 1 - (Window - 1)
    BY <1>1, WindowPositive DEF From
  <2>2. n - From(n) + 2 = Window + 1
    BY <2>1, WindowPositive
  <2>3. Dropped(Window + 1) = 1
    BY WindowPositive DEF Dropped
  <2> QED BY <2>1, <2>2, <2>3, WindowPositive
<1>2. CASE n < Window - 1
  <2>1. From(n) = 0 /\ From(n + 1) = 0
    BY <1>2, WindowPositive DEF From
  <2>2. n - From(n) + 2 = n + 2 /\ n + 2 <= Window
    BY <2>1, <1>2, WindowPositive
  <2>3. Dropped(n + 2) = 0
    BY <2>2, WindowPositive DEF Dropped
  <2> QED BY <2>1, <2>2, <2>3
<1> QED BY <1>1, <1>2, WindowPositive

\* The two facts together, for the lengths before and after an append.
LEMMA WindowStep ==
  ASSUME NEW n \in Nat
  PROVE  LET k == n - From(n) + 1
             drop == Dropped(k + 1)
         IN  /\ From(n) \in 0 .. n /\ From(n + 1) \in 0 .. n + 1 /\ k \in Nat
             /\ drop \in Nat /\ From(n) + drop = From(n + 1)
             /\ k + 1 - drop = (n + 1) - From(n + 1) + 1
PROOF
<1> DEFINE k == n - From(n) + 1
           drop == Dropped(k + 1)
<1>1. From(n) \in 0 .. n /\ k \in Nat
  BY FromBounds
<1>2. n + 1 \in Nat
  OBVIOUS
<1>3. From(n + 1) \in 0 .. n + 1
  BY <1>2, FromBounds
<1>4. k + 1 = n - From(n) + 2
  BY <1>1
<1>5. drop \in Nat /\ From(n) + drop = From(n + 1)
  BY <1>4, FromSuccessor
<1>6. k + 1 - drop = (n + 1) - From(n + 1) + 1
  <2> HIDE DEF drop
  <2> QED BY <1>1, <1>3, <1>5
<1> QED BY <1>1, <1>3, <1>5, <1>6

\* recent_from_tree lists the roots of consecutive sizes, the whole log last.
LEMMA RecentFromTreeLists ==
  ASSUME NEW log \in Seq(Leaves)
  PROVE  /\ Len(RecentFromTree(log)) = Len(log) - From(Len(log)) + 1
         /\ \A i \in 1 .. Len(RecentFromTree(log)) :
              RecentFromTree(log)[i] = RootAt(log, From(Len(log)) + i - 1)
         /\ RecentFromTree(log) \in Seq({RootAt(log, s) : s \in 0 .. Len(log)})
PROOF
<1> DEFINE n == Len(log)
           k == n - From(n) + 1
           T == {RootAt(log, s) : s \in 0 .. n}
<1>1. n \in Nat /\ From(n) \in 0 .. n /\ k \in Nat
  BY FromBounds
<1>2. \A i \in 1 .. k : From(n) + i - 1 \in 0 .. n
  BY <1>1
<1>3. RecentFromTree(log) = [i \in 1 .. k |-> RootAt(log, From(n) + i - 1)]
  BY DEF RecentFromTree
<1>4. RecentFromTree(log) \in [1 .. k -> T]
  BY <1>2, <1>3
<1> HIDE DEF k, T
<1>5. RecentFromTree(log) \in Seq(T) /\ Len(RecentFromTree(log)) = k
  BY <1>1, <1>4, FunctionIsSequence
<1>6. \A i \in 1 .. k : RecentFromTree(log)[i] = RootAt(log, From(n) + i - 1)
  BY <1>3
<1> QED BY <1>5, <1>6 DEF k, T

\* push_recent after an append gives the window recent_from_tree rebuilds.
LEMMA PushIsRebuild ==
  ASSUME NEW log \in Seq(Leaves), NEW leaf \in Leaves
  PROVE  PushRecent(RecentFromTree(log), Append(log, leaf))
           = RecentFromTree(Append(log, leaf))
PROOF
<1> DEFINE n == Len(log)
           k == n - From(n) + 1
           drop == Dropped(k + 1)
           T == {RootAt(log, s) : s \in 0 .. n}
           old == RecentFromTree(log)
           new == Append(log, leaf)
           all == Append(old, new)
<1>1. new \in Seq(Leaves) /\ Len(new) = n + 1 /\ n \in Nat
  BY AppendElements
<1>2. From(n) \in 0 .. n /\ From(n + 1) \in 0 .. n + 1 /\ k \in Nat
  <2> HIDE DEF n
  <2> QED BY <1>1, WindowStep
<1>3. drop \in Nat /\ From(n) + drop = From(n + 1) /\ k + 1 - drop = (n + 1) - From(n + 1) + 1
  <2> HIDE DEF n
  <2> QED BY <1>1, WindowStep
<1>4. /\ Len(old) = k
      /\ \A i \in 1 .. k : old[i] = RootAt(log, From(n) + i - 1)
      /\ old \in Seq(T \cup {new})
  <2>1. /\ Len(old) = k
        /\ \A i \in 1 .. k : old[i] = RootAt(log, From(n) + i - 1)
        /\ old \in Seq(T)
    BY RecentFromTreeLists
  <2> HIDE DEF T, old, new, k
  <2> QED BY <2>1
<1>5. /\ Len(all) = k + 1
      /\ \A i \in 1 .. k : all[i] = RootAt(log, From(n) + i - 1)
      /\ all[k + 1] = new
  <2> DEFINE U == T \cup {new}
  <2>1. old \in Seq(U) /\ new \in U
    <3> HIDE DEF T, old, new
    <3> QED BY <1>4
  <2> HIDE DEF U, old, new, k
  <2>2. /\ Len(all) = Len(old) + 1
        /\ \A i \in 1 .. Len(old) : all[i] = old[i]
        /\ all[Len(old) + 1] = new
    BY <2>1, AppendElements
  <2> HIDE DEF all
  <2> QED BY <1>4, <2>2
<1>6. RecentFromTree(new) = [i \in 1 .. (k + 1 - drop) |-> RootAt(new, From(n + 1) + i - 1)]
  <2> HIDE DEF n, k, drop, new
  <2> QED BY <1>1, <1>3 DEF RecentFromTree
<1>7. PushRecent(old, new) = [i \in 1 .. (k + 1 - drop) |-> all[drop + i]]
  <2>1. PushRecent(old, new) = [i \in 1 .. (Len(all) - Dropped(Len(all)))
                                  |-> all[Dropped(Len(all)) + i]]
    BY DEF PushRecent
  <2>2. Len(all) = k + 1
    BY <1>5
  <2>3. Dropped(Len(all)) = drop
    BY <2>2
  <2> HIDE DEF k, drop, old, new, all
  <2>4. Len(all) - Dropped(Len(all)) = k + 1 - drop
    BY <2>2, <2>3, <1>2, <1>3
  <2> QED BY <2>1, <2>3, <2>4
<1> HIDE DEF k, drop, T, old, new, all
<1>8. ASSUME NEW i \in 1 .. (k + 1 - drop)
      PROVE  all[drop + i] = RootAt(new, From(n + 1) + i - 1)
  <2>1. CASE i = k + 1 - drop
    <3>1. drop + i = k + 1 /\ From(n + 1) + i - 1 = n + 1
      BY <2>1, <1>1, <1>2, <1>3
    <3>2. RootAt(new, n + 1) = new
      BY <1>1, RootOfAll
    <3> QED BY <3>1, <3>2, <1>5
  <2>2. CASE i # k + 1 - drop
    <3>1. /\ drop + i \in 1 .. k
          /\ From(n) + (drop + i) - 1 = From(n + 1) + i - 1
          /\ From(n + 1) + i - 1 \in 0 .. n
      BY <2>2, <1>1, <1>2, <1>3
    <3>2. all[drop + i] = RootAt(log, From(n + 1) + i - 1)
      BY <3>1, <1>5
    <3>3. RootAt(new, From(n + 1) + i - 1) = RootAt(log, From(n + 1) + i - 1)
      BY <3>1, RootsArePrefixes DEF new
    <3> QED BY <3>2, <3>3
  <2> QED BY <2>1, <2>2
<1> QED
  <2>1. PushRecent(old, new) = RecentFromTree(new)
    BY <1>6, <1>7, <1>8
  <2> QED BY <2>1 DEF old, new

\* Every root in the window is a prefix of the log.
LEMMA RecentRootsArePrefixes ==
  ASSUME NEW log \in Seq(Leaves), NEW root, RootIsRecent(RecentFromTree(log), root)
  PROVE  \E s \in 0 .. Len(log) : root = RootAt(log, s)
PROOF
<1>1. PICK i \in 1 .. Len(RecentFromTree(log)) : root = RecentFromTree(log)[i]
  BY DEF RootIsRecent
<1>2. root = RootAt(log, From(Len(log)) + i - 1)
  BY <1>1, RecentFromTreeLists
<1>3. From(Len(log)) + i - 1 \in 0 .. Len(log)
  <2>1. Len(log) \in Nat /\ From(Len(log)) \in 0 .. Len(log)
    BY FromBounds
  <2>2. i \in 1 .. (Len(log) - From(Len(log)) + 1)
    BY RecentFromTreeLists
  <2> QED BY <2>1, <2>2
<1> QED BY <1>2, <1>3

-----------------------------------------------------------------------------
(* The inductive invariant *)

\* apply_batch hands the second half only envelopes whose proof it checked.
BatchVerified == \A i \in 1 .. Len(batch) : ProofVerifies(batch[i])

\* What an accepted operation claimed stays in its account's claimed set.
OpsClaimed ==
  \A i \in OpSeqs :
    /\ accounts[ops[i].env.account] # Unregistered
    /\ Claimed(i) \subseteq accounts[ops[i].env.account].claimed

IInv ==
  /\ TypeOK
  /\ MemoryIsStore
  /\ BatchVerified
  /\ ClaimsAreOwn
  /\ OpsClaimed
  /\ NoDoubleClaim
  /\ DepositsMatchMints

LEMMA InitIInv == Init => IInv
PROOF
<1> SUFFICES ASSUME Init PROVE IInv
  OBVIOUS
<1> USE DEF Init
<1>1. TypeOK
  <2>1. << >> \in Seq(Leaves) /\ << >> \in Seq(Rows) /\ << >> \in Seq(Envelopes)
    OBVIOUS
  <2>2. Len(receipts) <= MaxPositions
    BY ValueAssumption
  <2>3. DOMAIN deposits = {}
    OBVIOUS
  <2> QED BY <2>1, <2>2, <2>3 DEF TypeOK
<1>2. MemoryIsStore
  BY DEF MemoryIsStore
<1>3. BatchVerified
  BY DEF BatchVerified
<1>4. ClaimsAreOwn
  BY DEF ClaimsAreOwn
<1>5. OpSeqs = {}
  BY DEF OpSeqs
<1>6. OpsClaimed /\ NoDoubleClaim
  BY <1>5 DEF OpsClaimed, NoDoubleClaim
<1>7. DepositsMatchMints
  BY DEF DepositsMatchMints
<1> QED BY <1>1, <1>2, <1>3, <1>4, <1>6, <1>7 DEF IInv

\* Appending a leaf, in memory and in the store: the typed part.
LEMMA AppendReceiptTypes ==
  ASSUME IInv, NEW leaf \in Leaves, AppendReceipt(leaf)
  PROVE  /\ receipts' \in Seq(Leaves) /\ tree' \in Seq(Leaves)
         /\ Len(receipts) \in Nat /\ Len(receipts') = Len(receipts) + 1
         /\ Len(receipts') <= MaxPositions
         /\ \A p \in 1 .. Len(receipts) : receipts'[p] = receipts[p]
         /\ receipts'[Len(receipts) + 1] = leaf
         /\ MemoryIsStore'
PROOF
<1>1. receipts \in Seq(Leaves) /\ tree = receipts /\ recent = RecentFromTree(receipts)
  BY DEF IInv, TypeOK, MemoryIsStore
<1>2. /\ Len(receipts) < MaxPositions
      /\ receipts' = Append(receipts, leaf)
      /\ tree' = receipts'
      /\ recent' = PushRecent(recent, receipts')
  BY <1>1 DEF AppendReceipt
<1>3. MemoryIsStore'
  <2>1. recent' = RecentFromTree(receipts')
    BY <1>1, <1>2, PushIsRebuild
  <2> QED BY <1>2, <2>1 DEF MemoryIsStore
<1>4. /\ receipts' \in Seq(Leaves)
      /\ Len(receipts) \in Nat /\ Len(receipts') = Len(receipts) + 1
      /\ \A p \in 1 .. Len(receipts) : receipts'[p] = receipts[p]
      /\ receipts'[Len(receipts) + 1] = leaf
  BY <1>1, <1>2, AppendElements
<1>5. Len(receipts') <= MaxPositions
  BY <1>2, <1>4, ValueAssumption
<1> QED BY <1>2, <1>3, <1>4, <1>5

\* Appending a row to the history.
LEMMA AppendRow ==
  ASSUME IInv, NEW row \in Rows, ops' = Append(ops, row)
  PROVE  /\ ops' \in Seq(Rows)
         /\ Len(ops) \in Nat /\ Len(ops') = Len(ops) + 1
         /\ \A i \in 1 .. Len(ops) : ops'[i] = ops[i]
         /\ ops'[Len(ops) + 1] = row
PROOF
<1>1. ops \in Seq(Rows)
  BY DEF IInv, TypeOK
<1> HIDE DEF Rows
<1> QED BY <1>1, AppendElements

-----------------------------------------------------------------------------
(* An accepted operation *)

\* What OpPasses, or apply_verified's re-check of a verified candidate, gives.
Accepted(env) ==
  /\ accounts[env.account] = env.com
  /\ RootIsRecent(recent, env.root)
  /\ ProofVerifies(env)

\* An accepted operation claims nothing, or one position no one has claimed
\* whose receipt, in the log itself, pays the account.
LEMMA AcceptedClaims ==
  ASSUME IInv, NEW env \in Envelopes, Accepted(env)
  PROVE  /\ accounts[env.account] # Unregistered
         /\ env.com.claimed \subseteq env.com_new.claimed
         /\ \A p \in env.com_new.claimed \ env.com.claimed :
              /\ p \in 1 .. Len(receipts)
              /\ receipts[p].real
              /\ receipts[p].to = env.account
         /\ env.receipt.from # MintSender
PROOF
<1>1. env.account \in Accounts /\ env.com \in Commitments /\ env.root \in Seq(Leaves)
  BY DEF Envelopes, Roots
<1>2. accounts[env.account] # Unregistered
  BY <1>1, UnregisteredAssumption DEF Accepted
<1>3. receipts \in Seq(Leaves) /\ recent = RecentFromTree(receipts)
  BY DEF IInv, TypeOK, MemoryIsStore
<1>4. PICK s \in 0 .. Len(receipts) : env.root = RootAt(receipts, s)
  BY <1>3, RecentRootsArePrefixes DEF Accepted
<1>5. \A p \in 1 .. Len(env.root) : p \in 1 .. Len(receipts) /\ env.root[p] = receipts[p]
  BY <1>3, <1>4 DEF RootAt
<1>6. CASE IsSend(env)
  <2>1. env.com_new.claimed = env.com.claimed /\ env.receipt.from = env.account
    BY <1>6 DEF IsSend
  <2> QED BY <2>1, <1>1, <1>2, IdentifierAssumption
<1>7. CASE IsReceive(env)
  <2>1. PICK p \in Positions : Claims(env, p)
    BY <1>7 DEF IsReceive
  <2>2. /\ env.com_new.claimed = env.com.claimed \cup {p}
        /\ p \in 1 .. Len(env.root)
        /\ env.root[p].real /\ env.root[p].to = env.account
    BY <2>1 DEF Claims
  <2>3. env.receipt.from = env.account
    BY <1>7 DEF IsReceive, Dummy
  <2> QED BY <2>2, <2>3, <1>1, <1>2, <1>5, IdentifierAssumption
<1> QED BY <1>6, <1>7 DEF Accepted, ProofVerifies

LEMMA WriteOpPreserves ==
  ASSUME IInv, NEW env \in Envelopes, Accepted(env), WriteOp(env),
         batch' \in Seq(Envelopes), net' \subseteq Envelopes, BatchVerified'
  PROVE  IInv'
PROOF
<1> DEFINE n == Len(receipts)
           row == [kind |-> "op", env |-> env]
           a == env.account
<1>1. /\ a \in Accounts /\ env.com \in Commitments /\ env.com_new \in Commitments
      /\ env.receipt \in Leaves
  BY DEF Envelopes
<1>2. /\ AppendReceipt(env.receipt)
      /\ accounts' = [accounts EXCEPT ![a] = env.com_new]
      /\ ops' = Append(ops, row)
      /\ deposits' = deposits
  BY DEF WriteOp
<1>3. /\ receipts' \in Seq(Leaves) /\ tree' \in Seq(Leaves)
      /\ n \in Nat /\ Len(receipts') = n + 1
      /\ Len(receipts') <= MaxPositions
      /\ \A p \in 1 .. n : receipts'[p] = receipts[p]
      /\ receipts'[n + 1] = env.receipt
      /\ MemoryIsStore'
  BY <1>1, <1>2, AppendReceiptTypes
<1>4. row \in Rows
  BY DEF Rows
<1>5. /\ ops' \in Seq(Rows)
      /\ Len(ops) \in Nat /\ Len(ops') = Len(ops) + 1
      /\ \A i \in 1 .. Len(ops) : ops'[i] = ops[i]
      /\ ops'[Len(ops) + 1] = row
  BY <1>2, <1>4, AppendRow
<1>6. /\ accounts[a] # Unregistered
      /\ accounts[a] = env.com
      /\ env.com.claimed \subseteq env.com_new.claimed
      /\ \A p \in env.com_new.claimed \ env.com.claimed :
           p \in 1 .. n /\ receipts[p].real /\ receipts[p].to = a
      /\ env.receipt.from # MintSender
  BY AcceptedClaims DEF Accepted
<1>7. /\ accounts \in [Accounts -> Commitments \cup {Unregistered}]
      /\ DOMAIN deposits \subseteq DepositIds
      /\ \A d \in DOMAIN deposits : deposits[d] \in 1 .. n
  BY DEF IInv, TypeOK
<1>8. /\ accounts'[a] = env.com_new /\ accounts'[a] # Unregistered
      /\ \A b \in Accounts \ {a} : accounts'[b] = accounts[b]
  BY <1>1, <1>2, <1>7, UnregisteredAssumption
<1> HIDE DEF n, row, a
<1>9. TypeOK'
  <2>1. accounts' \in [Accounts -> Commitments \cup {Unregistered}]
    BY <1>1, <1>2, <1>7
  <2>2. \A d \in DOMAIN deposits' : deposits'[d] \in 1 .. Len(receipts')
    BY <1>2, <1>3, <1>7
  <2> QED BY <2>1, <2>2, <1>2, <1>3, <1>5, <1>7 DEF TypeOK
<1>10. ClaimsAreOwn'
  <2> SUFFICES ASSUME NEW b \in Accounts, accounts'[b] # Unregistered,
                      NEW p \in accounts'[b].claimed
               PROVE  p <= Len(receipts') /\ receipts'[p].real /\ receipts'[p].to = b
    BY DEF ClaimsAreOwn
  <2>1. /\ p \in 1 .. n /\ receipts[p].real /\ receipts[p].to = b
    <3>1. CASE b = a /\ p \notin env.com.claimed
      BY <3>1, <1>6, <1>8
    <3>2. CASE b # a \/ p \in env.com.claimed
      <4>1. accounts[b] # Unregistered /\ p \in accounts[b].claimed
        BY <3>2, <1>6, <1>8
      <4>2. p <= n /\ receipts[p].real /\ receipts[p].to = b
        BY <4>1 DEF IInv, ClaimsAreOwn, n
      <4>3. accounts[b] \in Commitments
        BY <4>1, <1>7
      <4>4. p \in Positions
        BY <4>1, <4>3 DEF Commitments
      <4> QED BY <4>2, <4>4, <1>3, ValueAssumption DEF Positions
    <3> QED BY <3>1, <3>2
  <2> QED BY <2>1, <1>3
<1>11. OpSeqs' = OpSeqs \cup {Len(ops) + 1}
  <2>1. row.kind = "op"
    BY DEF row
  <2> QED BY <2>1, <1>5 DEF OpSeqs
<1>12. \A i \in OpSeqs : i \in 1 .. Len(ops) /\ ops'[i] = ops[i] /\ Claimed(i)' = Claimed(i)
  BY <1>5 DEF OpSeqs, Claimed
<1>13. ops'[Len(ops) + 1].env = env
  BY <1>5 DEF row
<1>14. \A i \in OpSeqs : ops[i].env.account \in Accounts
  <2>1. \A i \in 1 .. Len(ops) : ops[i] \in Rows
    BY DEF IInv, TypeOK
  <2> QED BY <2>1 DEF OpSeqs, Rows, Envelopes
<1>15. OpsClaimed'
  <2> SUFFICES ASSUME NEW i \in OpSeqs'
               PROVE  /\ accounts'[ops'[i].env.account] # Unregistered
                      /\ Claimed(i)' \subseteq accounts'[ops'[i].env.account].claimed
    BY DEF OpsClaimed
  <2>1. CASE i = Len(ops) + 1
    <3>1. ops'[i].env = env
      BY <2>1, <1>13
    <3>2. Claimed(i)' = env.com_new.claimed \ env.com.claimed
      BY <3>1 DEF Claimed
    <3> QED BY <3>1, <3>2, <1>8 DEF a
  <2>2. CASE i \in OpSeqs
    <3>1. /\ accounts[ops[i].env.account] # Unregistered
          /\ Claimed(i) \subseteq accounts[ops[i].env.account].claimed
      BY <2>2 DEF IInv, OpsClaimed
    <3> QED BY <2>2, <3>1, <1>6, <1>8, <1>12, <1>14
  <2> QED BY <2>1, <2>2, <1>11
<1>16. \A i \in OpSeqs : Claimed(i) \cap (env.com_new.claimed \ env.com.claimed) = {}
  <2> SUFFICES ASSUME NEW i \in OpSeqs, NEW p \in Claimed(i),
                      p \in env.com_new.claimed, p \notin env.com.claimed
               PROVE  FALSE
    OBVIOUS
  <2> DEFINE b == ops[i].env.account
  <2>1. b \in Accounts /\ accounts[b] # Unregistered /\ p \in accounts[b].claimed
    BY <1>14 DEF IInv, OpsClaimed
  <2>2. receipts[p].to = b
    BY <2>1 DEF IInv, ClaimsAreOwn
  <2>3. receipts[p].to = a
    BY <1>6
  <2> QED BY <2>1, <2>2, <2>3, <1>6
<1>17. NoDoubleClaim'
  <2> SUFFICES ASSUME NEW i \in OpSeqs', NEW j \in OpSeqs', i < j
               PROVE  Claimed(i)' \cap Claimed(j)' = {}
    BY DEF NoDoubleClaim
  <2>1. i \in OpSeqs
    <3>1. j <= Len(ops) + 1
      BY <1>5, <1>11, <1>12
    <3>2. i # Len(ops) + 1
      BY <3>1, <1>5, <1>11, <1>12
    <3> QED BY <3>2, <1>11
  <2>2. CASE j = Len(ops) + 1
    <3>1. Claimed(j)' = env.com_new.claimed \ env.com.claimed
      BY <2>2, <1>13 DEF Claimed
    <3> QED BY <2>1, <3>1, <1>12, <1>16
  <2>3. CASE j \in OpSeqs
    BY <2>1, <2>3, <1>12 DEF IInv, NoDoubleClaim
  <2> QED BY <2>2, <2>3, <1>11
<1>18. DepositsMatchMints'
  <2>1. \A d, e \in DOMAIN deposits : d # e => deposits[d] # deposits[e]
    BY DEF IInv, DepositsMatchMints
  <2>2. ASSUME NEW p \in 1 .. Len(receipts')
        PROVE  receipts'[p].from = MintSender <=> \E d \in DOMAIN deposits : deposits[d] = p
    <3>1. CASE p = n + 1
      BY <3>1, <1>3, <1>6, <1>7
    <3>2. CASE p \in 1 .. n
      BY <3>2, <1>3 DEF IInv, DepositsMatchMints, n
    <3> QED BY <3>1, <3>2, <1>3
  <2> QED BY <2>1, <2>2, <1>2 DEF DepositsMatchMints
<1> QED BY <1>3, <1>9, <1>10, <1>15, <1>17, <1>18 DEF IInv

-----------------------------------------------------------------------------
(* The other steps *)

\* Steps that leave the store alone: a failed write, a restart, the first half
\* of a batch, a dropped candidate, signing.
LEMMA StoreKeptPreserves ==
  ASSUME IInv, UNCHANGED store, MemoryIsStore',
         batch' \in Seq(Envelopes), net' \subseteq Envelopes, BatchVerified'
  PROVE  IInv'
PROOF
<1>1. UNCHANGED <<accounts, receipts, deposits, ops>>
  BY DEF store
<1>2. TypeOK'
  BY <1>1 DEF IInv, TypeOK, MemoryIsStore
<1>3. ClaimsAreOwn'
  BY <1>1 DEF IInv, ClaimsAreOwn
<1>4. OpSeqs' = OpSeqs /\ \A i : Claimed(i)' = Claimed(i)
  BY <1>1 DEF OpSeqs, Claimed
<1>5. OpsClaimed' /\ NoDoubleClaim'
  BY <1>1, <1>4 DEF IInv, OpsClaimed, NoDoubleClaim
<1>6. DepositsMatchMints'
  BY <1>1 DEF IInv, DepositsMatchMints
<1> QED BY <1>2, <1>3, <1>5, <1>6 DEF IInv

\* A row that is not an operation leaves the claims of the history alone.
LEMMA OtherRowKeepsClaims ==
  ASSUME IInv, NEW row \in Rows, row.kind # "op", ops' = Append(ops, row),
         \A a \in Accounts : accounts[a] # Unregistered => accounts'[a] = accounts[a]
  PROVE  ops' \in Seq(Rows) /\ OpsClaimed' /\ NoDoubleClaim'
PROOF
<1>1. /\ ops' \in Seq(Rows)
      /\ Len(ops) \in Nat /\ Len(ops') = Len(ops) + 1
      /\ \A i \in 1 .. Len(ops) : ops'[i] = ops[i]
      /\ ops'[Len(ops) + 1] = row
  BY AppendRow
<1>2. OpSeqs' = OpSeqs
  BY <1>1 DEF OpSeqs
<1>3. \A i \in OpSeqs : ops'[i] = ops[i] /\ Claimed(i)' = Claimed(i)
  BY <1>1 DEF OpSeqs, Claimed
<1>4. \A i \in OpSeqs : ops[i].env.account \in Accounts
  <2>1. \A i \in 1 .. Len(ops) : ops[i] \in Rows
    BY DEF IInv, TypeOK
  <2> QED BY <2>1 DEF OpSeqs, Rows, Envelopes
<1>5. OpsClaimed'
  <2>1. ASSUME NEW i \in OpSeqs
        PROVE  /\ accounts'[ops'[i].env.account] # Unregistered
               /\ Claimed(i)' \subseteq accounts'[ops'[i].env.account].claimed
    <3>1. /\ accounts[ops[i].env.account] # Unregistered
          /\ Claimed(i) \subseteq accounts[ops[i].env.account].claimed
      BY DEF IInv, OpsClaimed
    <3>2. accounts'[ops[i].env.account] = accounts[ops[i].env.account]
      BY <3>1, <1>4
    <3> QED BY <3>1, <3>2, <1>3
  <2> QED BY <2>1, <1>2 DEF OpsClaimed
<1>6. NoDoubleClaim'
  BY <1>2, <1>3 DEF IInv, NoDoubleClaim
<1> QED BY <1>1, <1>5, <1>6

LEMMA RegisterPreserves ==
  ASSUME IInv, NEW a \in Accounts, NEW r \in Rands, register(a, r)
  PROVE  IInv'
PROOF
<1> DEFINE fresh == [bal |-> 0, claimed |-> {}, r |-> r]
           row == [kind |-> "register", account |-> a, r |-> r]
<1>1. /\ accounts[a] = Unregistered
      /\ accounts' = [accounts EXCEPT ![a] = fresh]
      /\ ops' = Append(ops, row)
      /\ UNCHANGED <<receipts, deposits, tree, recent, batch, net>>
  BY DEF register
<1>2. fresh \in Commitments /\ row \in Rows /\ row.kind = "register"
  BY ValueAssumption DEF Commitments, Rows
<1>3. accounts \in [Accounts -> Commitments \cup {Unregistered}]
  BY DEF IInv, TypeOK
<1>4. /\ accounts'[a] = fresh
      /\ \A b \in Accounts \ {a} : accounts'[b] = accounts[b]
      /\ accounts' \in [Accounts -> Commitments \cup {Unregistered}]
  BY <1>1, <1>2, <1>3
<1>5. ops' \in Seq(Rows) /\ OpsClaimed' /\ NoDoubleClaim'
  <2> HIDE DEF row, fresh
  <2>1. \A b \in Accounts : accounts[b] # Unregistered => accounts'[b] = accounts[b]
    BY <1>1, <1>4
  <2> QED BY <2>1, <1>1, <1>2, OtherRowKeepsClaims
<1>6. TypeOK'
  BY <1>1, <1>4, <1>5 DEF IInv, TypeOK
<1>7. ClaimsAreOwn'
  <2> SUFFICES ASSUME NEW b \in Accounts, accounts'[b] # Unregistered,
                      NEW p \in accounts'[b].claimed
               PROVE  p <= Len(receipts) /\ receipts[p].real /\ receipts[p].to = b
    BY <1>1 DEF ClaimsAreOwn
  <2>1. b # a
    BY <1>4
  <2> QED BY <2>1, <1>4 DEF IInv, ClaimsAreOwn
<1>8. MemoryIsStore' /\ BatchVerified' /\ DepositsMatchMints'
  BY <1>1 DEF IInv, MemoryIsStore, BatchVerified, DepositsMatchMints
<1> QED BY <1>5, <1>6, <1>7, <1>8 DEF IInv

LEMMA MintPreserves ==
  ASSUME IInv, NEW d \in DepositIds, NEW a \in Accounts, NEW v \in Amounts, mint(d, a, v)
  PROVE  IInv'
PROOF
<1> DEFINE n == Len(receipts)
           leaf == MintReceipt(a, v)
           row == [kind |-> "mint", id |-> d, receipt |-> leaf]
<1>1. /\ d \notin DOMAIN deposits
      /\ AppendReceipt(leaf)
      /\ deposits' = [x \in DOMAIN deposits \cup {d} |-> IF x = d THEN n + 1 ELSE deposits[x]]
      /\ ops' = Append(ops, row)
      /\ UNCHANGED <<accounts, batch, net>>
  BY DEF mint
<1>2. leaf \in Leaves /\ leaf.from = MintSender
  BY DEF MintReceipt, Leaves, Parties
<1>3. row \in Rows /\ row.kind = "mint"
  BY <1>2 DEF Rows
<1>4. /\ receipts' \in Seq(Leaves) /\ tree' \in Seq(Leaves)
      /\ n \in Nat /\ Len(receipts') = n + 1
      /\ Len(receipts') <= MaxPositions
      /\ \A p \in 1 .. n : receipts'[p] = receipts[p]
      /\ receipts'[n + 1] = leaf
      /\ MemoryIsStore'
  BY <1>1, <1>2, AppendReceiptTypes
<1> HIDE DEF n, leaf, row
<1>5. ops' \in Seq(Rows) /\ OpsClaimed' /\ NoDoubleClaim'
  BY <1>1, <1>3, OtherRowKeepsClaims
<1>6. /\ DOMAIN deposits' = DOMAIN deposits \cup {d}
      /\ deposits'[d] = n + 1
      /\ \A e \in DOMAIN deposits : deposits'[e] = deposits[e] /\ e # d
      /\ DOMAIN deposits \subseteq DepositIds
      /\ \A e \in DOMAIN deposits : deposits[e] \in 1 .. n
  BY <1>1 DEF IInv, TypeOK, n
<1>7. TypeOK'
  <2>1. \A e \in DOMAIN deposits' : deposits'[e] \in 1 .. Len(receipts')
    BY <1>4, <1>6
  <2> QED BY <2>1, <1>1, <1>4, <1>5, <1>6 DEF IInv, TypeOK
<1>8. ClaimsAreOwn'
  <2> SUFFICES ASSUME NEW b \in Accounts, accounts[b] # Unregistered,
                      NEW p \in accounts[b].claimed
               PROVE  p <= Len(receipts') /\ receipts'[p].real /\ receipts'[p].to = b
    BY <1>1 DEF ClaimsAreOwn
  <2>1. p <= n /\ receipts[p].real /\ receipts[p].to = b
    BY DEF IInv, ClaimsAreOwn, n
  <2>2. accounts[b] \in Commitments
    BY DEF IInv, TypeOK
  <2>3. p \in 1 .. MaxPositions
    BY <2>2 DEF Commitments, Positions
  <2> QED BY <2>1, <2>3, <1>4, ValueAssumption
<1>9. DepositsMatchMints'
  <2>1. \A e, f \in DOMAIN deposits : e # f => deposits[e] # deposits[f]
    BY DEF IInv, DepositsMatchMints
  <2>2. \A e, f \in DOMAIN deposits' : e # f => deposits'[e] # deposits'[f]
    BY <2>1, <1>4, <1>6
  <2>3. ASSUME NEW p \in 1 .. Len(receipts')
        PROVE  receipts'[p].from = MintSender <=> \E e \in DOMAIN deposits' : deposits'[e] = p
    <3>1. CASE p = n + 1
      BY <3>1, <1>2, <1>4, <1>6
    <3>2. CASE p \in 1 .. n
      <4>1. receipts[p].from = MintSender <=> \E e \in DOMAIN deposits : deposits[e] = p
        BY <3>2 DEF IInv, DepositsMatchMints, n
      <4>2. p # n + 1
        BY <3>2, <1>4
      <4> QED BY <4>1, <4>2, <3>2, <1>4, <1>6
    <3> QED BY <3>1, <3>2, <1>4
  <2> QED BY <2>2, <2>3 DEF DepositsMatchMints
<1>10. BatchVerified'
  BY <1>1 DEF IInv, BatchVerified
<1> QED BY <1>4, <1>5, <1>7, <1>8, <1>9, <1>10 DEF IInv

-----------------------------------------------------------------------------
(* The theorems *)

LEMMA BatchStep ==
  ASSUME IInv, batch # << >>, batch' = Tail(batch)
  PROVE  /\ Head(batch) \in Envelopes /\ ProofVerifies(Head(batch))
         /\ batch' \in Seq(Envelopes) /\ BatchVerified'
PROOF
<1>1. batch \in Seq(Envelopes) /\ \A i \in 1 .. Len(batch) : ProofVerifies(batch[i])
  BY DEF IInv, TypeOK, BatchVerified
<1> HIDE DEF Envelopes
<1>2. Head(batch) = batch[1] /\ 1 \in 1 .. Len(batch) /\ Head(batch) \in Envelopes
  BY <1>1
<1>3. /\ batch' \in Seq(Envelopes)
      /\ \A i \in 1 .. Len(batch') : i + 1 \in 1 .. Len(batch) /\ batch'[i] = batch[i + 1]
  BY <1>1
<1>4. BatchVerified'
  <2>1. ASSUME NEW i \in 1 .. Len(batch') PROVE ProofVerifies(batch'[i])
    BY <1>1, <1>3
  <2> QED BY <2>1 DEF BatchVerified, ProofVerifies, IsSend, IsReceive, Claims
<1> QED BY <1>1, <1>2, <1>3, <1>4

\* Every step of the ledger keeps the inductive invariant.
LEMMA NextIInv == IInv /\ [Next]_vars => IInv'
PROOF
<1> SUFFICES ASSUME IInv, [Next]_vars PROVE IInv'
  OBVIOUS
<1>0. /\ batch \in Seq(Envelopes) /\ net \subseteq Envelopes /\ BatchVerified
      /\ MemoryIsStore
  BY DEF IInv, TypeOK
<1>1. ASSUME NEW a \in Accounts, NEW r \in Rands, register(a, r) PROVE IInv'
  BY <1>1, RegisterPreserves
<1>2. ASSUME NEW env \in net, apply(env) PROVE IInv'
  <2>1. env \in Envelopes /\ Accepted(env) /\ WriteOp(env) /\ UNCHANGED <<batch, net>>
    BY <1>0, <1>2 DEF apply, OpPasses, Accepted
  <2>2. batch' \in Seq(Envelopes) /\ net' \subseteq Envelopes /\ BatchVerified'
    BY <1>0, <2>1 DEF BatchVerified
  <2> QED BY <2>1, <2>2, WriteOpPreserves
<1>3. ASSUME tree' = receipts, recent' = RecentFromTree(receipts),
             UNCHANGED store, batch' \in Seq(Envelopes), net' \subseteq Envelopes, BatchVerified'
      PROVE  IInv'
  <2>1. MemoryIsStore'
    BY <1>3 DEF MemoryIsStore, store
  <2> QED BY <2>1, <1>3, StoreKeptPreserves
<1>4. ASSUME UNCHANGED <<store, tree, recent>>, batch' \in Seq(Envelopes),
             net' \subseteq Envelopes, BatchVerified'
      PROVE  IInv'
  <2>1. MemoryIsStore'
    BY <1>4, <1>0 DEF MemoryIsStore, store
  <2> QED BY <2>1, <1>4, StoreKeptPreserves
<1>5. ASSUME NEW env \in net, applyWriteFails(env) PROVE IInv'
  <2>1. batch' \in Seq(Envelopes) /\ net' \subseteq Envelopes /\ BatchVerified'
    BY <1>0, <1>5 DEF applyWriteFails, BatchVerified
  <2> QED BY <2>1, <1>3, <1>5 DEF applyWriteFails, RollBackAppend
<1>6. ASSUME NEW e1 \in net, NEW e2 \in net, apply_batch(e1, e2) PROVE IInv'
  <2>1. /\ batch' = Candidate(e1) \o Candidate(e2)
        /\ UNCHANGED <<store, tree, recent, net>>
    BY <1>6 DEF apply_batch
  <2>2. ASSUME NEW env \in net
        PROVE  /\ Candidate(env) \in Seq(Envelopes)
               /\ \A i \in 1 .. Len(Candidate(env)) : ProofVerifies(Candidate(env)[i])
    <3>1. CASE OpPasses(accounts, recent, env)
      <4>1. Candidate(env) = <<env>> /\ ProofVerifies(env) /\ env \in Envelopes
        BY <3>1, <1>0 DEF Candidate, OpPasses
      <4> HIDE DEF Envelopes
      <4> QED BY <4>1
    <3>2. CASE ~OpPasses(accounts, recent, env)
      BY <3>2 DEF Candidate
    <3> QED BY <3>1, <3>2
  <2>3. batch' \in Seq(Envelopes) /\ \A i \in 1 .. Len(batch') : ProofVerifies(batch'[i])
    <3> DEFINE c1 == Candidate(e1)
               c2 == Candidate(e2)
    <3>1. /\ c1 \in Seq(Envelopes) /\ \A i \in 1 .. Len(c1) : ProofVerifies(c1[i])
          /\ c2 \in Seq(Envelopes) /\ \A i \in 1 .. Len(c2) : ProofVerifies(c2[i])
      BY <2>2
    <3>2. batch' = c1 \o c2
      BY <2>1
    <3> HIDE DEF c1, c2, Envelopes
    <3> QED BY <3>1, <3>2
  <2>4. BatchVerified'
    BY <2>3 DEF BatchVerified, ProofVerifies, IsSend, IsReceive, Claims
  <2> QED BY <2>1, <2>3, <2>4, <1>0, <1>4
<1>7. CASE BatchApply
  <2>1. batch # << >> /\ batch' = Tail(batch) /\ net' = net
        /\ StillApplies(Head(batch)) /\ WriteOp(Head(batch))
    BY <1>7 DEF BatchApply
  <2>2. /\ Head(batch) \in Envelopes /\ ProofVerifies(Head(batch))
        /\ batch' \in Seq(Envelopes) /\ BatchVerified'
    BY <2>1, BatchStep
  <2>3. Accepted(Head(batch))
    BY <2>1, <2>2 DEF StillApplies, Accepted
  <2> QED BY <2>1, <2>2, <2>3, <1>0, WriteOpPreserves
<1>8. CASE BatchReject
  <2>1. batch # << >> /\ batch' = Tail(batch) /\ UNCHANGED <<store, tree, recent, net>>
    BY <1>8 DEF BatchReject
  <2> QED BY <2>1, <1>0, <1>4, BatchStep
<1>9. CASE BatchWriteFails
  <2>1. batch # << >> /\ batch' = Tail(batch) /\ UNCHANGED <<store, net>> /\ RollBackAppend
    BY <1>9 DEF BatchWriteFails
  <2> QED BY <2>1, <1>0, <1>3, BatchStep DEF RollBackAppend
<1>10. ASSUME NEW d \in DepositIds, NEW a \in Accounts, NEW v \in Amounts, mint(d, a, v)
       PROVE  IInv'
  BY <1>10, MintPreserves
<1>11. ASSUME NEW d \in DepositIds, mintWriteFails(d) PROVE IInv'
  <2>1. batch' \in Seq(Envelopes) /\ net' \subseteq Envelopes /\ BatchVerified'
    BY <1>0, <1>11 DEF mintWriteFails, BatchVerified
  <2> QED BY <2>1, <1>3, <1>11 DEF mintWriteFails, RollBackAppend
<1>12. CASE Restart
  <2>1. /\ tree' = receipts /\ recent' = RecentFromTree(receipts)
        /\ UNCHANGED store /\ net' = net /\ batch' = << >>
    BY <1>12 DEF Restart
  <2>2. batch' \in Seq(Envelopes) /\ BatchVerified'
    BY <2>1 DEF BatchVerified
  <2> QED BY <2>1, <2>2, <1>0, <1>3
<1>13. ASSUME NEW env, Sign(env) PROVE IInv'
  <2>1. net' \subseteq Envelopes /\ UNCHANGED <<store, memory>>
    BY <1>13, <1>0 DEF Sign
  <2>2. UNCHANGED <<tree, recent, batch>>
    BY <2>1 DEF memory
  <2>3. batch' \in Seq(Envelopes) /\ BatchVerified'
    BY <2>2, <1>0 DEF BatchVerified
  <2> QED BY <2>1, <2>2, <2>3, <1>4
<1>14. ASSUME NEW a \in Accounts, signSend(a) \/ signReceive(a) \/ signUnprovable(a)
       PROVE  IInv'
  BY <1>13, <1>14 DEF signSend, signReceive, signUnprovable
<1>15. CASE UNCHANGED vars
  <2>1. UNCHANGED <<store, tree, recent>> /\ UNCHANGED <<batch, net>>
    BY <1>15 DEF vars, store
  <2> QED BY <2>1, <1>0, <1>4 DEF BatchVerified
<1> QED BY <1>1, <1>2, <1>5, <1>6, <1>7, <1>8, <1>9, <1>10, <1>11, <1>12, <1>14, <1>15 DEF Next

THEOREM LedgerInvariant == Spec => []IInv
PROOF
<1> QED BY InitIInv, NextIInv, PTL DEF Spec

\* The store and the in-memory ledger have their types in every behaviour.
THEOREM TypeCorrect == Spec => []TypeOK
PROOF
<1>1. IInv => TypeOK
  BY DEF IInv
<1> QED BY <1>1, LedgerInvariant, PTL

\* push_recent, reload_tree and init agree: memory is always what a restart
\* would rebuild.
THEOREM MemoryAlwaysStore == Spec => []MemoryIsStore
PROOF
<1>1. IInv => MemoryIsStore
  BY DEF IInv
<1> QED BY <1>1, LedgerInvariant, PTL

\* Every claimed position holds a payment to the account that claimed it.
THEOREM ClaimsAlwaysOwn == Spec => []ClaimsAreOwn
PROOF
<1>1. IInv => ClaimsAreOwn
  BY DEF IInv
<1> QED BY <1>1, LedgerInvariant, PTL

\* No receipt is claimed by two accepted operations.
THEOREM NeverDoubleClaimed == Spec => []NoDoubleClaim
PROOF
<1>1. IInv => NoDoubleClaim
  BY DEF IInv
<1> QED BY <1>1, LedgerInvariant, PTL

\* An accepted claim is of a payment to the claimer, and no other operation
\* claims the same receipt (apply, apply_batch).
THEOREM ClaimsAlwaysSound == Spec => []ClaimsAreSound
PROOF
<1>1. IInv => ClaimsAreSound
  BY DEF IInv, ClaimsAreSound
<1> QED BY <1>1, LedgerInvariant, PTL

\* Mint receipts and credited deposits stay in one-to-one correspondence.
THEOREM DepositsAlwaysMatchMints == Spec => []DepositsMatchMints
PROOF
<1>1. IInv => DepositsMatchMints
  BY DEF IInv
<1> QED BY <1>1, LedgerInvariant, PTL

\* Where the store changes, it is by a registration, an accepted operation or
\* a mint.
LEMMA StoreMoves ==
  ASSUME IInv, [Next]_vars
  PROVE  \/ UNCHANGED store
         \/ \E a \in Accounts, r \in Rands : register(a, r)
         \/ \E env \in Envelopes : Accepted(env) /\ WriteOp(env)
         \/ \E d \in DepositIds, a \in Accounts, v \in Amounts : mint(d, a, v)
PROOF
<1>1. batch \in Seq(Envelopes) /\ net \subseteq Envelopes
  BY DEF IInv, TypeOK
<1>2. ASSUME NEW env \in net, apply(env)
      PROVE  env \in Envelopes /\ Accepted(env) /\ WriteOp(env)
  BY <1>1, <1>2 DEF apply, OpPasses, Accepted
<1>3. CASE BatchApply
  <2>1. batch # << >> /\ batch' = Tail(batch) /\ StillApplies(Head(batch)) /\ WriteOp(Head(batch))
    BY <1>3 DEF BatchApply
  <2>2. Head(batch) \in Envelopes /\ ProofVerifies(Head(batch))
    BY <2>1, BatchStep
  <2> QED BY <2>1, <2>2 DEF StillApplies, Accepted
<1>4. ASSUME \/ \E env \in net : applyWriteFails(env)
             \/ \E e1, e2 \in net : apply_batch(e1, e2)
             \/ BatchReject \/ BatchWriteFails \/ Restart
             \/ \E d \in DepositIds : mintWriteFails(d)
             \/ \E a \in Accounts : signSend(a) \/ signReceive(a) \/ signUnprovable(a)
             \/ UNCHANGED vars
      PROVE  UNCHANGED store
  BY <1>4 DEF applyWriteFails, apply_batch, BatchReject, BatchWriteFails, Restart,
              mintWriteFails, signSend, signReceive, signUnprovable, Sign, store, vars
<1> QED BY <1>2, <1>3, <1>4 DEF Next

-----------------------------------------------------------------------------
(* A spent commitment never comes back *)

\* Since an operation was accepted its account has claimed more, or claimed
\* nothing and has at most what the operation left it.
MovedOn ==
  \A i \in OpSeqs :
    LET new == ops[i].env.com_new
        now == accounts[ops[i].env.account]
    IN  /\ new.claimed \subseteq now.claimed
        /\ now.claimed = new.claimed => now.bal <= new.bal

ReplayInv == IInv /\ MovedOn /\ NoReplay

\* Which of the two an accepted operation does.
LEMMA AcceptedMoves ==
  ASSUME NEW env \in Envelopes, ProofVerifies(env)
  PROVE  /\ env.com.bal \in Nat /\ env.com_new.bal \in Nat
         /\ \/ env.com_new.claimed = env.com.claimed /\ env.com_new.bal <= env.com.bal
            \/ env.com.claimed \subseteq env.com_new.claimed /\ env.com.claimed # env.com_new.claimed
PROOF
<1>1. env.com \in Commitments /\ env.com_new \in Commitments
  BY DEF Envelopes
<1>2. env.com.bal \in Nat /\ env.com_new.bal \in Nat
  BY <1>1, ValueAssumption DEF Commitments
<1>3. CASE IsSend(env)
  <2>1. env.receipt.amt \in Nat
    BY <1>3, ValueAssumption DEF IsSend
  <2> QED BY <1>2, <1>3, <2>1 DEF IsSend
<1>4. CASE IsReceive(env)
  BY <1>2, <1>4 DEF IsReceive, Claims
<1> QED BY <1>2, <1>3, <1>4 DEF ProofVerifies

\* A row that is not an operation, and an account that was not registered,
\* change none of it.
LEMMA OtherRowMovesOn ==
  ASSUME ReplayInv, NEW row \in Rows, row.kind # "op", ops' = Append(ops, row),
         \A a \in Accounts : accounts[a] # Unregistered => accounts'[a] = accounts[a]
  PROVE  MovedOn' /\ NoReplay'
PROOF
<1> USE DEF ReplayInv
<1>1. /\ Len(ops) \in Nat /\ Len(ops') = Len(ops) + 1
      /\ \A i \in 1 .. Len(ops) : ops'[i] = ops[i]
      /\ ops'[Len(ops) + 1] = row
  BY AppendRow
<1>2. OpSeqs' = OpSeqs /\ \A i \in OpSeqs : ops'[i] = ops[i]
  BY <1>1 DEF OpSeqs
<1>3. \A i \in OpSeqs : ops[i].env.account \in Accounts /\ accounts[ops[i].env.account] # Unregistered
  <2>1. \A i \in 1 .. Len(ops) : ops[i] \in Rows
    BY DEF IInv, TypeOK
  <2> QED BY <2>1 DEF OpSeqs, Rows, Envelopes, IInv, OpsClaimed
<1>4. \A i \in OpSeqs : accounts'[ops'[i].env.account] = accounts[ops[i].env.account]
  BY <1>2, <1>3
<1> QED BY <1>2, <1>4 DEF MovedOn, NoReplay

LEMMA WriteOpMovesOn ==
  ASSUME ReplayInv, NEW env \in Envelopes, Accepted(env), WriteOp(env)
  PROVE  MovedOn' /\ NoReplay'
PROOF
<1> USE DEF ReplayInv
<1> DEFINE row == [kind |-> "op", env |-> env]
           a == env.account
<1>1. ops' = Append(ops, row) /\ accounts' = [accounts EXCEPT ![a] = env.com_new]
  BY DEF WriteOp
<1>2. row \in Rows /\ row.kind = "op" /\ row.env = env
  BY DEF Rows
<1> HIDE DEF row
<1>3. /\ Len(ops) \in Nat /\ Len(ops') = Len(ops) + 1
      /\ \A i \in 1 .. Len(ops) : ops'[i] = ops[i]
      /\ ops'[Len(ops) + 1] = row
  BY <1>1, <1>2, AppendRow
<1>4. /\ OpSeqs' = OpSeqs \cup {Len(ops) + 1}
      /\ \A i \in OpSeqs : i \in 1 .. Len(ops) /\ ops'[i] = ops[i]
      /\ ops'[Len(ops) + 1].env = env
  BY <1>2, <1>3 DEF OpSeqs
<1>5. a \in Accounts /\ env.com_new \in Commitments /\ accounts[a] = env.com
  BY DEF Envelopes, Accepted
<1>6. accounts'[a] = env.com_new /\ \A b \in Accounts \ {a} : accounts'[b] = accounts[b]
  BY <1>1, <1>5 DEF IInv, TypeOK
<1>7. \A i \in OpSeqs : ops[i].env \in Envelopes /\ ops[i].env.account \in Accounts /\ ops[i].env.com_new.bal \in Nat
  <2>1. \A i \in 1 .. Len(ops) : ops[i] \in Rows
    BY DEF IInv, TypeOK
  <2>2. \A i \in OpSeqs : ops[i].env \in Envelopes
    BY <2>1 DEF OpSeqs, Rows
  <2> QED BY <2>2, ValueAssumption DEF Envelopes, Commitments
<1> DEFINE moved == env.com_new.claimed = env.com.claimed /\ env.com_new.bal <= env.com.bal
<1>8. /\ env.com.bal \in Nat /\ env.com_new.bal \in Nat
      /\ \/ moved
         \/ env.com.claimed \subseteq env.com_new.claimed /\ env.com.claimed # env.com_new.claimed
  BY AcceptedMoves DEF Accepted
<1> HIDE DEF a
<1>9. MovedOn'
  <2> SUFFICES ASSUME NEW i \in OpSeqs'
               PROVE  LET new == ops'[i].env.com_new
                          now == accounts'[ops'[i].env.account]
                      IN  /\ new.claimed \subseteq now.claimed
                          /\ now.claimed = new.claimed => now.bal <= new.bal
    BY DEF MovedOn
  <2>1. CASE i = Len(ops) + 1
    <3>1. ops'[i].env = env /\ accounts'[ops'[i].env.account] = env.com_new
      BY <1>4, <1>6, <2>1 DEF a
    <3> QED BY <1>8, <3>1
  <2>2. CASE i \in OpSeqs
    <3>1. /\ ops[i].env.com_new.claimed \subseteq accounts[ops[i].env.account].claimed
          /\ accounts[ops[i].env.account].claimed = ops[i].env.com_new.claimed
               => accounts[ops[i].env.account].bal <= ops[i].env.com_new.bal
      BY <2>2 DEF MovedOn
    <3>2. CASE ops[i].env.account # a
      BY <1>4, <1>6, <1>7, <2>2, <3>1, <3>2
    <3>3. CASE ops[i].env.account = a
      <4>1. /\ ops'[i] = ops[i] /\ accounts'[ops'[i].env.account] = env.com_new
            /\ accounts[ops[i].env.account] = env.com /\ ops[i].env.com_new.bal \in Nat
        <5>1. ops'[i] = ops[i] /\ ops[i].env.com_new.bal \in Nat
          BY <1>4, <1>7, <2>2
        <5>2. accounts'[ops'[i].env.account] = env.com_new
          BY <1>6, <3>3, <5>1
        <5>3. accounts[ops[i].env.account] = env.com
          BY <1>5, <3>3
        <5> QED BY <5>1, <5>2, <5>3
      <4>2. /\ ops[i].env.com_new.claimed \subseteq env.com.claimed
            /\ env.com.claimed = ops[i].env.com_new.claimed => env.com.bal <= ops[i].env.com_new.bal
        BY <3>1, <4>1
      <4>3. CASE moved
        BY <1>8, <4>1, <4>2, <4>3
      <4>4. CASE env.com.claimed \subseteq env.com_new.claimed /\ env.com.claimed # env.com_new.claimed
        BY <4>1, <4>2, <4>4
      <4> QED BY <1>8, <4>3, <4>4
    <3> QED BY <3>2, <3>3
  <2> QED BY <1>4, <2>1, <2>2
<1>10. ASSUME NEW i \in OpSeqs, ops[i].env = env
       PROVE  ~MovesValue(env)
  <2>1. /\ env.com_new.claimed \subseteq env.com.claimed
        /\ env.com.claimed = env.com_new.claimed => env.com.bal <= env.com_new.bal
    <3>1. /\ ops[i].env.com_new.claimed \subseteq accounts[ops[i].env.account].claimed
          /\ accounts[ops[i].env.account].claimed = ops[i].env.com_new.claimed
               => accounts[ops[i].env.account].bal <= ops[i].env.com_new.bal
      BY DEF MovedOn
    <3>2. accounts[ops[i].env.account] = env.com
      BY <1>5, <1>10 DEF a
    <3> QED BY <1>10, <3>1, <3>2
  <2>2. CASE moved
    <3>1. env.com_new.bal = env.com.bal
      BY <1>8, <2>1, <2>2
    <3> QED BY <2>2, <3>1 DEF MovesValue
  <2>3. ~(env.com.claimed \subseteq env.com_new.claimed /\ env.com.claimed # env.com_new.claimed)
    BY <2>1
  <2> QED BY <1>8, <2>2, <2>3
<1>11. NoReplay'
  <2> SUFFICES ASSUME NEW i \in OpSeqs', NEW j \in OpSeqs', i < j, ops'[i].env = ops'[j].env
               PROVE  ~MovesValue(ops'[i].env)
    BY DEF NoReplay, MovesValue
  <2>1. i \in OpSeqs /\ ops'[i] = ops[i]
    BY <1>3, <1>4
  <2>2. CASE j = Len(ops) + 1
    BY <1>4, <1>10, <2>1, <2>2
  <2>3. CASE j \in OpSeqs
    BY <1>4, <2>1, <2>3 DEF NoReplay
  <2> QED BY <1>4, <2>2, <2>3
<1> QED BY <1>9, <1>11

\* An envelope that moves value is accepted once, however often it is
\* delivered and whatever randomness its client reuses (apply, apply_batch).
THEOREM NeverReplayed == Spec => []NoReplay
PROOF
<1>1. Init => ReplayInv
  <2>1. Init => OpSeqs = {}
    BY DEF Init, OpSeqs
  <2> QED BY <2>1, InitIInv DEF ReplayInv, MovedOn, NoReplay
<1>2. ReplayInv /\ [Next]_vars => ReplayInv'
  <2> SUFFICES ASSUME ReplayInv, [Next]_vars PROVE MovedOn' /\ NoReplay'
    BY NextIInv DEF ReplayInv
  <2>0. IInv /\ accounts \in [Accounts -> Commitments \cup {Unregistered}]
    BY DEF ReplayInv, IInv, TypeOK
  <2>1. CASE UNCHANGED store
    BY <2>1 DEF store, ReplayInv, MovedOn, NoReplay, OpSeqs, MovesValue
  <2>2. ASSUME NEW a \in Accounts, NEW r \in Rands, register(a, r) PROVE MovedOn' /\ NoReplay'
    <3> DEFINE row == [kind |-> "register", account |-> a, r |-> r]
    <3>1. row \in Rows /\ row.kind # "op"
      BY DEF Rows
    <3>2. ops' = Append(ops, row) /\ \A b \in Accounts : accounts[b] # Unregistered => accounts'[b] = accounts[b]
      BY <2>0, <2>2 DEF register
    <3> HIDE DEF row
    <3> QED BY <3>1, <3>2, OtherRowMovesOn
  <2>3. ASSUME NEW env \in Envelopes, Accepted(env), WriteOp(env) PROVE MovedOn' /\ NoReplay'
    BY <2>3, WriteOpMovesOn
  <2>4. ASSUME NEW d \in DepositIds, NEW a \in Accounts, NEW v \in Amounts, mint(d, a, v) PROVE MovedOn' /\ NoReplay'
    <3> DEFINE row == [kind |-> "mint", id |-> d, receipt |-> MintReceipt(a, v)]
    <3>1. row \in Rows /\ row.kind # "op"
      BY DEF Rows, MintReceipt, Leaves, Parties
    <3>2. ops' = Append(ops, row) /\ accounts' = accounts
      BY <2>4 DEF mint
    <3> HIDE DEF row
    <3> QED BY <3>1, <3>2, OtherRowMovesOn
  <2> QED BY <2>0, <2>1, <2>2, <2>3, <2>4, StoreMoves
<1>3. ReplayInv => NoReplay
  BY DEF ReplayInv
<1> QED BY <1>1, <1>2, <1>3, PTL DEF Spec

\* What a step does to the store: nothing, a registration, an accepted
\* operation, or a mint.
LEMMA StoreSteps ==
  ASSUME IInv, Next
  PROVE  \/ receipts' = receipts /\ accounts' = accounts
         \/ \E a \in Accounts : accounts[a] = Unregistered /\ receipts' = receipts
              /\ \A b \in Accounts \ {a} : accounts'[b] = accounts[b]
         \/ \E env \in Envelopes : Accepted(env) /\ WriteOp(env)
         \/ \E leaf \in Leaves : AppendReceipt(leaf) /\ accounts' = accounts
PROOF
<1>0. /\ batch \in Seq(Envelopes) /\ net \subseteq Envelopes
      /\ accounts \in [Accounts -> Commitments \cup {Unregistered}]
  BY DEF IInv, TypeOK
<1>1. ASSUME NEW a \in Accounts, NEW r \in Rands, register(a, r)
      PROVE  /\ accounts[a] = Unregistered /\ receipts' = receipts
             /\ \A b \in Accounts \ {a} : accounts'[b] = accounts[b]
  BY <1>0, <1>1 DEF register
<1>2. ASSUME NEW env \in net, apply(env)
      PROVE  env \in Envelopes /\ Accepted(env) /\ WriteOp(env)
  BY <1>0, <1>2 DEF apply, OpPasses, Accepted
<1>3. CASE BatchApply
  <2>1. batch # << >> /\ batch' = Tail(batch)
        /\ StillApplies(Head(batch)) /\ WriteOp(Head(batch))
    BY <1>3 DEF BatchApply
  <2>2. Head(batch) \in Envelopes /\ ProofVerifies(Head(batch))
    BY <2>1, BatchStep
  <2> QED BY <2>1, <2>2 DEF StillApplies, Accepted
<1>4. ASSUME NEW d \in DepositIds, NEW a \in Accounts, NEW v \in Amounts, mint(d, a, v)
      PROVE  \E leaf \in Leaves : AppendReceipt(leaf) /\ accounts' = accounts
  <2>1. MintReceipt(a, v) \in Leaves
    BY DEF MintReceipt, Leaves, Parties
  <2> QED BY <2>1, <1>4 DEF mint
<1>5. ASSUME \/ \E env \in net : applyWriteFails(env)
             \/ \E e1, e2 \in net : apply_batch(e1, e2)
             \/ BatchReject \/ BatchWriteFails \/ Restart
             \/ \E d \in DepositIds : mintWriteFails(d)
             \/ \E a \in Accounts : signSend(a) \/ signReceive(a) \/ signUnprovable(a)
      PROVE  receipts' = receipts /\ accounts' = accounts
  BY <1>5 DEF applyWriteFails, apply_batch, BatchReject, BatchWriteFails, Restart,
              mintWriteFails, signSend, signReceive, signUnprovable, Sign, store
<1> QED BY <1>1, <1>2, <1>3, <1>4, <1>5 DEF Next

\* No step rewrites a receipt, forgets an account or shrinks a claimed set.
THEOREM NothingIsRewritten == Spec => AppendOnly
PROOF
<1>1. ASSUME IInv, [Next]_vars PROVE [KeepsReceiptsAndClaims]_vars
  <2>0. receipts \in Seq(Leaves) /\ Len(receipts) \in Nat
    BY <1>1 DEF IInv, TypeOK
  <2>1. CASE receipts' = receipts /\ accounts' = accounts
    BY <2>0, <2>1 DEF KeepsReceiptsAndClaims
  <2>2. ASSUME NEW a \in Accounts, accounts[a] = Unregistered, receipts' = receipts,
               \A b \in Accounts \ {a} : accounts'[b] = accounts[b]
        PROVE  KeepsReceiptsAndClaims
    BY <2>0, <2>2 DEF KeepsReceiptsAndClaims
  <2>3. ASSUME NEW env \in Envelopes, Accepted(env), WriteOp(env)
        PROVE  KeepsReceiptsAndClaims
    <3>1. /\ env.account \in Accounts /\ env.receipt \in Leaves
          /\ env.com_new \in Commitments
      BY DEF Envelopes
    <3>2. AppendReceipt(env.receipt) /\ accounts' = [accounts EXCEPT ![env.account] = env.com_new]
      BY <2>3 DEF WriteOp
    <3>3. Len(receipts') = Len(receipts) + 1 /\ \A p \in 1 .. Len(receipts) : receipts'[p] = receipts[p]
      BY <1>1, <3>1, <3>2, AppendReceiptTypes
    <3>4. accounts[env.account] = env.com /\ env.com.claimed \subseteq env.com_new.claimed
      BY <1>1, <2>3, AcceptedClaims DEF Accepted
    <3>5. accounts \in [Accounts -> Commitments \cup {Unregistered}]
      BY <1>1 DEF IInv, TypeOK
    <3>6. \A b \in Accounts \ {env.account} : accounts'[b] = accounts[b]
      BY <3>2, <3>5
    <3>7. accounts'[env.account] = env.com_new /\ env.com_new # Unregistered
      BY <3>1, <3>2, <3>5, UnregisteredAssumption
    <3> QED BY <2>0, <3>3, <3>4, <3>6, <3>7 DEF KeepsReceiptsAndClaims
  <2>4. ASSUME NEW leaf \in Leaves, AppendReceipt(leaf), accounts' = accounts
        PROVE  KeepsReceiptsAndClaims
    <3>1. Len(receipts') = Len(receipts) + 1 /\ \A p \in 1 .. Len(receipts) : receipts'[p] = receipts[p]
      BY <1>1, <2>4, AppendReceiptTypes
    <3> QED BY <2>0, <2>4, <3>1 DEF KeepsReceiptsAndClaims
  <2>5. CASE UNCHANGED vars
    BY <2>5
  <2>6. CASE Next
    BY <1>1, <2>1, <2>2, <2>3, <2>4, <2>6, StoreSteps
  <2> QED BY <1>1, <2>5, <2>6
<1>2. IInv /\ [Next]_vars => [KeepsReceiptsAndClaims]_vars
  BY <1>1
<1> QED BY <1>2, LedgerInvariant, PTL DEF Spec, AppendOnly

-----------------------------------------------------------------------------
(* The refinement of LinkMoney: each step is a deposit, a send, a claim, or *)
(* leaves balances and owed payments alone.                                 *)

\* What is owed, one payment at a time.
LEMMA OwedIs ==
  /\ \A p : p \in DOMAIN Owed <=> p \in 1 .. Len(receipts) /\ receipts[p].real /\ ~IsClaimed(p)
  /\ \A p \in DOMAIN Owed : Owed[p] = [amt |-> receipts[p].amt, to |-> receipts[p].to]
  /\ Owed = [p \in DOMAIN Owed |-> Owed[p]]
  BY DEF Owed

LEMMA OwedIsPrime ==
  /\ \A p : p \in DOMAIN Owed' <=> p \in 1 .. Len(receipts') /\ receipts'[p].real /\ ~IsClaimed(p)'
  /\ \A p \in DOMAIN Owed' : Owed'[p] = [amt |-> receipts'[p].amt, to |-> receipts'[p].to]
  /\ Owed' = [p \in DOMAIN Owed' |-> Owed'[p]]
  BY DEF Owed

\* The positions of a log that is one receipt longer.
LEMMA OneMore ==
  ASSUME NEW n \in Nat
  PROVE  \A p : p \in 1 .. (n + 1) <=> p \in 1 .. n \/ p = n + 1
  OBVIOUS

\* No position beyond the log is claimed.
LEMMA NothingClaimedAhead ==
  ASSUME IInv, NEW p, IsClaimed(p)
  PROVE  p \in 1 .. Len(receipts)
PROOF
<1>1. PICK a \in Accounts : accounts[a] # Unregistered /\ p \in accounts[a].claimed
  BY DEF IsClaimed
<1>2. p <= Len(receipts)
  BY <1>1 DEF IInv, ClaimsAreOwn
<1>3. accounts[a] \in Commitments
  BY <1>1 DEF IInv, TypeOK
<1>4. p \in Positions
  BY <1>1, <1>3 DEF Commitments
<1>5. Len(receipts) \in Nat
  BY DEF IInv, TypeOK
<1> QED BY <1>2, <1>4, <1>5, ValueAssumption DEF Positions

\* The two states agree on money when store and log do.
LEMMA StoreDecides ==
  ASSUME UNCHANGED store
  PROVE  UNCHANGED Money!vars
  BY DEF store, Money!vars, BalanceOf, Owed, IsClaimed

LEMMA RegisterStutters ==
  ASSUME IInv, NEW a \in Accounts, NEW r \in Rands, register(a, r)
  PROVE  UNCHANGED Money!vars
PROOF
<1> DEFINE new == [bal |-> 0, claimed |-> {}, r |-> r]
<1>1. /\ accounts[a] = Unregistered /\ accounts' = [accounts EXCEPT ![a] = new]
      /\ UNCHANGED <<receipts, deposits>>
  BY DEF register
<1>2. new \in Commitments /\ new.bal = 0 /\ new.claimed = {}
  BY ValueAssumption DEF Commitments
<1>3. new # Unregistered
  BY <1>2, UnregisteredAssumption
<1> HIDE DEF new
<1>4. accounts'[a] = new /\ \A b \in Accounts \ {a} : accounts'[b] = accounts[b]
  BY <1>1 DEF IInv, TypeOK
<1>5. BalanceOf' = BalanceOf
  BY <1>1, <1>2, <1>4 DEF BalanceOf
<1>6. \A p : IsClaimed(p)' <=> IsClaimed(p)
  BY <1>1, <1>2, <1>4 DEF IsClaimed
<1>7. Owed' = Owed
  BY <1>1, <1>6 DEF Owed
<1> QED BY <1>1, <1>5, <1>7 DEF Money!vars

-----------------------------------------------------------------------------
(* Deposits, sends and claims *)

LEMMA MintDeposits ==
  ASSUME IInv, NEW d \in DepositIds, NEW a \in Accounts, NEW v \in Amounts, mint(d, a, v)
  PROVE  Money!Deposit(d, Len(receipts) + 1, a, v) /\ Len(receipts) + 1 \in Positions
PROOF
<1> DEFINE n == Len(receipts)
           leaf == MintReceipt(a, v)
<1>1. /\ d \notin DOMAIN deposits /\ AppendReceipt(leaf) /\ DOMAIN deposits' = DOMAIN deposits \cup {d}
      /\ UNCHANGED accounts
  BY DEF mint
<1>2. leaf \in Leaves /\ leaf.real = TRUE /\ leaf.amt = v /\ leaf.to = a
  BY DEF MintReceipt, Leaves, Parties
<1> HIDE DEF leaf
<1>3. /\ n \in Nat /\ Len(receipts') = n + 1 /\ n + 1 <= MaxPositions
      /\ \A p \in 1 .. n : receipts'[p] = receipts[p]
      /\ receipts'[n + 1] = leaf
  BY <1>1, <1>2, AppendReceiptTypes
<1>4. n + 1 \in Positions
  BY <1>3, ValueAssumption DEF Positions
<1>5. BalanceOf' = BalanceOf /\ \A p : IsClaimed(p)' <=> IsClaimed(p)
  BY <1>1 DEF BalanceOf, IsClaimed
<1>6. n + 1 \notin DOMAIN Owed /\ ~IsClaimed(n + 1)
  BY <1>3, OwedIs, NothingClaimedAhead
<1>7. Owed' = [q \in DOMAIN Owed \cup {n + 1} |-> IF q = n + 1 THEN [amt |-> v, to |-> a] ELSE Owed[q]]
  <2> HIDE DEF n
  <2>1. DOMAIN Owed' = DOMAIN Owed \cup {n + 1}
    <3>1. \A q : q \in 1 .. Len(receipts') <=> q \in 1 .. n \/ q = n + 1
      BY <1>3, OneMore
    <3>2. \A q : q \in DOMAIN Owed' <=> q \in DOMAIN Owed \/ q = n + 1
      BY <1>2, <1>3, <1>5, <1>6, <3>1, OwedIs, OwedIsPrime DEF n
    <3> QED BY <3>2
  <2>2. \A q \in DOMAIN Owed' : Owed'[q] = IF q = n + 1 THEN [amt |-> v, to |-> a] ELSE Owed[q]
    BY <1>2, <1>3, <2>1, OwedIs, OwedIsPrime DEF n
  <2> QED BY <2>1, <2>2, OwedIsPrime
<1> QED BY <1>1, <1>4, <1>5, <1>6, <1>7 DEF Money!Deposit, Money!Owe

LEMMA SendSends ==
  ASSUME IInv, NEW env \in Envelopes, Accepted(env), WriteOp(env), IsSend(env)
  PROVE  /\ Money!Send(env.account, Len(receipts) + 1, env.receipt.to, env.receipt.amt)
         /\ Len(receipts) + 1 \in Positions
PROOF
<1> DEFINE n == Len(receipts)
           a == env.account
           leaf == env.receipt
<1>1. a \in Accounts /\ env.com \in Commitments /\ env.com_new \in Commitments /\ leaf \in Leaves
  BY DEF Envelopes
<1>2. /\ AppendReceipt(leaf) /\ accounts' = [accounts EXCEPT ![a] = env.com_new] /\ deposits' = deposits
  BY DEF WriteOp
<1>3. /\ leaf.real /\ leaf.amt <= env.com.bal /\ env.com_new.bal = env.com.bal - leaf.amt
      /\ env.com_new.claimed = env.com.claimed
  BY DEF IsSend
<1>4. accounts[a] = env.com /\ env.com # Unregistered /\ env.com_new # Unregistered
  BY <1>1, UnregisteredAssumption DEF Accepted
<1> HIDE DEF leaf
<1>5. /\ n \in Nat /\ Len(receipts') = n + 1 /\ n + 1 <= MaxPositions
      /\ \A p \in 1 .. n : receipts'[p] = receipts[p]
      /\ receipts'[n + 1] = leaf
  BY <1>1, <1>2, AppendReceiptTypes
<1>6. n + 1 \in Positions
  BY <1>5, ValueAssumption DEF Positions
<1> HIDE DEF a
<1>7. accounts'[a] = env.com_new /\ \A b \in Accounts \ {a} : accounts'[b] = accounts[b]
  BY <1>1, <1>2 DEF IInv, TypeOK
<1>8. \A p : IsClaimed(p)' <=> IsClaimed(p)
  BY <1>1, <1>3, <1>4, <1>7 DEF IsClaimed
<1>9. BalanceOf[a] = env.com.bal /\ BalanceOf' = [BalanceOf EXCEPT ![a] = @ - leaf.amt]
  BY <1>1, <1>3, <1>4, <1>7 DEF BalanceOf
<1>10. n + 1 \notin DOMAIN Owed /\ ~IsClaimed(n + 1)
  BY <1>5, OwedIs, NothingClaimedAhead
<1>11. Owed' = [q \in DOMAIN Owed \cup {n + 1} |-> IF q = n + 1 THEN [amt |-> leaf.amt, to |-> leaf.to] ELSE Owed[q]]
  <2> HIDE DEF n
  <2>1. DOMAIN Owed' = DOMAIN Owed \cup {n + 1}
    <3>1. \A q : q \in 1 .. Len(receipts') <=> q \in 1 .. n \/ q = n + 1
      BY <1>5, OneMore
    <3>2. \A q : q \in DOMAIN Owed' <=> q \in DOMAIN Owed \/ q = n + 1
      BY <1>3, <1>5, <1>8, <1>10, <3>1, OwedIs, OwedIsPrime DEF n
    <3> QED BY <3>2
  <2>2. \A q \in DOMAIN Owed' : Owed'[q] = IF q = n + 1 THEN [amt |-> leaf.amt, to |-> leaf.to] ELSE Owed[q]
    BY <1>3, <1>5, <2>1, OwedIs, OwedIsPrime DEF n
  <2> QED BY <2>1, <2>2, OwedIsPrime
<1> QED BY <1>2, <1>3, <1>6, <1>9, <1>10, <1>11 DEF Money!Send, Money!Owe, a, leaf

LEMMA ReceiveClaims ==
  ASSUME IInv, NEW env \in Envelopes, Accepted(env), WriteOp(env), IsReceive(env)
  PROVE  \E p \in Positions : Money!Claim(env.account, p)
PROOF
<1> DEFINE n == Len(receipts)
           a == env.account
           leaf == env.receipt
<1>1. a \in Accounts /\ env.com \in Commitments /\ env.com_new \in Commitments /\ leaf \in Leaves /\ env.root \in Seq(Leaves)
  BY DEF Envelopes, Roots
<1>2. /\ AppendReceipt(leaf) /\ accounts' = [accounts EXCEPT ![a] = env.com_new] /\ deposits' = deposits
  BY DEF WriteOp
<1>3. leaf.real = FALSE
  BY DEF IsReceive, Dummy
<1>4. accounts[a] = env.com /\ env.com # Unregistered /\ env.com_new # Unregistered
  BY <1>1, UnregisteredAssumption DEF Accepted
<1>5. PICK p \in Positions : Claims(env, p)
  BY DEF IsReceive
<1>6. /\ receipts \in Seq(Leaves) /\ RootIsRecent(RecentFromTree(receipts), env.root)
  BY DEF IInv, TypeOK, MemoryIsStore, Accepted
<1>7. PICK s \in 0 .. Len(receipts) : env.root = RootAt(receipts, s)
  BY <1>6, RecentRootsArePrefixes
<1>8. p \in 1 .. n /\ env.root[p] = receipts[p]
  BY <1>5, <1>6, <1>7 DEF RootAt, Claims
<1>9. /\ receipts[p].real /\ receipts[p].to = a /\ p \notin env.com.claimed
      /\ env.com_new.bal = env.com.bal + receipts[p].amt
      /\ env.com_new.claimed = env.com.claimed \cup {p}
  BY <1>5, <1>8 DEF Claims
<1> HIDE DEF leaf
<1>10. /\ n \in Nat /\ Len(receipts') = n + 1
       /\ \A q \in 1 .. n : receipts'[q] = receipts[q]
       /\ receipts'[n + 1] = leaf
  BY <1>1, <1>2, AppendReceiptTypes
<1> HIDE DEF a
<1>11. accounts'[a] = env.com_new /\ \A b \in Accounts \ {a} : accounts'[b] = accounts[b]
  BY <1>1, <1>2 DEF IInv, TypeOK
<1>12. ~IsClaimed(p)
  <2>1. \A b \in Accounts : accounts[b] # Unregistered /\ p \in accounts[b].claimed => receipts[p].to = b
    BY DEF IInv, ClaimsAreOwn
  <2> QED BY <1>4, <1>9, <2>1 DEF IsClaimed
<1>13. \A q : IsClaimed(q)' <=> IsClaimed(q) \/ q = p
  BY <1>1, <1>4, <1>9, <1>11 DEF IsClaimed
<1>14. BalanceOf' = [BalanceOf EXCEPT ![a] = @ + receipts[p].amt]
  BY <1>1, <1>4, <1>9, <1>11 DEF BalanceOf
<1>15. p \in DOMAIN Owed /\ Owed[p].to = a /\ Owed[p].amt = receipts[p].amt
  BY <1>8, <1>9, <1>12, OwedIs
<1>16. Owed' = [q \in DOMAIN Owed \ {p} |-> Owed[q]]
  <2> HIDE DEF n
  <2>1. DOMAIN Owed' = DOMAIN Owed \ {p}
    <3>1. \A q : q \in 1 .. Len(receipts') <=> q \in 1 .. n \/ q = n + 1
      BY <1>10, OneMore
    <3>2. \A q : q \in DOMAIN Owed' <=> q \in DOMAIN Owed /\ q # p
      BY <1>3, <1>10, <1>13, <3>1, OwedIs, OwedIsPrime DEF n
    <3> QED BY <3>2
  <2>2. \A q \in DOMAIN Owed' : Owed'[q] = Owed[q]
    BY <1>10, <2>1, OwedIs, OwedIsPrime DEF n
  <2> QED BY <2>1, <2>2, OwedIsPrime
<1> QED BY <1>2, <1>14, <1>15, <1>16 DEF Money!Claim, a

-----------------------------------------------------------------------------
(* The theorem *)

LEMMA StepIsMoney == IInv /\ [Next]_vars => [Money!Next]_(Money!vars)
PROOF
<1> SUFFICES ASSUME IInv, [Next]_vars PROVE [Money!Next]_(Money!vars)
  OBVIOUS
<1>1. CASE UNCHANGED store
  BY <1>1, StoreDecides
<1>2. ASSUME NEW a \in Accounts, NEW r \in Rands, register(a, r) PROVE UNCHANGED Money!vars
  BY <1>2, RegisterStutters
<1>3. ASSUME NEW env \in Envelopes, Accepted(env), WriteOp(env) PROVE Money!Next
  <2>1. CASE IsSend(env)
    <3>1. /\ env.account \in Accounts /\ env.receipt.to \in Accounts \cup {WithdrawReceiver}
          /\ env.receipt.amt \in Amounts
      BY <2>1 DEF IsSend, Envelopes
    <3>2. Money!Send(env.account, Len(receipts) + 1, env.receipt.to, env.receipt.amt) /\ Len(receipts) + 1 \in Positions
      BY <1>3, <2>1, SendSends
    <3> QED BY <3>1, <3>2 DEF Money!Next
  <2>2. CASE IsReceive(env)
    <3>1. env.account \in Accounts
      BY DEF Envelopes
    <3> QED BY <1>3, <2>2, <3>1, ReceiveClaims DEF Money!Next
  <2> QED BY <1>3, <2>1, <2>2 DEF Accepted, ProofVerifies
<1>4. ASSUME NEW d \in DepositIds, NEW a \in Accounts, NEW v \in Amounts, mint(d, a, v) PROVE Money!Next
  BY <1>4, MintDeposits DEF Money!Next
<1> QED BY <1>1, <1>2, <1>3, <1>4, StoreMoves

LEMMA InitIsMoney == Init => Money!Init
PROOF
<1> SUFFICES ASSUME Init PROVE Money!Init
  OBVIOUS
<1>1. BalanceOf = [a \in Accounts |-> 0]
  BY DEF Init, BalanceOf
<1>2. Len(receipts) = 0 /\ DOMAIN deposits = {}
  BY DEF Init
<1>3. Owed = << >>
  <2>1. DOMAIN Owed = {}
    BY <1>2, OwedIs
  <2> QED BY <2>1, OwedIs
<1> QED BY <1>1, <1>2, <1>3 DEF Money!Init

\* Hidden operations, batches, failed writes, restarts and redelivered
\* envelopes move money only as deposits, sends and claims would
\* (ledger.rs apply, apply_batch, mint).
THEOREM LedgerImplementsMoney == Spec => ImplementsLinkMoney
PROOF
<1>1. Spec => Money!Init /\ [][Money!Next]_(Money!vars)
  BY InitIsMoney, StepIsMoney, LedgerInvariant, PTL DEF Spec
<1> QED BY <1>1 DEF ImplementsLinkMoney, Money!Spec

-----------------------------------------------------------------------------
(* Replay: whatever recursion the history defines, it ends in the live state. *)

ReplayEq(g) == g = [n \in 0 .. Len(ops) |-> IF n = 0 THEN Fresh ELSE ReplayOne(g[n - 1], ops[n])]

\* A ledger that refused no row, as a record, so that a step of the replay reads as a record too.
Book(acc, log, rec, ids) == [accounts |-> acc, log |-> log, recent |-> rec, ids |-> ids, ok |-> TRUE]

\* The equations of the next lemmas, as predicates to match on.
Steps(t, s, row) == t = ReplayOne(s, row)
Lands(t, acc, log, rec, ids) == t = Book(acc, log, rec, ids)
Logs(t, s, leaf) == t = Appended(s, leaf)
Grows(longer, log, leaf) == longer = Append(log, leaf)

LEMMA BookAppended ==
  ASSUME NEW acc, NEW log, NEW rec, NEW ids, NEW leaf, NEW s, Lands(s, acc, log, rec, ids),
         NEW longer, Grows(longer, log, leaf), NEW t, Logs(t, s, leaf)
  PROVE  Lands(t, acc, longer, PushRecent(rec, longer), ids)
PROOF
<1>0. s = Book(acc, log, rec, ids) /\ longer = Append(log, leaf) /\ t = Appended(s, leaf)
  BY DEF Lands, Grows, Logs
<1>1. s.log = log /\ s.recent = rec
  BY <1>0 DEF Book
<1>2. Append(s.log, leaf) = longer
  BY <1>0, <1>1, Zenon
<1>3. t = [s EXCEPT !.log = longer, !.recent = PushRecent(rec, longer)]
  BY <1>0, <1>1, <1>2 DEF Appended
<1>4. t = Book(acc, longer, PushRecent(rec, longer), ids)
  BY <1>0, <1>3 DEF Book
<1> QED BY <1>4 DEF Lands

LEMMA BookOp ==
  ASSUME NEW acc, NEW log, NEW rec, NEW ids, NEW s, Lands(s, acc, log, rec, ids),
         NEW row, row.kind = "op", OpPasses(acc, rec, row.env),
         NEW longer, Grows(longer, log, row.env.receipt), NEW u, Steps(u, s, row)
  PROVE  Lands(u, [acc EXCEPT ![row.env.account] = row.env.com_new], longer, PushRecent(rec, longer), ids)
PROOF
<1>1. s.accounts = acc /\ s.recent = rec
  BY DEF Book, Lands
<1>2. PICK t : t = Appended(s, row.env.receipt)
  OBVIOUS
<1>3. Lands(t, acc, longer, PushRecent(rec, longer), ids)
  <2>1. Logs(t, s, row.env.receipt)
    BY <1>2 DEF Logs
  <2> QED BY <2>1, BookAppended, Zenon
<1>4. u = [t EXCEPT !.accounts[row.env.account] = row.env.com_new,
                    !.ok = @ /\ OpPasses(s.accounts, s.recent, row.env)]
  BY <1>2 DEF ReplayOne, Steps
<1>5. u = [t EXCEPT !.accounts[row.env.account] = row.env.com_new, !.ok = @ /\ TRUE]
  BY <1>1, <1>4
<1> QED BY <1>3, <1>5 DEF Book, Lands

LEMMA BookMint ==
  ASSUME NEW acc, NEW log, NEW rec, NEW ids, NEW s, Lands(s, acc, log, rec, ids),
         NEW row, row.kind = "mint", row.id \notin ids,
         NEW longer, Grows(longer, log, row.receipt), NEW u, Steps(u, s, row)
  PROVE  Lands(u, acc, longer, PushRecent(rec, longer), ids \cup {row.id})
PROOF
<1>1. s.ids = ids
  BY DEF Book, Lands
<1>2. PICK t : t = Appended(s, row.receipt)
  OBVIOUS
<1>3. Lands(t, acc, longer, PushRecent(rec, longer), ids)
  <2>1. Logs(t, s, row.receipt)
    BY <1>2 DEF Logs
  <2> QED BY <2>1, BookAppended, Zenon
<1>4. u = [t EXCEPT !.ids = @ \cup {row.id}, !.ok = @ /\ row.id \notin s.ids]
  BY <1>2 DEF ReplayOne, Steps
<1>5. u = [t EXCEPT !.ids = @ \cup {row.id}, !.ok = @ /\ TRUE]
  BY <1>1, <1>4
<1> QED BY <1>3, <1>5 DEF Book, Lands

\* The store as a replayed ledger has it.
Live == Book(accounts, receipts, RecentFromTree(receipts), DOMAIN deposits)

RunsBack ==
  /\ \E g : ReplayEq(g)
  /\ \A g : ReplayEq(g) => g[Len(ops)] = Live

LEMMA ReplayForm ==
  verify_replay = (CHOOSE g : ReplayEq(g))[Len(ops)]
  BY DEF verify_replay, Replayed, ReplayEq

LEMMA ReplayInit ==
  ASSUME Init
  PROVE  RunsBack
PROOF
<1>1. Live = Fresh /\ Len(ops) = 0 /\ 0 .. Len(ops) = {0}
  BY DEF Init, Live, Fresh, Book
<1>2. ReplayEq([n \in 0 .. Len(ops) |-> Fresh])
  BY <1>1 DEF ReplayEq
<1>3. ASSUME NEW g, ReplayEq(g) PROVE g[Len(ops)] = Live
  BY <1>1, <1>3 DEF ReplayEq
<1> QED BY <1>2, <1>3 DEF RunsBack

\* One more row that the live state accepts, and that moves it as the replay does.
LEMMA ReplayExtends ==
  ASSUME IInv, RunsBack, NEW row \in Rows, ops' = Append(ops, row), ReplayOne(Live, row) = Live'
  PROVE  RunsBack'
PROOF
<1>1. /\ Len(ops) \in Nat /\ Len(ops') = Len(ops) + 1
      /\ \A i \in 1 .. Len(ops) : ops'[i] = ops[i]
      /\ ops'[Len(ops) + 1] = row
  BY AppendRow
<1>2. PICK m \in Nat : m = Len(ops)
  BY <1>1
<1>3. Len(ops') = m + 1 /\ ops'[m + 1] = row /\ \A i \in 1 .. m : ops'[i] = ops[i]
  BY <1>1, <1>2
<1>4. ASSUME NEW g, ReplayEq(g)'
      PROVE  g[m + 1] = Live'
  <2>1. g = [n \in 0 .. m + 1 |-> IF n = 0 THEN Fresh ELSE ReplayOne(g[n - 1], ops'[n])]
    BY <1>3, <1>4 DEF ReplayEq, Fresh
  <2>2. PICK h : h = [n \in 0 .. m |-> g[n]]
    OBVIOUS
  <2>3. ASSUME NEW n \in 0 .. m
        PROVE  h[n] = IF n = 0 THEN Fresh ELSE ReplayOne(h[n - 1], ops[n])
    <3>1. n \in 0 .. m + 1 /\ h[n] = g[n]
      BY <2>2
    <3>2. g[n] = IF n = 0 THEN Fresh ELSE ReplayOne(g[n - 1], ops'[n])
      BY <2>1, <3>1, Zenon
    <3>3. CASE n # 0
      <4>1. n \in 1 .. m /\ n - 1 \in 0 .. m
        BY <3>3
      <4>2. h[n - 1] = g[n - 1] /\ ops'[n] = ops[n]
        BY <1>3, <2>2, <4>1
      <4> QED BY <3>1, <3>2, <3>3, <4>2
    <3> QED BY <3>1, <3>2, <3>3
  <2>4. h = [n \in 0 .. m |-> IF n = 0 THEN Fresh ELSE ReplayOne(h[n - 1], ops[n])]
    BY <2>2, <2>3
  <2>5. ReplayEq(h)
    BY <1>2, <2>4 DEF ReplayEq
  <2>6. h[m] = Live
    BY <1>2, <2>5 DEF RunsBack
  <2>7. m + 1 \in 0 .. m + 1 /\ m + 1 # 0 /\ (m + 1) - 1 = m /\ m \in 0 .. m
    OBVIOUS
  <2>8. g[m + 1] = ReplayOne(g[(m + 1) - 1], ops'[m + 1])
    BY <2>1, <2>7, Zenon
  <2>9. g[m] = h[m]
    BY <2>2, <2>7
  <2> QED BY <1>3, <2>6, <2>7, <2>8, <2>9
<1>5. \E g : ReplayEq(g)'
  <2>1. PICK h : ReplayEq(h)
    BY DEF RunsBack
  <2>2. h = [n \in 0 .. m |-> IF n = 0 THEN Fresh ELSE ReplayOne(h[n - 1], ops[n])]
    BY <1>2, <2>1 DEF ReplayEq
  <2>3. PICK g : g = [n \in 0 .. m + 1 |-> IF n = m + 1 THEN ReplayOne(h[m], row) ELSE h[n]]
    OBVIOUS
  <2>4. ASSUME NEW n \in 0 .. m + 1
        PROVE  g[n] = IF n = 0 THEN Fresh ELSE ReplayOne(g[n - 1], ops'[n])
    <3>1. CASE n = m + 1
      <4>1. n # 0 /\ n - 1 = m /\ m \in 0 .. m + 1 /\ m # m + 1
        BY <3>1
      <4>2. g[n] = ReplayOne(h[m], row) /\ g[m] = h[m]
        BY <2>3, <3>1, <4>1
      <4> QED BY <1>3, <3>1, <4>1, <4>2
    <3>2. CASE n # m + 1
      <4>1. n \in 0 .. m
        BY <3>2
      <4>2. g[n] = h[n]
        BY <2>3, <3>2
      <4>3. h[n] = IF n = 0 THEN Fresh ELSE ReplayOne(h[n - 1], ops[n])
        BY <2>2, <4>1, Zenon
      <4>4. CASE n # 0
        <5>1. n \in 1 .. m /\ n - 1 \in 0 .. m + 1 /\ n - 1 # m + 1
          BY <4>1, <4>4
        <5>2. g[n - 1] = h[n - 1] /\ ops'[n] = ops[n]
          BY <1>3, <2>3, <5>1
        <5> QED BY <4>2, <4>3, <4>4, <5>2
      <4> QED BY <4>2, <4>3, <4>4
    <3> QED BY <3>1, <3>2
  <2>5. g = [n \in 0 .. m + 1 |-> IF n = 0 THEN Fresh ELSE ReplayOne(g[n - 1], ops'[n])]
    BY <2>3, <2>4
  <2>6. ReplayEq(g)'
    BY <1>3, <2>5 DEF ReplayEq, Fresh
  <2> QED BY <2>6
<1> QED BY <1>3, <1>4, <1>5 DEF RunsBack

\* An accepted operation passes again on the replayed ledger.
LEMMA ReplayAccepts ==
  ASSUME IInv, RunsBack, NEW env \in Envelopes, Accepted(env), WriteOp(env)
  PROVE  RunsBack'
PROOF
<1>1. PICK row : row = [kind |-> "op", env |-> env]
  OBVIOUS
<1>2. row \in Rows /\ row.kind = "op" /\ row.env = env
  BY <1>1 DEF Rows
<1>3. /\ ops' = Append(ops, row) /\ deposits' = deposits
      /\ accounts' = [accounts EXCEPT ![env.account] = env.com_new]
      /\ AppendReceipt(env.receipt) /\ env.receipt \in Leaves
  BY <1>1 DEF WriteOp, Envelopes
<1>4. receipts \in Seq(Leaves) /\ tree = receipts /\ recent = RecentFromTree(receipts)
  BY DEF IInv, TypeOK, MemoryIsStore
<1>5. receipts' = Append(receipts, env.receipt)
  BY <1>3 DEF AppendReceipt
<1>6. PushRecent(RecentFromTree(receipts), receipts') = RecentFromTree(receipts')
  BY <1>3, <1>4, <1>5, PushIsRebuild
<1>7. OpPasses(accounts, RecentFromTree(receipts), env)
  BY <1>4, AcceptedClaims DEF OpPasses, Accepted
<1>8. PICK u : u = ReplayOne(Live, row)
  OBVIOUS
<1>9. u = Book([accounts EXCEPT ![row.env.account] = row.env.com_new], receipts',
               PushRecent(RecentFromTree(receipts), receipts'), DOMAIN deposits)
  <2>1. PICK acc, log, rec, ids, longer :
             /\ acc = accounts /\ log = receipts /\ rec = RecentFromTree(receipts)
             /\ ids = DOMAIN deposits /\ longer = receipts'
    OBVIOUS
  <2>2. PICK s : s = Live
    OBVIOUS
  <2>3. Lands(s, acc, log, rec, ids)
    BY <2>1, <2>2 DEF Live, Lands
  <2>4. OpPasses(acc, rec, row.env) /\ Grows(longer, log, row.env.receipt) /\ Steps(u, s, row)
    BY <1>2, <1>5, <1>7, <1>8, <2>1, <2>2 DEF Grows, Steps
  <2>5. Lands(u, [acc EXCEPT ![row.env.account] = row.env.com_new], longer, PushRecent(rec, longer), ids)
    BY <1>2, <2>3, <2>4, BookOp, Zenon
  <2> QED BY <2>1, <2>5 DEF Lands
<1>10. ReplayOne(Live, row) = Live'
  BY <1>2, <1>3, <1>6, <1>8, <1>9 DEF Live
<1> QED BY <1>2, <1>3, <1>10, ReplayExtends

LEMMA ReplayRegisters ==
  ASSUME IInv, RunsBack, NEW a \in Accounts, NEW r \in Rands, register(a, r)
  PROVE  RunsBack'
PROOF
<1>1. PICK row : row = [kind |-> "register", account |-> a, r |-> r]
  OBVIOUS
<1>2. row \in Rows /\ row.kind = "register" /\ row.account = a /\ row.r = r
  BY <1>1 DEF Rows
<1>3. /\ ops' = Append(ops, row) /\ deposits' = deposits /\ receipts' = receipts
      /\ accounts' = [accounts EXCEPT ![a] = [bal |-> 0, claimed |-> {}, r |-> r]]
      /\ accounts[a] = Unregistered
  BY <1>1 DEF register
<1>4. ReplayOne(Live, row) = [Live EXCEPT !.accounts[a] = [bal |-> 0, claimed |-> {}, r |-> r], !.ok = TRUE]
  BY <1>2, <1>3 DEF ReplayOne, Live, Book
<1>5. ReplayOne(Live, row) = Live'
  BY <1>3, <1>4 DEF Live, Book
<1> QED BY <1>2, <1>3, <1>5, ReplayExtends

LEMMA ReplayMints ==
  ASSUME IInv, RunsBack, NEW d \in DepositIds, NEW a \in Accounts, NEW v \in Amounts, mint(d, a, v)
  PROVE  RunsBack'
PROOF
<1>1. PICK leaf \in Leaves : leaf = MintReceipt(a, v)
  BY DEF MintReceipt, Leaves, Parties
<1>2. PICK row : row = [kind |-> "mint", id |-> d, receipt |-> leaf]
  OBVIOUS
<1>3. row \in Rows /\ row.kind = "mint" /\ row.id = d /\ row.receipt = leaf
  BY <1>2 DEF Rows
<1>4. /\ ops' = Append(ops, row) /\ accounts' = accounts /\ AppendReceipt(leaf)
      /\ d \notin DOMAIN deposits /\ DOMAIN deposits' = DOMAIN deposits \cup {d}
  BY <1>1, <1>2 DEF mint
<1>5. receipts \in Seq(Leaves) /\ tree = receipts /\ recent = RecentFromTree(receipts)
  BY DEF IInv, TypeOK, MemoryIsStore
<1>6. receipts' = Append(receipts, leaf)
  BY <1>4 DEF AppendReceipt
<1>7. PushRecent(RecentFromTree(receipts), receipts') = RecentFromTree(receipts')
  BY <1>5, <1>6, PushIsRebuild
<1>8. PICK u : u = ReplayOne(Live, row)
  OBVIOUS
<1>9. u = Book(accounts, receipts', PushRecent(RecentFromTree(receipts), receipts'), DOMAIN deposits \cup {d})
  <2>1. PICK acc, log, rec, ids, longer :
             /\ acc = accounts /\ log = receipts /\ rec = RecentFromTree(receipts)
             /\ ids = DOMAIN deposits /\ longer = receipts'
    OBVIOUS
  <2>2. PICK s : s = Live
    OBVIOUS
  <2>3. Lands(s, acc, log, rec, ids)
    BY <2>1, <2>2 DEF Live, Lands
  <2>4. row.id \notin ids /\ Grows(longer, log, row.receipt) /\ Steps(u, s, row)
    BY <1>3, <1>4, <1>6, <1>8, <2>1, <2>2 DEF Grows, Steps
  <2>5. Lands(u, acc, longer, PushRecent(rec, longer), ids \cup {row.id})
    BY <1>3, <2>3, <2>4, BookMint, Zenon
  <2> QED BY <1>3, <2>1, <2>5 DEF Lands
<1>10. ReplayOne(Live, row) = Live'
  BY <1>4, <1>7, <1>8, <1>9 DEF Live
<1> QED BY <1>3, <1>4, <1>10, ReplayExtends

\* Replaying the whole accepted history accepts every row and lands on the state
\* the store holds (verify_replay): batches, retries, failed writes and restarts
\* accept exactly what one-by-one application would.
THEOREM ReplayAlwaysAgrees == Spec => []ReplayAgrees
PROOF
<1>1. Init => RunsBack
  BY ReplayInit
<1>2. IInv /\ RunsBack /\ [Next]_vars => RunsBack'
  <2> SUFFICES ASSUME IInv, RunsBack, [Next]_vars PROVE RunsBack'
    OBVIOUS
  <2>1. CASE UNCHANGED store
    <3>1. ops' = ops /\ Live' = Live
      BY <2>1 DEF store, Live
    <3>2. ASSUME NEW g PROVE ReplayEq(g)' <=> ReplayEq(g)
      BY <3>1 DEF ReplayEq, Fresh
    <3> QED BY <3>1, <3>2 DEF RunsBack
  <2> QED BY <2>1, StoreMoves, ReplayRegisters, ReplayAccepts, ReplayMints
<1>3. RunsBack => ReplayAgrees
  <2> SUFFICES ASSUME RunsBack PROVE ReplayAgrees
    OBVIOUS
  <2>1. PICK g : g = CHOOSE x : ReplayEq(x)
    OBVIOUS
  <2>2. ReplayEq(g)
    BY <2>1 DEF RunsBack
  <2>3. verify_replay = Live
    BY <2>1, <2>2, ReplayForm DEF RunsBack
  <2> QED BY <2>3 DEF ReplayAgrees, Live, Book
<1> QED BY <1>1, <1>2, <1>3, LedgerInvariant, PTL DEF Spec

-----------------------------------------------------------------------------
(* Conservation: a sum moves with the one account, payment or deposit that a *)
(* deposit, a send or a claim moves.                                         *)

Due == [p \in DOMAIN Owed |-> Owed[p].amt]
Credits == [d \in DOMAIN deposits |-> receipts[deposits[d]].amt]

Conserves ==
  /\ IsFiniteSet(DOMAIN deposits)
  /\ Conservation

LEMMA ConservationIs ==
  Conservation <=> SumFunctionOnSet(Credits, DOMAIN deposits)
                     = SumFunctionOnSet(BalanceOf, Accounts) + SumFunctionOnSet(Due, DOMAIN Owed)
PROOF
<1>1. DOMAIN Credits = DOMAIN deposits /\ DOMAIN BalanceOf = Accounts /\ DOMAIN Due = DOMAIN Owed
  BY DEF Credits, BalanceOf, Due
<1> QED BY <1>1 DEF Conservation, minted_total, SumFunction, Credits, Due

LEMMA ConservationIsPrime ==
  Conservation' <=> SumFunctionOnSet(Credits, DOMAIN deposits)'
                      = SumFunctionOnSet(BalanceOf, Accounts)' + SumFunctionOnSet(Due, DOMAIN Owed)'
PROOF
<1>1. DOMAIN Credits' = DOMAIN deposits' /\ DOMAIN BalanceOf' = Accounts /\ DOMAIN Due' = DOMAIN Owed'
  BY DEF Credits, BalanceOf, Due
<1> QED BY <1>1 DEF Conservation, minted_total, SumFunction, Credits, Due

LEMMA MoneyTypes ==
  ASSUME IInv
  PROVE  /\ \A a \in Accounts : BalanceOf[a] \in Int
         /\ \A p \in DOMAIN Owed : Due[p] \in Int /\ Due[p] = Owed[p].amt
         /\ \A d \in DOMAIN deposits : Credits[d] \in Int
         /\ IsFiniteSet(DOMAIN Owed)
PROOF
<1>1. /\ receipts \in Seq(Leaves) /\ Len(receipts) \in Nat
      /\ \A p \in 1 .. Len(receipts) : receipts[p] \in Leaves
      /\ \A d \in DOMAIN deposits : deposits[d] \in 1 .. Len(receipts)
  BY DEF IInv, TypeOK
<1>2. \A leaf \in Leaves : leaf.amt \in Int
  <2>1. ASSUME NEW leaf \in Leaves PROVE leaf.amt \in Amounts \cup {0}
    BY DEF Leaves
  <2>2. \A v \in Amounts \cup {0} : v \in Int
    BY ValueAssumption
  <2> QED BY <2>1, <2>2, Zenon
<1>3. \A a \in Accounts : BalanceOf[a] \in Int
  BY ValueAssumption DEF BalanceOf, IInv, TypeOK, Commitments
<1>4. \A p \in DOMAIN Owed : Due[p] \in Int /\ Due[p] = Owed[p].amt
  BY <1>1, <1>2, OwedIs DEF Due
<1>5. \A d \in DOMAIN deposits : Credits[d] \in Int
  BY <1>1, <1>2 DEF Credits
<1>6. IsFiniteSet(DOMAIN Owed)
  <2>1. DOMAIN Owed \subseteq 1 .. Len(receipts)
    BY OwedIs
  <2>2. IsFiniteSet(1 .. Len(receipts))
    BY <1>1, FS_Interval
  <2> QED BY <2>1, <2>2, FS_Subset
<1> QED BY <1>3, <1>4, <1>5, <1>6

LEMMA DueGrows ==
  ASSUME IInv, NEW p, NEW v \in Int, NEW to, Money!Owe(p, v, to)
  PROVE  SumFunctionOnSet(Due, DOMAIN Owed)' = SumFunctionOnSet(Due, DOMAIN Owed) + v
PROOF
<1>1. p \notin DOMAIN Owed /\ DOMAIN Owed' = DOMAIN Owed \cup {p}
  BY DEF Money!Owe
<1>2. \A q \in DOMAIN Owed \cup {p} : Owed'[q] = IF q = p THEN [amt |-> v, to |-> to] ELSE Owed[q]
  BY DEF Money!Owe
<1>3. PICK S, f, h : S = DOMAIN Owed /\ f = Due /\ h = Due'
  OBVIOUS
<1>4. h = [q \in DOMAIN Owed' |-> Owed'[q].amt] /\ f = [q \in DOMAIN Owed |-> Owed[q].amt]
  BY <1>3 DEF Due
<1>5. h[p] = v /\ \A q \in S : f[q] \in Int /\ h[q] = f[q]
  BY <1>1, <1>2, <1>3, <1>4, MoneyTypes
<1>6. SumFunctionOnSet(h, S \cup {p}) = SumFunctionOnSet(f, S) + h[p]
  <2>1. IsFiniteSet(S) /\ p \notin S /\ h[p] \in Int
    BY <1>1, <1>3, <1>5, MoneyTypes
  <2> QED BY <1>5, <2>1, SumAdds
<1> QED BY <1>1, <1>3, <1>5, <1>6

LEMMA SendConserves ==
  ASSUME IInv, Conserves, NEW a \in Accounts, NEW p, NEW v \in Amounts, NEW to, Money!Send(a, p, to, v),
         SumFunctionOnSet(Credits, DOMAIN deposits)' = SumFunctionOnSet(Credits, DOMAIN deposits)
  PROVE  Conservation'
PROOF
<1>1. /\ BalanceOf' = [BalanceOf EXCEPT ![a] = @ - v] /\ Money!Owe(p, v, to) /\ v \in Int
  BY ValueAssumption DEF Money!Send
<1>2. PICK f, h : f = BalanceOf /\ h = BalanceOf'
  OBVIOUS
<1>3. DOMAIN f = Accounts /\ h = [f EXCEPT ![a] = @ - v]
  BY <1>1, <1>2 DEF BalanceOf
<1>4. (\A b \in Accounts : f[b] \in Int) /\ h[a] = f[a] - v /\ \A b \in Accounts \ {a} : h[b] = f[b]
  BY <1>2, <1>3, MoneyTypes
<1>5. /\ SumFunctionOnSet(h, Accounts) = SumFunctionOnSet(f, Accounts) - f[a] + h[a]
      /\ SumFunctionOnSet(f, Accounts) \in Int
  <2>1. h[a] \in Int
    BY <1>1, <1>4
  <2> QED BY <1>4, <2>1, AccountsAssumption, SumMoves
<1>6. SumFunctionOnSet(Due, DOMAIN Owed)' = SumFunctionOnSet(Due, DOMAIN Owed) + v
  BY <1>1, DueGrows
<1>7. SumFunctionOnSet(Due, DOMAIN Owed) \in Int
  BY MoneyTypes, SumSplit
<1>8. SumFunctionOnSet(BalanceOf, Accounts)' = SumFunctionOnSet(BalanceOf, Accounts) - v
  BY <1>1, <1>2, <1>4, <1>5
<1> QED BY <1>1, <1>2, <1>5, <1>6, <1>7, <1>8, ConservationIs, ConservationIsPrime DEF Conserves

LEMMA ClaimConserves ==
  ASSUME IInv, Conserves, NEW a \in Accounts, NEW p, Money!Claim(a, p),
         SumFunctionOnSet(Credits, DOMAIN deposits)' = SumFunctionOnSet(Credits, DOMAIN deposits)
  PROVE  Conservation'
PROOF
<1>1. /\ p \in DOMAIN Owed /\ BalanceOf' = [BalanceOf EXCEPT ![a] = @ + Owed[p].amt]
      /\ Owed' = [q \in DOMAIN Owed \ {p} |-> Owed[q]]
  BY DEF Money!Claim
<1>2. PICK f, h, v : f = BalanceOf /\ h = BalanceOf' /\ v = Owed[p].amt
  OBVIOUS
<1>3. DOMAIN f = Accounts /\ h = [f EXCEPT ![a] = @ + v] /\ v \in Int /\ v = Due[p]
  BY <1>1, <1>2, MoneyTypes DEF BalanceOf
<1>4. (\A b \in Accounts : f[b] \in Int) /\ h[a] = f[a] + v /\ \A b \in Accounts \ {a} : h[b] = f[b]
  BY <1>2, <1>3, MoneyTypes
<1>5. /\ SumFunctionOnSet(h, Accounts) = SumFunctionOnSet(f, Accounts) - f[a] + h[a]
      /\ SumFunctionOnSet(f, Accounts) \in Int
  <2>1. h[a] \in Int
    BY <1>3, <1>4
  <2> QED BY <1>4, <2>1, AccountsAssumption, SumMoves
<1>6. SumFunctionOnSet(BalanceOf, Accounts)' = SumFunctionOnSet(BalanceOf, Accounts) + v
  BY <1>2, <1>3, <1>4, <1>5
<1>7. /\ SumFunctionOnSet(Due, DOMAIN Owed)' = SumFunctionOnSet(Due, DOMAIN Owed) - v
      /\ SumFunctionOnSet(Due, DOMAIN Owed) \in Int
  <2>1. PICK S, g, k : S = DOMAIN Owed /\ g = Due /\ k = Due'
    OBVIOUS
  <2>2. k = [q \in DOMAIN Owed' |-> Owed'[q].amt] /\ g = [q \in DOMAIN Owed |-> Owed[q].amt]
    BY <2>1 DEF Due
  <2>3. DOMAIN Owed' = S \ {p} /\ p \in S /\ IsFiniteSet(S)
    BY <1>1, <2>1, MoneyTypes
  <2>4. (\A q \in S : g[q] \in Int) /\ (\A q \in S \ {p} : k[q] = g[q])
    BY <1>1, <2>1, <2>2, <2>3, MoneyTypes
  <2>5. SumFunctionOnSet(k, S \ {p}) = SumFunctionOnSet(g, S) - g[p] /\ SumFunctionOnSet(g, S) \in Int
    BY <2>3, <2>4, SumDrops
  <2> QED BY <1>3, <2>1, <2>3, <2>5
<1> QED BY <1>3, <1>5, <1>2, <1>6, <1>7, ConservationIs, ConservationIsPrime DEF Conserves

LEMMA MintConserves ==
  ASSUME IInv, Conserves, NEW d \in DepositIds, NEW a \in Accounts, NEW v \in Amounts, mint(d, a, v)
  PROVE  Conserves'
PROOF
<1>1. PICK n : n = Len(receipts)
  OBVIOUS
<1>2. Money!Deposit(d, n + 1, a, v)
  BY <1>1, MintDeposits
<1>3. /\ d \notin DOMAIN deposits /\ DOMAIN deposits' = DOMAIN deposits \cup {d}
      /\ BalanceOf' = BalanceOf /\ Money!Owe(n + 1, v, a) /\ v \in Int
  BY <1>2, ValueAssumption DEF Money!Deposit
<1>4. PICK leaf \in Leaves : leaf = MintReceipt(a, v)
  BY DEF MintReceipt, Leaves, Parties
<1>5. /\ Len(receipts') = n + 1 /\ n \in Nat /\ receipts'[n + 1] = leaf /\ leaf.amt = v
      /\ \A p \in 1 .. n : receipts'[p] = receipts[p]
  <2>1. AppendReceipt(leaf)
    BY <1>4 DEF mint
  <2> QED BY <1>1, <1>4, <2>1, AppendReceiptTypes DEF MintReceipt
<1>6. deposits'[d] = n + 1 /\ \A e \in DOMAIN deposits : deposits'[e] = deposits[e] /\ deposits[e] \in 1 .. n
  BY <1>1, <1>3 DEF mint, IInv, TypeOK
<1>7. PICK S, f, h : S = DOMAIN deposits /\ f = Credits /\ h = Credits'
  OBVIOUS
<1>8. h = [e \in DOMAIN deposits' |-> receipts'[deposits'[e]].amt] /\ f = [e \in S |-> receipts[deposits[e]].amt]
  BY <1>7 DEF Credits
<1>9. h[d] = v /\ \A e \in S : f[e] \in Int /\ h[e] = f[e]
  BY <1>3, <1>5, <1>6, <1>7, <1>8, MoneyTypes
<1>10. SumFunctionOnSet(h, S \cup {d}) = SumFunctionOnSet(f, S) + h[d]
  <2>1. IsFiniteSet(S) /\ d \notin S /\ h[d] \in Int
    BY <1>3, <1>7, <1>9 DEF Conserves
  <2> QED BY <1>9, <2>1, SumAdds
<1>11. SumFunctionOnSet(Credits, DOMAIN deposits)' = SumFunctionOnSet(Credits, DOMAIN deposits) + v
  BY <1>3, <1>7, <1>9, <1>10
<1>12. SumFunctionOnSet(Due, DOMAIN Owed)' = SumFunctionOnSet(Due, DOMAIN Owed) + v
  BY <1>3, DueGrows
<1>13. SumFunctionOnSet(Due, DOMAIN Owed) \in Int /\ SumFunctionOnSet(BalanceOf, Accounts) \in Int
  BY MoneyTypes, SumSplit, AccountsAssumption
<1>14. IsFiniteSet(DOMAIN deposits')
  BY <1>3, FS_AddElement DEF Conserves
<1> QED BY <1>3, <1>11, <1>12, <1>13, <1>14, ConservationIs, ConservationIsPrime DEF Conserves

LEMMA WriteOpConserves ==
  ASSUME IInv, Conserves, NEW env \in Envelopes, Accepted(env), WriteOp(env)
  PROVE  Conserves'
PROOF
<1>1. deposits' = deposits /\ AppendReceipt(env.receipt) /\ env.receipt \in Leaves
  BY DEF WriteOp, Envelopes
<1>2. \A p \in 1 .. Len(receipts) : receipts'[p] = receipts[p]
  BY <1>1, AppendReceiptTypes
<1>3. Credits' = Credits
  BY <1>1, <1>2 DEF Credits, IInv, TypeOK
<1>4. SumFunctionOnSet(Credits, DOMAIN deposits)' = SumFunctionOnSet(Credits, DOMAIN deposits)
  BY <1>1, <1>3
<1>5. CASE IsSend(env)
  <2>1. env.account \in Accounts /\ env.receipt.amt \in Amounts
    BY <1>5 DEF IsSend, Envelopes
  <2>2. Money!Send(env.account, Len(receipts) + 1, env.receipt.to, env.receipt.amt)
    BY <1>5, SendSends
  <2> QED BY <1>1, <1>4, <2>1, <2>2, SendConserves DEF Conserves
<1>6. CASE IsReceive(env)
  <2>1. env.account \in Accounts
    BY DEF Envelopes
  <2>2. PICK p \in Positions : Money!Claim(env.account, p)
    BY <1>6, ReceiveClaims
  <2> QED BY <1>1, <1>4, <2>1, <2>2, ClaimConserves DEF Conserves
<1> QED BY <1>5, <1>6 DEF Accepted, ProofVerifies

\* Nothing is minted that accounts do not hold, or that is not owed or burned
\* (ledger.rs minted_total against the gateway's reserves).
THEOREM AlwaysConserved == Spec => []Conservation
PROOF
<1>1. Init => Conserves
  <2> SUFFICES ASSUME Init PROVE Conserves
    OBVIOUS
  <2>1. Money!Init /\ DOMAIN deposits = {}
    BY InitIsMoney DEF Init
  <2>2. DOMAIN Owed = {} /\ \A a \in Accounts : BalanceOf[a] = 0
    BY <2>1 DEF Money!Init
  <2>3. SumFunctionOnSet(BalanceOf, Accounts) = 0
    BY <2>2, AccountsAssumption, SumZero
  <2>4. SumFunctionOnSet(Credits, {}) = 0 /\ SumFunctionOnSet(Due, {}) = 0 /\ IsFiniteSet({})
    BY SumUnfold, FS_EmptySet
  <2> QED BY <2>1, <2>2, <2>3, <2>4, ConservationIs DEF Conserves
<1>2. IInv /\ Conserves /\ [Next]_vars => Conserves'
  <2> SUFFICES ASSUME IInv, Conserves, [Next]_vars PROVE Conserves'
    OBVIOUS
  <2>1. ASSUME UNCHANGED Money!vars, receipts' = receipts, deposits' = deposits PROVE Conserves'
    BY <2>1, ConservationIs, ConservationIsPrime DEF Conserves, Money!vars, Credits, Due
  <2>2. CASE UNCHANGED store
    BY <2>1, <2>2, StoreDecides DEF store
  <2>3. ASSUME NEW a \in Accounts, NEW r \in Rands, register(a, r) PROVE Conserves'
    BY <2>1, <2>3, RegisterStutters DEF register
  <2> QED BY <2>2, <2>3, StoreMoves, WriteOpConserves, MintConserves
<1>3. Conserves => Conservation
  BY DEF Conserves
<1> QED BY <1>1, <1>2, <1>3, LedgerInvariant, PTL DEF Spec

=============================================================================

------------------------ MODULE DepositWatcherProofs ------------------------
(***************************************************************************)
(* Theorems about the deposit watcher: for any deposits, chain length,     *)
(* confirmations and number of faults, as long as one rewind of the cursor *)
(* reaches under a reorganisation, mints are backed and the books are true.*)
(***************************************************************************)
EXTENDS DepositWatcher, SequenceTheorems, TLAPS

-----------------------------------------------------------------------------
(* The inductive invariant *)

Txs == {[kind |-> "empty"]} \cup [kind : {"deposit"}, deposit : Deposits]
Blocks == [tx : Txs, fork : Nat]

ChainTyped ==
    /\ chain \in Seq(Blocks)
    /\ peak \in Nat /\ forks \in Nat
    /\ Len(chain) <= peak
    /\ \A h \in DOMAIN chain : chain[h].fork <= forks

Statuses == {"unseen", "wrong_token", "bad_receipt", "unregistered", "wrong_amount", "credited"}

Handling == {"mint", "minted", "marked"}
Scanning == {"deposits", "credit", "save"} \cup Handling

StoreTyped ==
    /\ intents \in [Receipts -> {"absent", "pending", "minted"}]
    /\ observed \in [Deposits -> Statuses]
    /\ cursor.block \in Nat
    /\ cursor = [block |-> cursor.block, hash |-> cursor.hash]
    /\ pc \in {"idle", "check"} \cup Scanning
    /\ safe \in Nat /\ from \in Nat /\ to \in Nat
    /\ failed \subseteq Deposits
    /\ deep \in BOOLEAN

\* d may be minted, and is out of the reach of the reorganisations to come.
Mintable(d) ==
    /\ d \in Deposits
    /\ d.token = Token /\ d.receipt \in Receipts /\ AmountOf[d.receipt] = d.amount
    /\ deep \/ \E h \in Has("deposit") : chain[h].tx.deposit = d /\ h + Confirmations <= peak

HasMint(receipt) == \E m \in Mints : m.receipt = receipt

Minted ==
    /\ minted \in Seq(Mints)
    /\ \A m \in Mints : Mintable(m.deposit) /\ m = MintOf(m.deposit)
    /\ \A i, j \in DOMAIN minted : minted[i].deposit = minted[j].deposit => i = j
    /\ \A d \in late : Mintable(d)

\* The range of the tick lies under the confirmations of the chain.
InRange ==
    /\ pc = "check" => from = cursor.block /\ safe <= Len(chain) /\ (safe > 0 => safe + Confirmations <= peak)
    /\ pc \in Scanning => from < to /\ to <= Len(chain) /\ to + Confirmations <= peak

\* What the tick has still to handle is on the chain.
LogsAreBlocks ==
    /\ \A l \in logs : l.height \in Has("deposit") /\ l.height <= to /\ chain[l.height].tx = l.tx
    /\ pc \notin {"credit"} \cup Handling => logs = {}

CurrentIsMintable ==
    \A d \in Deposits : IsCurrent(d) =>
        /\ pc \in Handling => Mintable(d)
        /\ pc \in {"minted", "marked"} => HasMint(d.receipt)

Seen(d) == observed[d] # "unseen" \/ d \in failed

SeenTo(b) == \A h \in Has("deposit") : h \in StartBlock .. b => Seen(chain[h].tx.deposit)

\* The tick's range goes on where what was seen ends.
ScanIsSeen ==
    pc \in Scanning =>
        /\ SeenTo(from)
        /\ pc # "deposits" =>
            \A h \in Has("deposit") : h \in StartBlock .. to =>
                Seen(chain[h].tx.deposit) \/ \E l \in logs : l.height = h

\* The cursor is the start, or a block whose fork tells whether it was replaced;
\* a rewind reaches under what was.
CursorIsSeen ==
    /\ cursor.hash = None => cursor.block < StartBlock \/ cursor.block = 0
    /\ cursor.hash # None =>
        /\ \E f \in 0 .. forks : cursor.hash = <<cursor.block, f>> /\ (f = forks => cursor.block <= Len(chain))
        /\ cursor.block + Confirmations <= peak
        /\ Rewind(cursor.block) <= Len(chain)
        /\ SeenTo(Rewind(cursor.block))
    /\ ObservedBelowCursor

IInv ==
    /\ ChainTyped /\ StoreTyped
    /\ InRange /\ LogsAreBlocks
    /\ Minted /\ CurrentIsMintable /\ CreditedHasMint
    /\ ScanIsSeen /\ CursorIsSeen

-----------------------------------------------------------------------------
(* Lemmas *)

LEMMA RewindIsBelow ==
  ASSUME NEW b \in Nat
  PROVE  Rewind(b) \in Nat /\ Rewind(b) <= b /\ Confirmations \in Nat /\ StartBlock \in Nat /\ BlockRange \in Nat \ {0}
  BY WatcherAssumption DEF Rewind, SaturatingSub

\* A block on top leaves the others where they are.
LEMMA MinedOnTop ==
  ASSUME ChainTyped, NEW tx \in Txs, Mine(tx)
  PROVE  /\ ChainTyped'
         /\ Len(chain') = Len(chain) + 1 /\ peak <= peak' /\ forks' = forks
         /\ \A h \in DOMAIN chain : h \in DOMAIN chain' /\ chain'[h] = chain[h]
         /\ chain'[Len(chain) + 1].fork = forks
         /\ \A h \in DOMAIN chain' : h \in DOMAIN chain \/ h = Len(chain) + 1
PROOF
<1>1. chain' = Append(chain, [tx |-> tx, fork |-> forks]) /\ [tx |-> tx, fork |-> forks] \in Blocks
  BY DEF Mine, Blocks, ChainTyped
<1>2. chain' \in Seq(Blocks) /\ Len(chain') = Len(chain) + 1
  BY <1>1 DEF ChainTyped
<1>3. peak' \in Nat /\ Len(chain') <= peak' /\ peak <= peak' /\ forks' = forks /\ forks' \in Nat
  BY <1>2 DEF Mine, ChainTyped
<1>4. /\ \A h \in DOMAIN chain : h \in DOMAIN chain' /\ chain'[h] = chain[h]
      /\ chain'[Len(chain) + 1].fork = forks
      /\ \A h \in DOMAIN chain' : h \in DOMAIN chain \/ h = Len(chain) + 1
  BY <1>1, <1>2 DEF ChainTyped
<1>5. \A h \in DOMAIN chain' : chain'[h].fork <= forks'
  BY <1>3, <1>4 DEF ChainTyped
<1> QED BY <1>2, <1>3, <1>4, <1>5 DEF ChainTyped

\* A reorganisation keeps the blocks below it.
LEMMA ReorgKeeps ==
  ASSUME ChainTyped, NEW keep \in 0 .. Len(chain), ReorgTo(keep)
  PROVE  /\ ChainTyped'
         /\ Len(chain') = keep /\ peak' = peak /\ forks' = forks + 1
         /\ keep + MaxReorg >= peak
         /\ \A h \in DOMAIN chain' : h \in DOMAIN chain /\ h <= keep /\ chain'[h] = chain[h]
         /\ \A h \in DOMAIN chain : h <= keep => h \in DOMAIN chain'
PROOF
<1>1. chain' = SubSeq(chain, 1, keep) /\ keep \in Nat /\ keep <= Len(chain)
  BY DEF ReorgTo, ChainTyped
<1>2. chain' \in Seq(Blocks) /\ Len(chain') = keep /\ \A h \in 1 .. keep : chain'[h] = chain[h]
  BY <1>1 DEF ChainTyped
<1>3. peak' = peak /\ forks' = forks + 1 /\ keep + MaxReorg >= peak
  BY DEF ReorgTo
<1>4. /\ \A h \in DOMAIN chain' : h \in DOMAIN chain /\ h <= keep /\ chain'[h] = chain[h]
      /\ \A h \in DOMAIN chain : h <= keep => h \in DOMAIN chain'
  BY <1>1, <1>2 DEF ChainTyped
<1>5. \A h \in DOMAIN chain' : chain'[h].fork <= forks'
  <2>1. \A h \in DOMAIN chain : chain[h].fork \in Nat /\ chain[h].fork <= forks
    <3>1. \A h \in DOMAIN chain : chain[h] \in Blocks /\ chain[h].fork <= forks
      BY DEF ChainTyped
    <3> QED BY <3>1 DEF Blocks
  <2> QED BY <1>3, <1>4, <2>1 DEF ChainTyped
<1>6. peak' \in Nat /\ forks' \in Nat /\ Len(chain') <= peak'
  BY <1>1, <1>2, <1>3 DEF ChainTyped
<1> QED BY <1>2, <1>3, <1>4, <1>5, <1>6 DEF ChainTyped

LEMMA BlockIsTyped ==
  ASSUME ChainTyped, NEW h \in Has("deposit")
  PROVE  h \in DOMAIN chain /\ h \in Nat \ {0} /\ h <= Len(chain) /\ chain[h].tx.deposit \in Deposits
PROOF
<1>1. h \in DOMAIN chain /\ h \in 1 .. Len(chain) /\ Len(chain) \in Nat /\ chain[h] \in Blocks
  BY DEF ChainTyped, Has
<1>2. chain[h].tx \in Txs /\ chain[h].tx.kind = "deposit"
  BY <1>1 DEF Blocks, Has
<1> QED BY <1>1, <1>2 DEF Txs

-----------------------------------------------------------------------------
(* The invariant holds at the start and every step keeps it *)

LEMMA InvInit == Init => IInv
PROOF
<1> SUFFICES ASSUME Init PROVE IInv
  OBVIOUS
<1>1. chain = <<>> /\ peak = 0 /\ forks = 0
  BY DEF Init, ChainInit
<1>2. ChainTyped /\ \A kind : Has(kind) = {}
  BY <1>1 DEF ChainTyped, Has
<1>3. StoreTyped
  <2>1. /\ cursor.block \in Nat
        /\ cursor = [block |-> cursor.block, hash |-> cursor.hash]
    BY WatcherAssumption DEF Init
  <2>2. intents \in [Receipts -> {"absent", "pending", "minted"}] /\ observed \in [Deposits -> Statuses]
    BY DEF Init, Statuses
  <2> QED BY <2>1, <2>2 DEF Init, StoreTyped
<1>4. InRange /\ LogsAreBlocks /\ Minted /\ CurrentIsMintable /\ ScanIsSeen
  BY DEF Init, InRange, LogsAreBlocks, Minted, Mints, CurrentIsMintable, IsCurrent, ScanIsSeen, Scanning, Handling
<1>5. CreditedHasMint
  BY DEF Init, CreditedHasMint
<1>6. CursorIsSeen
  BY <1>2, WatcherAssumption DEF Init, CursorIsSeen, ObservedBelowCursor
<1> QED BY <1>2, <1>3, <1>4, <1>5, <1>6 DEF IInv

LEMMA MineStep ==
  ASSUME IInv, Chain
  PROVE  IInv'
PROOF
<1> USE DEF IInv
<1>1. PICK tx \in Txs : Mine(tx)
  BY DEF Chain, MineEmpty, deposit, Empty, Txs
<1>2. UNCHANGED <<store, minted, pc, scan, late, history, faults>>
  BY DEF Chain
<1> USE DEF store, scan, history
<1>3. /\ ChainTyped'
      /\ Len(chain') = Len(chain) + 1 /\ peak <= peak' /\ forks' = forks
      /\ \A h \in DOMAIN chain : h \in DOMAIN chain' /\ chain'[h] = chain[h]
      /\ chain'[Len(chain) + 1].fork = forks
      /\ \A h \in DOMAIN chain' : h \in DOMAIN chain \/ h = Len(chain) + 1
  BY <1>1, MinedOnTop
<1>4. Len(chain) \in Nat /\ peak \in Nat /\ peak' \in Nat /\ forks \in Nat /\ Confirmations \in Nat
  BY <1>3, WatcherAssumption DEF ChainTyped
<1>5. \A h \in Has("deposit") : h \in Has("deposit")' /\ chain'[h] = chain[h]
  BY <1>3 DEF Has
<1>6. \A h \in Has("deposit")' : h <= Len(chain) => h \in Has("deposit") /\ chain'[h] = chain[h]
  BY <1>3, <1>4 DEF Has
<1>7. StoreTyped'
  BY <1>2 DEF StoreTyped
<1>8. InRange'
  BY <1>2, <1>3, <1>4 DEF InRange, StoreTyped
<1>9. LogsAreBlocks'
  BY <1>2, <1>5 DEF LogsAreBlocks
<1>10. \A d : Mintable(d) => Mintable(d)'
  <2> SUFFICES ASSUME NEW d, Mintable(d), ~deep PROVE \E h \in Has("deposit")' : chain'[h].tx.deposit = d /\ h + Confirmations <= peak'
    BY <1>2 DEF Mintable
  <2>1. PICK h \in Has("deposit") : chain[h].tx.deposit = d /\ h + Confirmations <= peak
    BY DEF Mintable
  <2>2. h \in Nat
    BY BlockIsTyped
  <2> QED BY <1>3, <1>4, <1>5, <2>1, <2>2
<1>11. Minted' /\ CurrentIsMintable' /\ CreditedHasMint'
  BY <1>2, <1>10 DEF Minted, Mints, MintOf, CurrentIsMintable, IsCurrent, HasMint, Mints, CreditedHasMint
<1>12. \A b \in Nat : b <= Len(chain) /\ SeenTo(b) => SeenTo(b)'
  BY <1>2, <1>4, <1>6 DEF SeenTo, Seen
<1>13. ScanIsSeen'
  <2> SUFFICES ASSUME pc \in Scanning PROVE ScanIsSeen'
    BY <1>2 DEF ScanIsSeen
  <2>1. from < to /\ to <= Len(chain) /\ from \in Nat /\ to \in Nat
    BY DEF InRange, StoreTyped
  <2>2. SeenTo(from)'
    <3>1. SeenTo(from) /\ from <= Len(chain)
      BY <1>4, <2>1 DEF ScanIsSeen
    <3> QED BY <1>2, <1>4, <1>6, <2>1, <3>1 DEF SeenTo, Seen
  <2>3. \A h \in Has("deposit")' : h \in StartBlock .. to => h \in Has("deposit") /\ chain'[h] = chain[h]
    BY <1>4, <1>6, <2>1
  <2> QED BY <1>2, <2>2, <2>3 DEF ScanIsSeen, Seen
<1>14. CursorIsSeen'
  <2>1. CASE cursor.hash = None
    <3>1. cursor.block \in Nat /\ (cursor.block < StartBlock \/ cursor.block = 0) /\ StartBlock \in Nat
      BY <2>1, WatcherAssumption DEF CursorIsSeen, StoreTyped
    <3>2. \A h \in Has("deposit")' : h \in Nat \ {0}
      BY <1>3 DEF Has, ChainTyped
    <3>3. \A h \in Has("deposit")' : h \notin StartBlock .. cursor.block
      BY <3>1, <3>2
    <3> QED BY <1>2, <2>1, <3>1, <3>3 DEF CursorIsSeen, ObservedBelowCursor
  <2>2. CASE cursor.hash # None
    <3>1. PICK f \in 0 .. forks : cursor.hash = <<cursor.block, f>> /\ (f = forks => cursor.block <= Len(chain))
      BY <2>2 DEF CursorIsSeen
    <3>2. cursor.block \in Nat /\ Rewind(cursor.block) \in Nat
      BY RewindIsBelow DEF StoreTyped
    <3>3. SeenTo(Rewind(cursor.block))' /\ Rewind(cursor.block) <= Len(chain')
      <4>1. SeenTo(Rewind(cursor.block)) /\ Rewind(cursor.block) <= Len(chain)
        BY <2>2 DEF CursorIsSeen
      <4> QED BY <1>2, <1>3, <1>4, <1>6, <3>2, <4>1 DEF SeenTo, Seen, Rewind, SaturatingSub
    <3>4. ObservedBelowCursor'
      <4> SUFFICES ASSUME cursor.hash = HashOf(cursor.block)'
                   PROVE  ObservedBelowCursor'
        BY <1>2 DEF ObservedBelowCursor
      <4>1. cursor.block \in DOMAIN chain' /\ f = chain'[cursor.block].fork
        BY <2>2, <3>1 DEF HashOf
      <4>2. cursor.block # Len(chain) + 1
        BY <1>3, <1>4, <3>1, <4>1
      <4>3. cursor.block \in DOMAIN chain /\ cursor.block <= Len(chain)
        BY <1>3, <4>1, <4>2 DEF ChainTyped
      <4>4. cursor.hash = HashOf(cursor.block)
        BY <1>3, <3>1, <4>1, <4>3 DEF HashOf
      <4>5. SeenTo(cursor.block)
        BY <4>4 DEF CursorIsSeen, ObservedBelowCursor, SeenTo, Seen
      <4> QED BY <1>2, <1>12, <3>2, <4>3, <4>5 DEF ObservedBelowCursor, SeenTo, Seen
    <3>5. f = forks' => cursor.block <= Len(chain')
      BY <1>3, <1>4, <3>1, <3>2
    <3>6. cursor.block + Confirmations <= peak'
      BY <1>3, <1>4, <2>2, <3>2 DEF CursorIsSeen
    <3> QED BY <1>2, <1>3, <2>2, <3>1, <3>3, <3>4, <3>5, <3>6 DEF CursorIsSeen
  <2> QED BY <2>1, <2>2
<1> QED BY <1>3, <1>7, <1>8, <1>9, <1>11, <1>13, <1>14

LEMMA ReorgStep ==
  ASSUME IInv, Reorg
  PROVE  IInv'
PROOF
<1> USE DEF IInv
<1>1. PICK keep \in 0 .. Len(chain) :
        /\ ReorgTo(keep)
        /\ deep' = (deep \/ keep + Confirmations < peak)
        /\ keep + Confirmations < peak => pc = "idle"
  BY DEF Reorg
<1>2. UNCHANGED <<store, minted, pc, scan, late, failed, faults>>
  BY DEF Reorg
<1> USE DEF store, scan
<1>3. /\ ChainTyped'
      /\ Len(chain') = keep /\ peak' = peak /\ forks' = forks + 1
      /\ keep + MaxReorg >= peak
      /\ \A h \in DOMAIN chain' : h \in DOMAIN chain /\ h <= keep /\ chain'[h] = chain[h]
      /\ \A h \in DOMAIN chain : h <= keep => h \in DOMAIN chain'
  BY <1>1, ReorgKeeps
<1>4. /\ Len(chain) \in Nat /\ peak \in Nat /\ forks \in Nat /\ Confirmations \in Nat
      /\ keep \in Nat /\ MaxReorg \in Nat
  BY <1>3, WatcherAssumption, ChainAssumption DEF ChainTyped
<1>5. \A h \in Has("deposit") : h <= keep => h \in Has("deposit")' /\ chain'[h] = chain[h]
  BY <1>3 DEF Has
<1>6. \A h \in Has("deposit")' : h <= keep /\ h \in Has("deposit") /\ chain'[h] = chain[h]
  BY <1>3 DEF Has
<1>7. StoreTyped'
  <2>1. deep' \in BOOLEAN
    BY <1>1 DEF StoreTyped
  <2> QED BY <1>2, <2>1 DEF StoreTyped
<1>8. pc # "idle" => keep + Confirmations >= peak
  BY <1>1, <1>4
<1>9. pc \in Scanning => to <= keep /\ to \in Nat /\ from \in Nat /\ from < to
  BY <1>4, <1>8 DEF InRange, StoreTyped, Scanning, Handling
<1>10. InRange'
  <2>1. pc = "check" => safe <= keep
    BY <1>4, <1>8 DEF InRange, StoreTyped
  <2> QED BY <1>2, <1>3, <1>9, <2>1 DEF InRange
<1>11. LogsAreBlocks'
  <2>1. \A l \in logs : l.height <= keep
    <3> SUFFICES ASSUME NEW l \in logs PROVE l.height <= keep
      OBVIOUS
    <3>1. pc \in Scanning /\ l.height <= to /\ l.height \in Nat
      BY BlockIsTyped DEF LogsAreBlocks, Scanning
    <3> QED BY <1>4, <1>9, <3>1
  <2> QED BY <1>2, <1>5, <2>1 DEF LogsAreBlocks
<1>12. \A d : Mintable(d) => Mintable(d)'
  <2> SUFFICES ASSUME NEW d, Mintable(d), ~deep, keep + Confirmations >= peak
               PROVE  \E h \in Has("deposit")' : chain'[h].tx.deposit = d /\ h + Confirmations <= peak'
    <3>1. keep + Confirmations < peak \/ keep + Confirmations >= peak
      BY <1>4
    <3>2. deep' \/ (~deep /\ keep + Confirmations >= peak)
      BY <1>1, <3>1, Zenon
    <3> QED BY <3>2 DEF Mintable
  <2>1. PICK h \in Has("deposit") : chain[h].tx.deposit = d /\ h + Confirmations <= peak
    BY DEF Mintable
  <2>2. h \in Nat /\ h <= keep
    BY <1>4, <2>1, BlockIsTyped
  <2> QED BY <1>3, <1>5, <2>1, <2>2
<1>13. Minted' /\ CurrentIsMintable' /\ CreditedHasMint'
  BY <1>2, <1>12 DEF Minted, Mints, MintOf, CurrentIsMintable, IsCurrent, HasMint, Mints, CreditedHasMint
<1>14. ScanIsSeen'
  BY <1>2, <1>6 DEF ScanIsSeen, SeenTo, Seen
<1>15. CursorIsSeen'
  <2>1. cursor.block \in Nat /\ Rewind(cursor.block) \in Nat
    BY RewindIsBelow DEF StoreTyped
  <2>2. cursor.hash = None => cursor.block < StartBlock \/ cursor.block = 0
    BY DEF CursorIsSeen
  <2>3. ASSUME cursor.hash # None
        PROVE  /\ \E f \in 0 .. forks' : cursor.hash = <<cursor.block, f>> /\ (f = forks' => cursor.block <= Len(chain'))
               /\ cursor.block + Confirmations <= peak'
               /\ Rewind(cursor.block) <= Len(chain')
               /\ SeenTo(Rewind(cursor.block))'
    <3>1. PICK f \in 0 .. forks : cursor.hash = <<cursor.block, f>>
      BY <2>3 DEF CursorIsSeen
    <3>2. f \in 0 .. forks' /\ f # forks'
      BY <1>3, <1>4
    <3>3. cursor.block + Confirmations <= peak /\ SeenTo(Rewind(cursor.block))
      BY <2>3 DEF CursorIsSeen
    <3>4. Rewind(cursor.block) <= keep
      <4>1. cursor.block + Confirmations <= keep + Confirmations + (IF Confirmations = 0 THEN 1 ELSE Confirmations)
        BY <1>3, <1>4, <2>1, <3>3, WatcherAssumption
      <4> QED BY <1>4, <2>1, <4>1 DEF Rewind, SaturatingSub
    <3>5. SeenTo(Rewind(cursor.block))'
      BY <1>2, <1>6, <3>3 DEF SeenTo, Seen, Rewind, SaturatingSub
    <3> QED BY <1>3, <3>1, <3>2, <3>3, <3>4, <3>5
  <2>4. ObservedBelowCursor'
    <3> SUFFICES ASSUME cursor.hash = HashOf(cursor.block)'
                 PROVE  ObservedBelowCursor'
      BY <1>2 DEF ObservedBelowCursor
    <3>1. CASE cursor.hash = None
      <4>1. \A h \in Has("deposit")' : h \in Nat \ {0}
        BY <1>3 DEF Has, ChainTyped
      <4>2. \A h \in Has("deposit")' : h \notin StartBlock .. cursor.block
        BY <2>1, <2>2, <3>1, <4>1, WatcherAssumption
      <4> QED BY <1>2, <4>2 DEF ObservedBelowCursor
    <3>2. CASE cursor.hash # None
      <4>1. cursor.block \in DOMAIN chain'
        BY <1>2, <3>2 DEF HashOf
      <4>2. cursor.hash = HashOf(cursor.block)
        BY <1>2, <1>3, <4>1 DEF HashOf
      <4> QED BY <1>2, <1>6, <4>2 DEF CursorIsSeen, ObservedBelowCursor
    <3> QED BY <3>1, <3>2
  <2> QED BY <1>2, <2>2, <2>3, <2>4 DEF CursorIsSeen, Rewind
<1> QED BY <1>3, <1>7, <1>10, <1>11, <1>13, <1>14, <1>15

-----------------------------------------------------------------------------
(* The tick *)

\* What a step that leaves the chain and the ledger alone keeps.
LEMMA ChainKept ==
  ASSUME IInv, UNCHANGED <<chainVars, deep>>
  PROVE  /\ ChainTyped'
         /\ \A d : Mintable(d)' <=> Mintable(d)
  BY DEF IInv, ChainTyped, chainVars, Mintable, Has

\* The tick that ends forgets what it held.
LEMMA EndedTick ==
  ASSUME EndTick
  PROVE  InRange' /\ LogsAreBlocks' /\ CurrentIsMintable' /\ ScanIsSeen'
  BY DEF EndTick, InRange, LogsAreBlocks, CurrentIsMintable, IsCurrent, ScanIsSeen, Scanning, Handling

LEMMA RegisterStep ==
  ASSUME IInv, NEW r \in Receipts, register_intent(r)
  PROVE  IInv'
PROOF
<1> USE DEF IInv, history, scan
<1>1. UNCHANGED <<chainVars, observed, cursor, minted, pc, scan, late, history, faults>>
  BY DEF register_intent
<1>2. ChainTyped' /\ \A d : Mintable(d)' <=> Mintable(d)
  BY <1>1, ChainKept
<1>3. intents' = [intents EXCEPT ![r] = "pending"]
  BY DEF register_intent
<1>4. StoreTyped'
  BY <1>1, <1>3 DEF StoreTyped
<1>5. CreditedHasMint'
  BY <1>1, <1>3 DEF CreditedHasMint, Mints, StoreTyped
<1>6. InRange' /\ LogsAreBlocks' /\ Minted' /\ CurrentIsMintable'
  BY <1>1, <1>2 DEF InRange, LogsAreBlocks, Minted, Mints, MintOf, CurrentIsMintable, IsCurrent, HasMint, chainVars, Has
<1>7. ScanIsSeen' /\ CursorIsSeen'
  BY <1>1 DEF ScanIsSeen, SeenTo, Seen, CursorIsSeen, ObservedBelowCursor, HashOf, Rewind, SaturatingSub, chainVars, Has
<1> QED BY <1>2, <1>4, <1>5, <1>6, <1>7

\* A range that starts where what was seen ends.
LEMMA FixedRange ==
  ASSUME IInv, NEW start \in Nat, NEW upTo \in Nat, FixRange(start, upTo),
         UNCHANGED <<chainVars, store, minted, late, history, faults>>,
         pc \in {"idle", "check"},
         upTo <= Len(chain), upTo > 0 => upTo + Confirmations <= peak,
         SeenTo(start)
  PROVE  IInv'
PROOF
<1> USE DEF IInv, store, history
<1>1. ChainTyped' /\ \A d : Mintable(d)' <=> Mintable(d)
  BY ChainKept
<1>2. logs = {}
  BY DEF LogsAreBlocks, Handling
<1>3. Minted' /\ CreditedHasMint'
  BY <1>1 DEF Minted, Mints, MintOf, CreditedHasMint
<1>4. CursorIsSeen'
  BY DEF CursorIsSeen, ObservedBelowCursor, SeenTo, Seen, HashOf, Rewind, SaturatingSub, chainVars, Has
<1>5. CASE upTo <= start
  <2>1. EndTick
    BY <1>5 DEF FixRange
  <2>2. StoreTyped'
    BY <2>1 DEF StoreTyped, EndTick
  <2> QED BY <1>1, <1>3, <1>4, <2>1, <2>2, EndedTick
<1>6. CASE ~(upTo <= start)
  <2>1. /\ pc' = "deposits" /\ safe' = 0 /\ from' = start /\ logs' = {}
        /\ to' = IF start + BlockRange < upTo THEN start + BlockRange ELSE upTo
    BY <1>2, <1>6 DEF FixRange
  <2>2. Len(chain) \in Nat /\ peak \in Nat /\ Confirmations \in Nat /\ BlockRange \in Nat \ {0}
    BY WatcherAssumption DEF ChainTyped
  <2>3. to' \in Nat /\ from' < to' /\ to' <= Len(chain) /\ to' + Confirmations <= peak
    BY <1>6, <2>1, <2>2
  <2>4. StoreTyped'
    BY <2>1, <2>3 DEF StoreTyped, Scanning
  <2>5. InRange'
    BY <2>1, <2>3 DEF InRange, chainVars
  <2>6. LogsAreBlocks' /\ CurrentIsMintable'
    BY <2>1 DEF LogsAreBlocks, CurrentIsMintable, IsCurrent, Handling
  <2>7. ScanIsSeen'
    BY <2>1 DEF ScanIsSeen, SeenTo, Seen, chainVars, Has
  <2> QED BY <1>1, <1>3, <1>4, <2>4, <2>5, <2>6, <2>7
<1> QED BY <1>5, <1>6

LEMMA SafeIsDeep ==
  ASSUME ChainTyped
  PROVE  /\ SafeHead(Height) \in Nat /\ SafeHead(Height) <= Len(chain)
         /\ SafeHead(Height) > 0 => SafeHead(Height) + Confirmations <= peak
  BY WatcherAssumption DEF ChainTyped, SafeHead, SaturatingSub, Height

LEMMA ReadHeadStep ==
  ASSUME IInv, ReadHead
  PROVE  IInv'
PROOF
<1> USE DEF IInv, store, history
<1>1. UNCHANGED <<chainVars, store, minted, late, history, faults>> /\ pc = "idle"
  BY DEF ReadHead
<1>2. CASE cursor.hash # None /\ cursor.block > 0
  <2>1. pc' = "check" /\ safe' = SafeHead(Height) /\ from' = cursor.block /\ UNCHANGED <<to, logs>>
    BY <1>2 DEF ReadHead
  <2>2. ChainTyped' /\ \A d : Mintable(d)' <=> Mintable(d)
    BY <1>1, ChainKept
  <2>3. StoreTyped'
    BY <1>1, <2>1, SafeIsDeep DEF StoreTyped
  <2>4. InRange'
    BY <1>1, <2>1, SafeIsDeep DEF InRange, chainVars, Scanning, Handling
  <2>5. logs = {}
    BY <1>1 DEF LogsAreBlocks, Handling
  <2>6. LogsAreBlocks' /\ CurrentIsMintable' /\ ScanIsSeen'
    BY <2>1, <2>5 DEF LogsAreBlocks, CurrentIsMintable, IsCurrent, Handling, ScanIsSeen, Scanning
  <2>7. Minted' /\ CreditedHasMint'
    BY <1>1, <2>2 DEF Minted, Mints, MintOf, CreditedHasMint
  <2>8. CursorIsSeen'
    BY <1>1 DEF CursorIsSeen, ObservedBelowCursor, SeenTo, Seen, HashOf, Rewind, SaturatingSub, chainVars, Has
  <2> QED BY <2>2, <2>3, <2>4, <2>6, <2>7, <2>8
<1>3. CASE ~(cursor.hash # None /\ cursor.block > 0)
  <2>1. FixRange(cursor.block, SafeHead(Height))
    BY <1>3 DEF ReadHead
  <2>2. cursor.block \in Nat /\ StartBlock \in Nat
    BY WatcherAssumption DEF StoreTyped
  <2>3. cursor.block < StartBlock \/ cursor.block = 0
    BY <1>3, <2>2 DEF CursorIsSeen
  <2>4. SeenTo(cursor.block)
    <3>1. \A h \in Has("deposit") : h \in Nat \ {0}
      BY BlockIsTyped
    <3> QED BY <2>2, <2>3, <3>1 DEF SeenTo
  <2> QED BY <1>1, <2>1, <2>2, <2>4, SafeIsDeep, FixedRange
<1> QED BY <1>2, <1>3

LEMMA CheckHashStep ==
  ASSUME IInv, CheckHash
  PROVE  IInv'
PROOF
<1> USE DEF IInv
<1>1. /\ UNCHANGED <<chainVars, store, minted, late, history, faults>> /\ pc = "check"
      /\ FixRange(IF HashOf(from) = cursor.hash THEN from ELSE Rewind(from), safe)
  BY DEF CheckHash
<1>2. from = cursor.block /\ from \in Nat /\ safe \in Nat /\ safe <= Len(chain) /\ (safe > 0 => safe + Confirmations <= peak)
  BY <1>1 DEF InRange, StoreTyped
<1>3. CASE HashOf(from) = cursor.hash
  <2>1. SeenTo(from)
    BY <1>2, <1>3 DEF CursorIsSeen, ObservedBelowCursor, SeenTo, Seen
  <2> QED BY <1>1, <1>2, <1>3, <2>1, FixedRange
<1>4. CASE HashOf(from) # cursor.hash
  <2>1. Rewind(from) \in Nat /\ Rewind(from) <= from /\ StartBlock \in Nat
    BY <1>2, RewindIsBelow
  <2>2. SeenTo(Rewind(from))
    <3>1. CASE cursor.hash # None
      BY <1>2, <3>1 DEF CursorIsSeen
    <3>2. CASE cursor.hash = None
      <4>1. \A h \in Has("deposit") : h \in Nat \ {0}
        BY BlockIsTyped
      <4>2. from < StartBlock \/ from = 0
        BY <1>2, <3>2 DEF CursorIsSeen
      <4> QED BY <1>2, <2>1, <4>1, <4>2 DEF SeenTo
    <3> QED BY <3>1, <3>2
  <2> QED BY <1>1, <1>2, <1>4, <2>1, <2>2, FixedRange
<1> QED BY <1>3, <1>4

LEMMA ReadDepositsStep ==
  ASSUME IInv, ReadDeposits
  PROVE  IInv'
PROOF
<1> USE DEF IInv, store, history
<1>1. /\ pc = "deposits" /\ pc' = "credit" /\ logs' = LogsIn("deposit", from + 1, to)
      /\ UNCHANGED <<chainVars, store, minted, safe, from, to, late, history, faults>>
  BY DEF ReadDeposits
<1>2. ChainTyped' /\ \A d : Mintable(d)' <=> Mintable(d)
  BY <1>1, ChainKept
<1>3. pc \in Scanning /\ pc' \in Scanning \ Handling /\ pc' # "check"
  BY <1>1 DEF Scanning, Handling
<1>4. StoreTyped'
  BY <1>1, <1>3 DEF StoreTyped
<1>5. InRange'
  BY <1>1, <1>3 DEF InRange, chainVars
<1>6. LogsAreBlocks' /\ CurrentIsMintable'
  BY <1>1, <1>3 DEF LogsAreBlocks, LogsIn, CurrentIsMintable, Handling, chainVars, Has
<1>7. Minted' /\ CreditedHasMint'
  BY <1>1, <1>2 DEF Minted, Mints, MintOf, CreditedHasMint
<1>8. CursorIsSeen'
  BY <1>1 DEF CursorIsSeen, ObservedBelowCursor, SeenTo, Seen, HashOf, Rewind, SaturatingSub, chainVars, Has
<1>9. ScanIsSeen'
  <2>1. SeenTo(from) /\ from \in Nat /\ to \in Nat /\ StartBlock \in Nat
    BY <1>3, WatcherAssumption DEF ScanIsSeen, StoreTyped
  <2>2. ASSUME NEW h \in Has("deposit"), h \in StartBlock .. to
        PROVE  Seen(chain[h].tx.deposit) \/ \E l \in logs' : l.height = h
    <3>1. h \in Nat
      BY BlockIsTyped
    <3>2. CASE h <= from
      BY <2>1, <2>2, <3>1, <3>2 DEF SeenTo
    <3>3. CASE ~(h <= from)
      <4>1. from + 1 <= h /\ h <= to
        BY <2>1, <2>2, <3>1, <3>3
      <4>2. [height |-> h, tx |-> chain[h].tx] \in logs'
        BY <1>1, <2>2, <4>1 DEF LogsIn
      <4> QED BY <4>2
    <3> QED BY <3>2, <3>3
  <2>3. SeenTo(from)'
    BY <1>1, <2>1 DEF SeenTo, Seen, chainVars, Has
  <2> QED BY <1>1, <2>2, <2>3 DEF ScanIsSeen, Seen, chainVars, Has
<1> QED BY <1>2, <1>4, <1>5, <1>6, <1>7, <1>8, <1>9

LEMMA ReadWithdrawalsStep ==
  ASSUME IInv, ReadWithdrawals
  PROVE  IInv'
PROOF
<1> USE DEF IInv, store, history, scan
<1>1. /\ pc = "credit" /\ logs = {} /\ pc' = "save"
      /\ UNCHANGED <<chainVars, store, minted, scan, late, history, faults>>
  BY DEF ReadWithdrawals
<1>2. ChainTyped' /\ \A d : Mintable(d)' <=> Mintable(d)
  BY <1>1, ChainKept
<1>3. pc \in Scanning /\ pc' \in Scanning \ Handling /\ pc' # "check" /\ pc # "deposits"
  BY <1>1 DEF Scanning, Handling
<1>4. StoreTyped' /\ InRange' /\ LogsAreBlocks' /\ CurrentIsMintable'
  BY <1>1, <1>3 DEF StoreTyped, InRange, LogsAreBlocks, CurrentIsMintable, IsCurrent, chainVars, Has
<1>5. Minted' /\ CreditedHasMint'
  BY <1>1, <1>2 DEF Minted, Mints, MintOf, CreditedHasMint
<1>6. ScanIsSeen' /\ CursorIsSeen'
  BY <1>1, <1>3 DEF ScanIsSeen, CursorIsSeen, ObservedBelowCursor, SeenTo, Seen, HashOf, Rewind, SaturatingSub, chainVars, Has
<1> QED BY <1>2, <1>4, <1>5, <1>6

LEMMA SaveCursorStep ==
  ASSUME IInv, SaveCursor
  PROVE  IInv'
PROOF
<1> USE DEF IInv, store, history
<1>1. /\ pc = "save" /\ cursor' = [block |-> to, hash |-> HashOf(to)] /\ EndTick
      /\ UNCHANGED <<chainVars, intents, observed, minted, late, history, faults>>
  BY DEF SaveCursor, SaveBlock
<1>2. ChainTyped' /\ \A d : Mintable(d)' <=> Mintable(d)
  BY <1>1, ChainKept
<1>3. /\ to \in Nat /\ from \in Nat /\ from < to /\ to <= Len(chain) /\ to + Confirmations <= peak
      /\ logs = {} /\ Len(chain) \in Nat
  BY <1>1 DEF StoreTyped, InRange, LogsAreBlocks, Scanning, Handling, ChainTyped
<1>4. SeenTo(to)
  BY <1>1, <1>3 DEF ScanIsSeen, SeenTo, Scanning
<1>5. to \in DOMAIN chain /\ HashOf(to) = <<to, chain[to].fork>> /\ chain[to].fork \in 0 .. forks
  <2>1. to \in DOMAIN chain
    BY <1>3 DEF ChainTyped
  <2>2. chain[to] \in Blocks /\ chain[to].fork <= forks /\ forks \in Nat
    BY <2>1 DEF ChainTyped
  <2>3. chain[to].fork \in Nat
    BY <2>2 DEF Blocks
  <2> QED BY <2>1, <2>2, <2>3 DEF HashOf
<1>6. HashOf(to) # None
  <2>1. HashOf(to) \in Nat \X Nat
    BY <1>3, <1>5
  <2> QED BY <2>1, ChainAssumption
<1>7. Rewind(to) \in Nat /\ Rewind(to) <= to
  BY <1>3, RewindIsBelow
<1>8. SeenTo(Rewind(to)) /\ Rewind(to) <= Len(chain)
  <2>1. \A h \in Has("deposit") : h \in Nat
    BY BlockIsTyped
  <2> QED BY <1>3, <1>4, <1>7, <2>1, WatcherAssumption DEF SeenTo
<1>9. CursorIsSeen'
  <2>1. cursor'.block = to /\ cursor'.hash = HashOf(to)
    BY <1>1
  <2>2. SeenTo(Rewind(cursor.block))'
    BY <1>1, <1>8, <2>1 DEF SeenTo, Seen, Rewind, SaturatingSub, chainVars, Has
  <2>3. ObservedBelowCursor'
    BY <1>1, <1>4, <2>1 DEF ObservedBelowCursor, SeenTo, Seen, chainVars, Has
  <2>4. /\ \E f \in 0 .. forks' : cursor'.hash = <<cursor'.block, f>> /\ (f = forks' => cursor'.block <= Len(chain'))
        /\ cursor'.block + Confirmations <= peak'
        /\ Rewind(cursor'.block) <= Len(chain')
    BY <1>1, <1>3, <1>5, <1>8, <2>1 DEF chainVars
  <2> QED BY <1>6, <2>1, <2>2, <2>3, <2>4 DEF CursorIsSeen, Rewind, SaturatingSub
<1>10. StoreTyped'
  BY <1>1, <1>3 DEF StoreTyped, EndTick
<1>11. Minted' /\ CreditedHasMint'
  BY <1>1, <1>2 DEF Minted, Mints, MintOf, CreditedHasMint
<1> QED BY <1>1, <1>2, <1>9, <1>10, <1>11, EndedTick

LEMMA TickDiesStep ==
  ASSUME IInv, TickDies
  PROVE  IInv'
PROOF
<1> USE DEF IInv, store, history
<1>1. EndTick /\ UNCHANGED <<chainVars, store, minted, late, history>>
  BY DEF TickDies
<1>2. ChainTyped' /\ \A d : Mintable(d)' <=> Mintable(d)
  BY <1>1, ChainKept
<1>3. StoreTyped'
  BY <1>1 DEF StoreTyped, EndTick
<1>4. Minted' /\ CreditedHasMint'
  BY <1>1, <1>2 DEF Minted, Mints, MintOf, CreditedHasMint
<1>5. CursorIsSeen'
  BY <1>1 DEF CursorIsSeen, ObservedBelowCursor, SeenTo, Seen, HashOf, Rewind, SaturatingSub, chainVars, Has
<1> QED BY <1>1, <1>2, <1>3, <1>4, <1>5, EndedTick

-----------------------------------------------------------------------------
(* One deposit *)

\* A deposit once observed, or given up, stays so.
LEMMA SeenGrows ==
  ASSUME IInv, UNCHANGED <<chainVars, cursor>>, \A e \in Deposits : Seen(e) => Seen(e)'
  PROVE  CursorIsSeen'
PROOF
<1> USE DEF IInv
<1>1. \A h \in Has("deposit") : Seen(chain[h].tx.deposit) => Seen(chain[h].tx.deposit)'
  BY BlockIsTyped DEF chainVars, Seen
<1>2. Has("deposit")' = Has("deposit")
  BY DEF Has, chainVars
<1> QED BY <1>1, <1>2 DEF CursorIsSeen, ObservedBelowCursor, SeenTo, Seen, HashOf, Rewind, SaturatingSub, chainVars

LEMMA NextLogStep ==
  ASSUME IInv, NEW d \in Deposits, IsCurrent(d), NextLog, pc \in {"credit"} \cup Handling,
         UNCHANGED <<chainVars, cursor, deep>>, Seen(d)', \A e \in Deposits : Seen(e) => Seen(e)'
  PROVE  InRange' /\ LogsAreBlocks' /\ CurrentIsMintable' /\ ScanIsSeen' /\ CursorIsSeen'
PROOF
<1> USE DEF IInv
<1>1. /\ pc' = "credit" /\ UNCHANGED <<safe, from, to>>
      /\ logs' = {l \in logs : \E k \in logs : k.height < l.height}
  BY DEF NextLog
<1>2. pc \in Scanning /\ pc' \in Scanning \ Handling /\ pc' \notin {"check", "deposits"} /\ pc # "deposits"
  BY <1>1 DEF Scanning, Handling
<1>3. InRange' /\ LogsAreBlocks' /\ CurrentIsMintable'
  BY <1>1, <1>2 DEF InRange, LogsAreBlocks, CurrentIsMintable, chainVars, Has
<1>4. CursorIsSeen'
  BY SeenGrows
<1>5. \A h \in Has("deposit") : chain[h].tx.deposit \in Deposits /\ (Seen(chain[h].tx.deposit) => Seen(chain[h].tx.deposit)')
  BY BlockIsTyped DEF chainVars, Seen
<1>6. PICK l0 \in logs : l0.tx.deposit = d /\ \A k \in logs : l0.height <= k.height
  BY DEF IsCurrent
<1>7. ASSUME NEW h \in Has("deposit"), h \in StartBlock .. to
      PROVE  Seen(chain[h].tx.deposit)' \/ \E l \in logs' : l.height = h
  <2>1. CASE Seen(chain[h].tx.deposit)
    BY <1>5, <2>1
  <2>2. CASE ~Seen(chain[h].tx.deposit)
    <3>1. PICK l \in logs : l.height = h
      BY <1>2, <1>7, <2>2 DEF ScanIsSeen
    <3>2. CASE l0.height < h
      BY <1>1, <1>6, <3>1, <3>2
    <3>3. CASE ~(l0.height < h)
      <4>1. l0.height <= h /\ l0.height \in Nat /\ h \in Nat
        BY <1>6, <3>1, BlockIsTyped DEF LogsAreBlocks
      <4>2. l0.height = h
        BY <3>3, <4>1
      <4>3. chain[h].tx.deposit = d
        BY <1>6, <4>2 DEF LogsAreBlocks
      <4> QED BY <4>3 DEF chainVars, Seen
    <3> QED BY <3>2, <3>3
  <2> QED BY <2>1, <2>2
<1>8. SeenTo(from)'
  BY <1>1, <1>2, <1>5 DEF ScanIsSeen, SeenTo, Seen, chainVars, Has
<1>9. ScanIsSeen'
  BY <1>1, <1>7, <1>8 DEF ScanIsSeen, Seen, chainVars, Has
<1> QED BY <1>3, <1>4, <1>9

LEMMA TypedObserved ==
  ASSUME IInv, NEW d \in Deposits, NEW status \in Statuses \ {"unseen"},
         observed' = [observed EXCEPT ![d] = status], UNCHANGED failed
  PROVE  /\ observed' \in [Deposits -> Statuses]
         /\ observed'[d] = status
         /\ \A e \in Deposits : e # d => observed'[e] = observed[e]
         /\ Seen(d)' /\ \A e \in Deposits : Seen(e) => Seen(e)'
  BY DEF IInv, StoreTyped, Seen, Statuses

LEMMA DismissStep ==
  ASSUME IInv, NEW d \in Deposits, Dismiss(d)
  PROVE  IInv'
PROOF
<1> USE DEF IInv, history
<1>1. /\ pc = "credit" /\ IsCurrent(d) /\ VerdictOn(d) # "mint" /\ NextLog
      /\ observed' = [observed EXCEPT ![d] = VerdictOn(d)]
      /\ UNCHANGED <<chainVars, intents, cursor, minted, late, history, faults>>
  BY DEF Dismiss, Record
<1>2. VerdictOn(d) \in Statuses \ {"unseen"}
  BY <1>1 DEF VerdictOn, Statuses
<1>3. VerdictOn(d) = "credited" => d.receipt \in Receipts /\ intents[d.receipt] = "minted"
  BY DEF VerdictOn
<1>4. /\ observed' \in [Deposits -> Statuses] /\ observed'[d] = VerdictOn(d)
      /\ \A e \in Deposits : e # d => observed'[e] = observed[e]
      /\ Seen(d)' /\ \A e \in Deposits : Seen(e) => Seen(e)'
  BY <1>1, <1>2, TypedObserved
<1>5. InRange' /\ LogsAreBlocks' /\ CurrentIsMintable' /\ ScanIsSeen' /\ CursorIsSeen'
  BY <1>1, <1>4, NextLogStep DEF Handling
<1>6. ChainTyped' /\ \A e : Mintable(e)' <=> Mintable(e)
  BY <1>1, ChainKept
<1>7. StoreTyped'
  BY <1>1, <1>4 DEF StoreTyped, NextLog, Scanning
<1>8. Minted'
  BY <1>1, <1>6 DEF Minted, Mints, MintOf
<1>9. CreditedHasMint'
  BY <1>1, <1>3, <1>4 DEF CreditedHasMint, Mints
<1> QED BY <1>5, <1>6, <1>7, <1>8, <1>9

\* The tick is at one deposit at a time.
LEMMA CurrentIsOne ==
  ASSUME IInv, NEW d, IsCurrent(d), NEW e, IsCurrent(e)
  PROVE  e = d
PROOF
<1> USE DEF IInv
<1>1. PICK l \in logs : l.tx.deposit = d /\ \A k \in logs : l.height <= k.height
  BY DEF IsCurrent
<1>2. PICK m \in logs : m.tx.deposit = e /\ \A k \in logs : m.height <= k.height
  BY DEF IsCurrent
<1>3. l.height <= m.height /\ m.height <= l.height /\ l.height \in Nat /\ m.height \in Nat
  BY <1>1, <1>2, BlockIsTyped DEF LogsAreBlocks
<1>4. l.height = m.height
  BY <1>3
<1> QED BY <1>1, <1>2, <1>4 DEF LogsAreBlocks

LEMMA CreditIntentStep ==
  ASSUME IInv, NEW d \in Deposits, CreditIntent(d)
  PROVE  IInv'
PROOF
<1> USE DEF IInv, store, history, scan
<1>1. /\ pc = "credit" /\ IsCurrent(d) /\ VerdictOn(d) = "mint" /\ pc' = "mint"
      /\ UNCHANGED <<chainVars, store, minted, scan, late, history, faults>>
  BY DEF CreditIntent
<1>2. ChainTyped' /\ \A e : Mintable(e)' <=> Mintable(e)
  BY <1>1, ChainKept
<1>3. pc \in Scanning /\ pc' \in Scanning /\ pc' \notin {"check", "deposits", "minted", "marked"} /\ pc' \in Handling /\ pc # "deposits"
  BY <1>1 DEF Scanning, Handling
<1>4. d.token = Token /\ d.receipt \in Receipts /\ AmountOf[d.receipt] = d.amount
  BY <1>1 DEF VerdictOn
<1>5. PICK l0 \in logs : l0.tx.deposit = d /\ \A k \in logs : l0.height <= k.height
  BY <1>1 DEF IsCurrent
<1>6. l0.height \in Has("deposit") /\ chain[l0.height].tx.deposit = d /\ l0.height + Confirmations <= peak
  <2>1. l0.height \in Has("deposit") /\ l0.height <= to /\ chain[l0.height].tx = l0.tx
    BY <1>5 DEF LogsAreBlocks
  <2>2. l0.height \in Nat
    BY <2>1, BlockIsTyped
  <2>3. to + Confirmations <= peak /\ to \in Nat /\ Confirmations \in Nat /\ peak \in Nat
    BY <1>3, WatcherAssumption DEF InRange, StoreTyped, ChainTyped
  <2> QED BY <1>5, <2>1, <2>2, <2>3
<1>7. Mintable(d)
  BY <1>4, <1>6 DEF Mintable
<1>8. \A e : IsCurrent(e) => e = d
  BY <1>1, CurrentIsOne
<1>9. CurrentIsMintable'
  <2>1. \A e : IsCurrent(e)' => IsCurrent(e)
    BY <1>1 DEF IsCurrent
  <2> QED BY <1>2, <1>3, <1>7, <1>8, <2>1 DEF CurrentIsMintable
<1>10. StoreTyped' /\ InRange' /\ LogsAreBlocks'
  BY <1>1, <1>3 DEF StoreTyped, InRange, LogsAreBlocks, chainVars, Has
<1>11. Minted' /\ CreditedHasMint'
  BY <1>1, <1>2 DEF Minted, Mints, MintOf, CreditedHasMint
<1>12. ScanIsSeen' /\ CursorIsSeen'
  BY <1>1, <1>3 DEF ScanIsSeen, CursorIsSeen, ObservedBelowCursor, SeenTo, Seen, HashOf, Rewind, SaturatingSub, chainVars, Has
<1> QED BY <1>2, <1>9, <1>10, <1>11, <1>12

\* A mint is one more, and the others stay; the guard keeps deposits apart.
LEMMA MintAppended ==
  ASSUME Minted, NEW d, Mintable(d), ~IsMinted(d), minted' = Append(minted, MintOf(d))
  PROVE  /\ minted' \in Seq(Mints')
         /\ Mints' = Mints \cup {MintOf(d)} /\ MintOf(d).deposit = d /\ MintOf(d).receipt = d.receipt
         /\ \A i, j \in DOMAIN minted' : minted'[i].deposit = minted'[j].deposit => i = j
PROOF
<1> DEFINE n == Len(minted)
<1>1. minted \in Seq(Mints)
  BY DEF Minted
<1>3. n \in Nat /\ DOMAIN minted = 1 .. n
  BY <1>1, LenProperties
<1>2. MintOf(d).deposit = d /\ MintOf(d).receipt = d.receipt
  BY DEF MintOf
<1>4. /\ Len(minted') = n + 1 /\ DOMAIN minted' = 1 .. n + 1
      /\ \A i \in 1 .. n : minted'[i] = minted[i]
      /\ minted'[n + 1] = MintOf(d)
  <2>1. minted \in Seq(Mints \cup {MintOf(d)})
    BY <1>1
  <2>2. /\ Append(minted, MintOf(d)) \in Seq(Mints \cup {MintOf(d)})
        /\ Len(Append(minted, MintOf(d))) = n + 1
        /\ \A i \in 1 .. n : Append(minted, MintOf(d))[i] = minted[i]
        /\ Append(minted, MintOf(d))[n + 1] = MintOf(d)
    BY <2>1, AppendProperties
  <2> QED BY <2>2, LenProperties
<1>5. 1 .. n + 1 = (1 .. n) \cup {n + 1}
  BY <1>3
<1>6. Mints' = Mints \cup {MintOf(d)}
  <2>1. Mints' = {minted'[i] : i \in DOMAIN minted'}
    BY DEF Mints
  <2> QED BY <1>3, <1>4, <1>5, <2>1 DEF Mints
<1>7. \A i \in 1 .. n : minted[i].deposit # d
  BY <1>3 DEF IsMinted, Mints
<1>8. \A i, j \in DOMAIN minted' : minted'[i].deposit = minted'[j].deposit => i = j
  BY <1>2, <1>3, <1>4, <1>5, <1>7 DEF Minted
<1>9. minted' \in Seq(Mints')
  BY <1>1, <1>6
<1> QED BY <1>2, <1>6, <1>8, <1>9

LEMMA MintAppliedStep ==
  ASSUME IInv, NEW d \in Deposits, MintApplied(d)
  PROVE  IInv'
PROOF
<1> USE DEF IInv, store, history, scan
<1>1. /\ pc = "mint" /\ IsCurrent(d) /\ pc' = "minted" /\ minted' = Append(minted, MintOf(d)) /\ ~IsMinted(d)
      /\ UNCHANGED <<chainVars, store, scan, late, history, faults>>
  BY DEF MintApplied
<1>2. ChainTyped' /\ \A e : Mintable(e)' <=> Mintable(e)
  BY <1>1, ChainKept
<1>3. pc \in Scanning /\ pc' \in Scanning /\ pc \in Handling /\ pc' \in Handling /\ pc' \notin {"check", "deposits"} /\ pc # "deposits"
  BY <1>1 DEF Scanning, Handling
<1>4. Mintable(d)
  BY <1>1, <1>3 DEF CurrentIsMintable
<1>5. /\ minted' \in Seq(Mints')
      /\ Mints' = Mints \cup {MintOf(d)} /\ MintOf(d).deposit = d /\ MintOf(d).receipt = d.receipt
      /\ \A i, k \in DOMAIN minted' : minted'[i].deposit = minted'[k].deposit => i = k
  BY <1>1, <1>4, MintAppended
<1>6. Minted'
  <2>1. \A m \in Mints' : m \in Mints \/ m = MintOf(d)
    BY <1>5
  <2>2. \A m \in Mints' : Mintable(m.deposit)
    BY <1>4, <1>5, <2>1 DEF Minted
  <2>3. \A m \in Mints' : m = MintOf(m.deposit)
    BY <1>5, <2>1 DEF Minted
  <2>4. \A e : MintOf(e)' = MintOf(e)
    BY DEF MintOf
  <2>5. \A e \in late' : Mintable(e)
    BY <1>1 DEF Minted
  <2> QED BY <1>2, <1>5, <2>2, <2>3, <2>4, <2>5 DEF Minted
<1>7. CurrentIsMintable'
  <2>1. \A e : IsCurrent(e)' => e = d
    BY <1>1, CurrentIsOne DEF IsCurrent
  <2>2. HasMint(d.receipt)'
    BY <1>1, <1>5 DEF HasMint
  <2> QED BY <1>2, <1>4, <2>1, <2>2 DEF CurrentIsMintable
<1>8. StoreTyped' /\ InRange' /\ LogsAreBlocks'
  BY <1>1, <1>3 DEF StoreTyped, InRange, LogsAreBlocks, chainVars, Has
<1>9. CreditedHasMint'
  BY <1>1, <1>5 DEF CreditedHasMint
<1>10. ScanIsSeen' /\ CursorIsSeen'
  BY <1>1, <1>3 DEF ScanIsSeen, CursorIsSeen, ObservedBelowCursor, SeenTo, Seen, HashOf, Rewind, SaturatingSub, chainVars, Has
<1> QED BY <1>2, <1>6, <1>7, <1>8, <1>9, <1>10

\* The two ends of a mint that went well.
LEMMA CreditedStep ==
  ASSUME IInv, NEW d \in Deposits, MintReplayed(d) \/ RecordCredited(d)
  PROVE  IInv'
PROOF
<1> USE DEF IInv, history
<1>1. /\ pc \in Handling /\ IsCurrent(d) /\ NextLog
      /\ observed' = [observed EXCEPT ![d] = "credited"]
      /\ UNCHANGED <<chainVars, intents, cursor, minted, late, history, faults>>
  BY DEF MintReplayed, RecordCredited, Record, Handling
<1>2. \E m \in Mints : m.receipt = d.receipt
  <2>1. CASE MintReplayed(d)
    BY <2>1 DEF MintReplayed, IsMinted, Minted, Mints, MintOf
  <2>2. CASE RecordCredited(d)
    BY <2>2 DEF RecordCredited, CurrentIsMintable, HasMint, Handling
  <2> QED BY <2>1, <2>2
<1>3. /\ observed' \in [Deposits -> Statuses] /\ observed'[d] = "credited"
      /\ \A e \in Deposits : e # d => observed'[e] = observed[e]
      /\ Seen(d)' /\ \A e \in Deposits : Seen(e) => Seen(e)'
  <2>1. "credited" \in Statuses \ {"unseen"} /\ UNCHANGED failed
    BY <1>1 DEF Statuses
  <2> QED BY <1>1, <2>1, TypedObserved
<1>4. InRange' /\ LogsAreBlocks' /\ CurrentIsMintable' /\ ScanIsSeen' /\ CursorIsSeen'
  BY <1>1, <1>3, NextLogStep
<1>5. ChainTyped' /\ \A e : Mintable(e)' <=> Mintable(e)
  BY <1>1, ChainKept
<1>6. StoreTyped'
  BY <1>1, <1>3 DEF StoreTyped, NextLog, Scanning
<1>7. Minted'
  BY <1>1, <1>5 DEF Minted, Mints, MintOf
<1>8. CreditedHasMint'
  BY <1>1, <1>2, <1>3 DEF CreditedHasMint, Mints
<1> QED BY <1>4, <1>5, <1>6, <1>7, <1>8

LEMMA MarkMintedStep ==
  ASSUME IInv, NEW d \in Deposits, MarkMinted(d)
  PROVE  IInv'
PROOF
<1> USE DEF IInv, history, scan
<1>1. /\ pc = "minted" /\ IsCurrent(d) /\ pc' = "marked" /\ intents' = [intents EXCEPT ![d.receipt] = "minted"]
      /\ UNCHANGED <<chainVars, observed, cursor, minted, scan, late, history, faults>>
  BY DEF MarkMinted
<1>2. ChainTyped' /\ \A e : Mintable(e)' <=> Mintable(e)
  BY <1>1, ChainKept
<1>3. pc \in Scanning /\ pc' \in Scanning /\ pc \in Handling /\ pc' \in Handling /\ pc' \notin {"check", "deposits"} /\ pc # "deposits"
  BY <1>1 DEF Scanning, Handling
<1>4. HasMint(d.receipt)
  BY <1>1 DEF CurrentIsMintable
<1>5. StoreTyped' /\ InRange' /\ LogsAreBlocks'
  BY <1>1, <1>3 DEF StoreTyped, InRange, LogsAreBlocks, chainVars, Has
<1>6. CurrentIsMintable'
  BY <1>1, <1>2, <1>3 DEF CurrentIsMintable, IsCurrent, HasMint, Mints
<1>7. Minted'
  BY <1>1, <1>2 DEF Minted, Mints, MintOf
<1>8. CreditedHasMint'
  BY <1>1, <1>4 DEF CreditedHasMint, HasMint, Mints, StoreTyped
<1>9. ScanIsSeen' /\ CursorIsSeen'
  BY <1>1, <1>3 DEF ScanIsSeen, CursorIsSeen, ObservedBelowCursor, SeenTo, Seen, HashOf, Rewind, SaturatingSub, chainVars, Has
<1> QED BY <1>2, <1>5, <1>6, <1>7, <1>8, <1>9

LEMMA MintFailsStep ==
  ASSUME IInv, NEW d \in Deposits, MintFails(d)
  PROVE  IInv'
PROOF
<1> USE DEF IInv, store
<1>1. /\ pc \in Handling /\ IsCurrent(d) /\ NextLog
      /\ failed' = failed \cup {d} /\ late' \in {late, late \cup {d}}
      /\ UNCHANGED <<chainVars, store, minted, deep>>
  BY DEF MintFails, Handling
<1>2. Seen(d)' /\ \A e \in Deposits : Seen(e) => Seen(e)'
  BY <1>1 DEF Seen
<1>3. InRange' /\ LogsAreBlocks' /\ CurrentIsMintable' /\ ScanIsSeen' /\ CursorIsSeen'
  BY <1>1, <1>2, NextLogStep
<1>4. ChainTyped' /\ \A e : Mintable(e)' <=> Mintable(e)
  BY <1>1, ChainKept
<1>5. StoreTyped'
  BY <1>1 DEF StoreTyped, NextLog, Scanning
<1>6. Mintable(d)
  BY <1>1 DEF CurrentIsMintable
<1>7. Minted' /\ CreditedHasMint'
  BY <1>1, <1>4, <1>6 DEF Minted, Mints, MintOf, CreditedHasMint
<1> QED BY <1>3, <1>4, <1>5, <1>7

LEMMA LateMintStep ==
  ASSUME IInv, LateMint
  PROVE  IInv'
PROOF
<1> USE DEF IInv, store, history, scan
<1>1. PICK d \in late : late' = late \ {d} /\ minted' = IF IsMinted(d) THEN minted ELSE Append(minted, MintOf(d))
  BY DEF LateMint
<1>2. UNCHANGED <<chainVars, store, pc, scan, history, faults>>
  BY DEF LateMint
<1>3. ChainTyped' /\ \A e : Mintable(e)' <=> Mintable(e)
  BY <1>2, ChainKept
<1>4. Mintable(d) /\ MintOf(d).deposit = d
  BY DEF Minted, Mints, MintOf
<1>5. /\ minted' \in Seq(Mints')
      /\ Mints \subseteq Mints' /\ \A m \in Mints' : m \in Mints \/ m = MintOf(d)
      /\ \A i, k \in DOMAIN minted' : minted'[i].deposit = minted'[k].deposit => i = k
  <2>1. CASE IsMinted(d)
    BY <1>1, <2>1 DEF Minted, Mints
  <2>2. CASE ~IsMinted(d)
    <3>1. minted' = Append(minted, MintOf(d))
      BY <1>1, <2>2
    <3> QED BY <1>4, <2>2, <3>1, MintAppended
  <2> QED BY <2>1, <2>2
<1>6. Minted'
  <2>1. \A m \in Mints' : Mintable(m.deposit) /\ m = MintOf(m.deposit)
    BY <1>4, <1>5 DEF Minted
  <2>2. \A e \in late' : Mintable(e)
    BY <1>1 DEF Minted
  <2>3. \A e : MintOf(e)' = MintOf(e)
    BY DEF MintOf
  <2> QED BY <1>3, <1>5, <2>1, <2>2, <2>3 DEF Minted
<1>7. StoreTyped' /\ InRange' /\ LogsAreBlocks'
  BY <1>2 DEF StoreTyped, InRange, LogsAreBlocks, chainVars, Has
<1>8. CurrentIsMintable' /\ CreditedHasMint'
  BY <1>2, <1>3, <1>5 DEF CurrentIsMintable, IsCurrent, HasMint, Mints, CreditedHasMint
<1>9. ScanIsSeen' /\ CursorIsSeen'
  BY <1>2 DEF ScanIsSeen, CursorIsSeen, ObservedBelowCursor, SeenTo, Seen, HashOf, Rewind, SaturatingSub, chainVars, Has
<1> QED BY <1>3, <1>6, <1>7, <1>8, <1>9

LEMMA StepKeeps == IInv /\ [Next]_vars => IInv'
PROOF
<1> SUFFICES ASSUME IInv, [Next]_vars PROVE IInv'
  OBVIOUS
<1>1. CASE Chain
  BY <1>1, MineStep
<1>2. CASE Reorg
  BY <1>2, ReorgStep
<1>3. CASE \E r \in Receipts : register_intent(r)
  BY <1>3, RegisterStep
<1>4. CASE ReadHead \/ CheckHash \/ ReadDeposits
  BY <1>4, ReadHeadStep, CheckHashStep, ReadDepositsStep
<1>5. CASE \E d \in Deposits : Handle(d)
  BY <1>5, DismissStep, CreditIntentStep, MintAppliedStep, CreditedStep, MarkMintedStep DEF Handle
<1>6. CASE ReadWithdrawals \/ SaveCursor \/ TickDies
  BY <1>6, ReadWithdrawalsStep, SaveCursorStep, TickDiesStep
<1>7. CASE \E d \in Deposits : MintFails(d)
  BY <1>7, MintFailsStep
<1>8. CASE LateMint
  BY <1>8, LateMintStep
<1>9. CASE UNCHANGED vars
  <2> USE DEF IInv, vars, store, scan, history
  <2>1. ChainTyped' /\ \A d : Mintable(d)' <=> Mintable(d)
    BY <1>9, ChainKept
  <2>2. StoreTyped' /\ InRange' /\ LogsAreBlocks'
    BY <1>9 DEF StoreTyped, InRange, LogsAreBlocks, chainVars, Has
  <2>3. Minted' /\ CurrentIsMintable' /\ CreditedHasMint'
    BY <1>9, <2>1 DEF Minted, Mints, MintOf, CurrentIsMintable, IsCurrent, HasMint, Mints, CreditedHasMint
  <2>4. ScanIsSeen' /\ CursorIsSeen'
    BY <1>9 DEF ScanIsSeen, CursorIsSeen, ObservedBelowCursor, SeenTo, Seen, HashOf, Rewind, SaturatingSub, chainVars, Has
  <2> QED BY <2>1, <2>2, <2>3, <2>4
<1> QED BY <1>1, <1>2, <1>3, <1>4, <1>5, <1>6, <1>7, <1>8, <1>9 DEF Next, Tick

-----------------------------------------------------------------------------
(* Theorems *)

\* The invariant holds of every behaviour of the watcher.
THEOREM WatcherInvariant == Spec => []IInv
PROOF
<1>1. Init => IInv
  BY InvInit
<1>2. IInv /\ [Next]_vars => IInv'
  BY StepKeeps
<1> QED BY <1>1, <1>2, PTL DEF Spec

\* Every mint of a namespace answers one confirmed deposit of its token with
\* the amount its proof bound, and no deposit is minted twice, however often
\* the ledger is asked (tick, credit, credit_intent, mint).
THEOREM MintsAlwaysBacked == Spec => []MintsAreBacked
PROOF
<1>1. IInv => MintsAreBacked
  <2> SUFFICES ASSUME IInv PROVE MintsAreBacked
    OBVIOUS
  <2>1. \A m \in Mints : Mintable(m.deposit) /\ m = MintOf(m.deposit)
    BY DEF IInv, Minted
  <2>2. \A m \in Mints : m.receipt = m.deposit.receipt /\ m.amount = AmountOf[m.deposit.receipt]
    BY <2>1 DEF MintOf
  <2>3. \A i, j \in DOMAIN minted : minted[i].deposit = minted[j].deposit => i = j
    BY DEF IInv, Minted
  <2> QED BY <2>1, <2>2, <2>3 DEF MintsAreBacked, Mintable
<1> QED BY <1>1, WatcherInvariant, PTL

\* Below the cursor no deposit was skipped, and what is reported as credited
\* was minted, after ticks that die and reorganisations (tick, load_cursor).
THEOREM BooksAlwaysTrue == Spec => []BooksAreTrue
PROOF
<1>1. IInv => BooksAreTrue
  BY DEF IInv, CursorIsSeen, BooksAreTrue
<1> QED BY <1>1, WatcherInvariant, PTL
=============================================================================

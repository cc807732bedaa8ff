# Peal in TLA+

Peal runs two engines. The *reveal engine* seals payloads to a committee and
opens a whole batch at a time or a block height. The *private ledger* of Peal
Links keeps one hiding commitment per account and accepts an operation only with
a zero-knowledge proof. Around them stand the validators that agree on the
ledger, the account a browser keeps against it, a sealed-bid auction contract
with the settler that drives it, the metered API of the coordinator, and a
bridge that turns gateway deposits into ledger receipts and ledger burns into
gateway releases. These modules model the parts where state, order and failure
decide whether the system is right; TLC checks them on small instances and TLAPS
proves every safety property the runs check, for every instance.

Paths below are relative to the repository. Run `tlc -config X.cfg M` for a
model and `tlapm M.tla` for the proofs of a `*Proofs` module.

## 1. Inventory

### Links ledger: `crates/peal-bonsai` (ledger.rs, envelope.rs, trees.rs)
* State: sqlite tables `accounts` (account to commitment), `receipts` (the
  append-only log), `ops` (accepted history), `deposits`; in memory the receipt
  tree and the window of recent roots.
* Operations: `register`, `apply`, `apply_batch` (verify all, then apply one by
  one), `mint`, `init`, `verify_replay`.
* Interactions: the single-node actor and the consensus replica call it; wallets
  read it to sign, and their envelopes arrive late, twice or never.
* Hard: memory moves before the transaction commits; a batch is verified against
  one state and applied to another; an envelope is redelivered; there are no
  nullifiers, so double claims are prevented by the account's commitment alone.
* Correct when: memory is what a restart would rebuild; no receipt is claimed
  twice or by the wrong account; no envelope moves value twice; one mint per
  deposit; value is conserved; replay reproduces the state.

### Reveal engine: `crates/bte-coordinator` (engine.rs, api.rs, intents.rs), `crates/bte-node`
* State: tables `conditions`, `ciphertexts`, `batches`, `batch_commitments`,
  `shares`, `batch_slots`, `reveals`, `intents`; in memory the cross-term cache
  and the engine task.
* Operations: seal, submit intent, the engine tick (freeze due conditions,
  pre-decrypt, finalize, publish, mark stalled), operators' `get_work` and
  `submit_share`.
* Interactions: one mutex over one connection, released around cryptography;
  operators poll.
* Hard: handlers run wherever the engine lets go of the mutex; statements outside
  transactions, each of which may fail; crashes; late and wrong shares, and shares
  sent in an operator's name by somebody else, since the route asks for no
  credential.
* Correct when: the order is committed before an operator gets the batch and never
  changes; nothing opens below the threshold; what is published is what was
  stored and stands; what is due is opened in the end.

### Auction clearing, sealed-bid auction and its settler: `contracts/src/auctionkit`, `packages/sealbid-settler`, `packages/auctionkit/src/settle.ts`
* State: configuration, lifecycle state, bids with escrow, the signed reveal root,
  demand per tick, clearing result, claims, token balances; of the settler only
  the pass it is in and the transactions it sent.
* Operations: fund, openCommit, commitBid, cancel, closeCommit,
  registerRevealRoot, processReveals, disputeVoid, finalize, failOnRevealTimeout,
  claim, claimProceeds, claimUnsold; the settler's loop: read, plan, write, wait.
* Interactions: the committee signs a root of revealed bids, the settler or anyone
  makes the permissionless calls, sale and quote tokens move.
* Hard: a committee that omits or substitutes bids; deadlines against dispute
  windows; rounding in four places; claims in any order; a settler that stops
  waiting for a transaction which lands later, and plans again from scratch.
* Correct when: the price is computed from what bidders committed to and leaves no
  bid out; nobody pays more than escrowed; the contract can pay everything it
  owes; every bid reaches an end; the settler continues exactly what it began.

### Gateway, deposit watcher, withdrawal settlement: `contracts/src/links/PealLinksGateway.sol`, `crates/peal-links-node` (watcher.rs, api.rs, evm.rs, settlement.rs)
* State: the contract's consumed ids, signer epoch, pause and token switches; per
  node `deposit_intents`, `observed_deposits`, `watcher_cursors`, `withdrawals`,
  `withdrawal_attestations`.
* Operations: deposit, withdraw, rotateSigners, pause; register_intent, one tick
  (head, cursor check, logs, credit, statuses, cursor); settle, sign_for_peer,
  attest.
* Interactions: RPC reads of a chain that reorganises, ledger mints through the
  submitter, validators asking each other to sign.
* Hard: reorganisations under the cursor, RPC failures and crashes between any two
  steps, deposits before intents, rotations and competing claims during signing.
* Correct when: every mint is backed by one deposit, no deposit is skipped, a
  certificate pays an attested burn once, and the committee cannot wedge.

### Links consensus: `crates/peal-links-consensus`
* State: blocks and head beside the ledger; the actor's block cache, mempool,
  requests under way, known and unknown finalizations, waiting submissions.
* Operations: propose, verify, finalized, gap walk and backfill, apply_block,
  submit with a deadline, restart.
* Hard: a block applied in many commits any of which may fail, crash and
  re-application, finalizations
  out of order, lost requests, submissions that time out and are applied later.
* Correct when: every validator applies a prefix of the finalized chain, an
  answered submission is in it, a finalized mint was seen by a quorum. Agreement
  itself is the commonware simplex library's.

### Account: `crates/peal-bonsai/src/wallet.rs`, `crates/peal-links-wasm`, `packages/links`, `crates/peal-links-node` (product.rs)
* State: the account's opening, claimed positions and randomness, one journaled
  pending operation, in every browser and in the node's backup; device lock,
  inbox cursor, outbox.
* Operations: prepare, prove, commit, abort and reconcile the pending operation;
  the SDK's pay, claim, sync, unlock, recover, backup.
* Hard: an answer that is lost or late; two browsers; an abort while the envelope
  is under way; a page closed between any two saves.
* Correct when: no copy is ahead of the ledger, some copy can open the commitment
  the ledger holds, what was sent reaches its receiver.

### Coordinator v1 API and metered calls: v1.rs, auction.rs, x402.rs
* State: conditions, ciphertexts, auctions, idempotency keys with stored answers,
  redeemed payments.
* Operations: create_round, create_seal, create_lone_seal, create_auction,
  require_payment.
* Hard: look up, effect and remember are separate holds of the mutex; concurrent
  requests with one key; one payment, one call; clients that hang up.
* Correct when: a retried create makes one round, a payment buys one call.

### The rest
* Private actions (packages/actions): a client-side state machine of an intent and
  the verification of its receipt.
* Encrypted mempool demo (PealMempool.sol, keeper, settler): epochs of sealed
  swaps, executed by retrying agents.
* Live board, names, currency (packages/live, names.rs, currency.rs): reads and
  display around the auctions of the v1 API.
* Directory, sessions, payment requests of the Links node: single statements over
  sqlite.
* Auction factory and committee registry: cloning, an owner-kept signer list.
* Threshold encryption (bte-crypto, wasm, cli) and the hiding relation
  (params.rs, encoding.rs, deposit.rs): cryptography, used by what it guarantees.
* Names, anchor, token contracts; explorer, extension, rendered pages: one guarded
  write each, or display.

## 2. Modules

| module | models | composed with |
|---|---|---|
| `LinkMoney` | what a namespace promises: balances and payments owed until claimed once | abstract specification |
| `BonsaiLedger` | ledger.rs, envelope.rs: store, memory, batches, failed writes, restart, clients | implements `LinkMoney` |
| `BonsaiLedgerReplay` | `verify_replay` and the reconciliation sum | extends `BonsaiLedger` |
| `RevealEngine` | engine.rs, api.rs, intents.rs, bte-node's loop | |
| `ClearingPrice` | ClearingPrice.sol and AuctionMath.sol as operators | |
| `ClearingScan` | the clearing loop, one iteration a step, against the rule | extends `ClearingPrice` |
| `SealedBidAuction` | SealedBidAuction.sol, one auction | extends `ClearingPrice` |
| `AuctionSettler` | the settler's loop and planReveal, with a transaction pool | composes with `SealedBidAuction`, whose actions its transactions are |
| `GatewayChain` | PealLinksGateway.sol on a chain that reorganises, and its RPC | |
| `DepositWatcher` | watcher.rs with register_intent and credit_intent | extends `GatewayChain` |
| `Settlement` | settlement.rs and the watcher's withdrawal statuses, many validators | extends `GatewayChain` |
| `LinksConsensus` | state.rs, actor.rs, engine.rs over any number of validators | |
| `LinksAccount` | account.ts over wallet.rs, the node's inbox and backups, many pages and browsers | |
| `CoordinatorApi` | v1.rs, auction.rs, x402.rs: concurrent requests | |
| `SumTheorems` | lemmas about sums over finite sets, and the induction over finite sets they rest on | |
| `BonsaiLedgerProofs` | theorems about the ledger, its replay and `LinkMoney` | extends `BonsaiLedgerReplay`, `SumTheorems` |
| `AuctionProofs` | theorems about the clearing loop, the auction and the settler | extends `ClearingScan`, `AuctionSettler`, `SumTheorems` |
| `CoordinatorProofs` | theorems about the reveal engine and the API | extends `RevealEngine`, `CoordinatorApi` |
| `DepositWatcherProofs`, `SettlementProofs`, `LinksConsensusProofs`, `LinksAccountProofs` | theorems about the module each is named after | extend it |

`MC*` modules give TLC its sets and its symmetries. A definition commented
`Variant:` is a wrong form of the definition after it, kept to show that a
property notices; no specification uses it.

### State and actions against the code

**BonsaiLedger.** `accounts`, `receipts`, `deposits`, `ops` are the tables of the
same names; `tree` and `recent` are the memory beside them; `batch` holds what
`apply_batch` verified and has not applied yet; `net` is every envelope signed so
far, deliverable in any order and again. `apply`, `apply_batch`, `register` and
`mint` are actions, each with the form in which its write fails and
`reload_tree` runs. A commitment is the record it opens to, a root the log prefix
it digests: both stand for injective hashes. The proof an envelope carries is the
relation `ProofVerifies`. Clients may sign several envelopes from one commitment,
reuse randomness, and sign a claim that has no proof. Positions count from 1.

**RevealEngine.** The engine is one task, so its program counter is the variable
`engine`; an action is one hold of the mutex. Where the code runs two autocommit
statements under one hold, each is an action and `Locked` keeps handlers out, so
that only a crash or the failure of the second falls between them. What may fail is
an action of its own, named for where the code gives up: `QueryFails` ends the tick,
`ItemFails`, `FreezeFails`, `FinalizeFails` and `RevealFails` are logged and the
pass goes on, `ShareFails` answers an error. `work` is what an operator fetched,
`verifying` a share whose proof is checked without the mutex. An operator that is
not in `Honest` submits shares that fail verification, or nothing; `PostInName` is a
share anybody submits in the name of an operator of `Named`: it fails verification
too, and its row keeps the operator's own share out. `missed` remembers the seals
accepted between a freeze's read and its commit, `torn` the batches marked finalized
whose payloads were never stored. `Over` is an upsert: INSERT OR REPLACE puts the
new rows first, INSERT OR IGNORE the old ones.

**SealedBidAuction.** One action per external call that does not revert. The
committee's signed root is an arbitrary choice of leaf per bid: the plaintext,
another plaintext, or nothing. `processReveal` takes the bid version from its
caller, as the contract does.

**AuctionSettler.** `settler` is the pass: where it is, the timestamp it read at
its start and keeps, the leaves it planned, the bids it still has to process, and
the call it waits for. A write is a transaction in `pool`; `Mine` is the contract
taking it, in whatever state the auction is by then, `Dropped` the chain losing
it, `Interrupted` a process that died or an RPC error, which both start the loop
over. `Others` are all calls anyone else may make. Only the settler registers the
root: it holds the committee's keys.

**GatewayChain.** A chain of blocks with at most one gateway transaction each;
the contract's storage is computed from the chain, so a reorganisation takes it
back. `close` and `open` merge pause, unpause and configureToken: both only stop
and restart the token.

**DepositWatcher.** The tick is a program counter over its RPC and ledger calls;
the logs of a range are a set, handled in any order. A failed call and a crash
end the tick alike. `late` holds mints whose caller gave up while the ledger still
works on them. `minted` is the sequence of the ledger's mints, so that one deposit
minted twice would show; `failed` and `deep` are history.

**Settlement.** Every validator has its copy of the ledger, its attestations and
its rows. A settle call moves through reading its row, its own check, gathering
signatures and storing; any number of calls, rotations and reorganisations
interleave. A signature set is the set of its signers.

**LinksConsensus.** A transaction moves an account from one commitment to the
next, which is what the ledger of `BonsaiLedger` decides on; a mint is the one
move of its deposit. `ledger` and `stored` are on disk, everything else of a
node in memory. `apply_block_tx` commits one transaction, `apply_block_tx_fails` is
the write that fails and becomes one more rejection, `apply_block_commit` stores the
block and the head; a crash or a failed commit before it leaves a block in part.
`torn` remembers such blocks, `skipped` those of which a write failed, and `Intact`
is a validator without a failed write and without a torn block that is `Mixed`, one
in which an account has two transactions. `promised` records every answer of success
of every validator, with whether it was intact. The simplex engine is the external
part: a
proposal is notarized by a quorum, and `Finalizable` is what the library
promises about the finalized ones.

**LinksAccount.** One action per save, request or answer of a page; `locked()` is
`lock`, shared by the pages of one browser. The node's decision is the action
`Decide`, which comes any time after the submission, also after the page was told
500 or left. `store` is the browser's saved wallet, `mem` the page's copy of it,
`backup` the node's, with its sequence number. `ops` numbers every operation
proved, so that a commitment is the number of the operation that set it.

**CoordinatorApi.** A call is one HTTP request, its place in the handler is
`calls[c].at`; every hold of the mutex is an action. `HangUp` is possible where
the handler awaits: the chain's answer about a payment. Rounds close while calls
are under way, keys expire. `LookupFails` is the lookup of a key whose error reads
as no row, `WriteFails` a write that ends its call with the holds before it done:
`remember`'s, for one, after the round's row. `disturbed` marks the keys that two
calls took for new at once, whose lookup failed or whose row expired; a call cut
off or failed anywhere, and sent again, disturbs nothing.

## 3. Runs

| run | shows | instance | distinct states |
|---|---|---|---|
| `ledger` | memory and store agree; claims, replay, mints, conservation; implements `LinkMoney` | two accounts, two deposits, four log positions, window of two, three signed envelopes | 141 266 |
| `reveal` | ordering precedes work and is fixed, published data stands, a reveal shows exactly the batches that were stored | a timed and a block round, up to two batches each, one crash or failed statement anywhere | 2 937 928 |
| `reveal_live` | what is due is opened, on T honest shares of three operators, unless foreign shares block it; threshold, flags, intents | one block round, a batch of two, an intent, one faulty operator, one honest operator whose name others use, one crash or failed statement | 404 315 |
| `clearing_scan` | the loop computes the clearing rule; allocations fit and are fair | every book of three bids of up to three units on three ticks, every supply up to seven | 45 108 |
| `auction` | holdings cover what is owed, payment bounds, commitments, finality; bids reach an end and failures refund | two bids, two ticks, junk commitments, short escrow, a tick off the scale, time 0 to 3 | 301 080 |
| `auction_settler` | the root registered is the root planned again, writes are not early, the auction ends | the same contract, a chunk of one, a bid off the scale, one interruption or lost transaction, time 0 to 4 | 391 738 |
| `bridge_deposits` | mints backed and unique, no deposit skipped, statuses truthful, registered deposits credited | three deposits to one receipt, three blocks, one confirmation, one reorganisation, one fault | 81 767 |
| `settlement` | payments are attested burns paid once, certificates agree, no wedge | three validators, two called, threshold two, one burn, two recipients, one rotation, one reorganisation | 975 089 |
| `consensus` | validators hold a prefix of the finalized chain and tell submitters the truth | two validators, a quorum of two, two operations, two proposals, two submissions, one crash, failed write or failed commit | 373 326 |
| `consensus_live` | a finalized mint was seen by a quorum; what is finalized is applied everywhere | the same with a mint confirmed at different times | 110 544 |
| `account` | copies follow the ledger, funds stay reachable, the cursor is saved, journals of reopened pages resolve, sends that pay recorded arrive | two browsers with a page each, two operations, one receipt, one fault | 116 112 |
| `api` | the answers to a key name one round, a payment buys one call | three calls, one key, one payment, three rounds, one crash or failed statement | 1 215 239 |

### Why the bounds are enough
* *ledger*: four positions hold a mint, a send, a claim and one more operation, so
  a payment is made, claimed, and its envelope redelivered; a window of two makes
  roots expire within that history; two accounts are needed to claim from
  another; one opening randomness makes every commitment repeatable, the worst
  case for replay. Amounts are one unit: comparisons of amounts are the guard
  `amt <= bal`, which balances of 0, 1 and 2 tell apart. Accounts and deposits
  are symmetric.
* *reveal*: two batches make ordering, finalizing and publishing partial; two
  rounds of different kinds share the engine; one crash or failure falls between
  any two statements, since a restart keeps only the tables; the proofs cover any
  number of both. *reveal_live* keeps three operators with a threshold of two.
* *clearing_scan*: three bids at one tick give remainders of one and two units;
  three ticks leave one above and one below the crossing.
* *auction*: two bids are enough for one to be omitted, substituted, ineligible or
  voided while the other is not; the clock has the start, the end, the deadline
  and one moment after it. Fractions come from a price of 10.5 for a unit.
  The per-address cap is off.
* *auction_settler*: with two bids and a chunk of one, a pass is interrupted
  between two chunks; the clock has one more moment, so that the dispute window
  can end before the deadline or after it.
* *bridge_deposits*: a reorganisation of two blocks is twice the confirmation
  depth, the furthest the watcher's rewind still covers; a block range of one
  makes every deposit a boundary of a range.
* *settlement*: three validators with a threshold of two is the smallest
  committee that can split. One call is under way at a time: attestations are
  the only state calls of two validators share, and calls that end early leave
  every combination of them. The proofs have any number of calls.
* *consensus*: two validators with a quorum of two is the smallest committee in
  which one falls behind; two proposals give a parent and a child, hence a gap and
  an ancestor final through its descendant, and an operation included twice. The
  live instance is separate because liveness needs the unsymmetric state graph.
  The safety instance takes states that differ only in the mempools as one once
  the last proposal is made (`View`, `NoIdleExpiry`): nothing but steps that
  change a mempool reads one from then on, and neither invariant ever does.
* *account*: two browsers make a stale copy and a backup race; two operations
  make one follow another on the ledger; every hazard listed needs one fault. The
  safety properties also held with two.
* *api*: two calls race and a third retries; one key and one payment are the
  contended case.
* Named bounds are CONSTANTS: `MaxPositions`, `MaxBalance`, `RootWindow`,
  `MaxBlockTxs` and `CacheBehind` are the code's own limits; `MaxSigned`,
  `MaxFaults`, `MaxTime`, `MaxHeight`, `MaxForks`, `MaxReorg`, `MaxEpoch`,
  `MaxBlocks`, `MaxSubmits`, `MaxOps`, `MaxRounds`, `MaxFailures` and `Entry` bound
  the exploration.

Deadlock is checked in `reveal` and `reveal_live`, where the engine never stops.
The other systems stop: a log is full, an auction is over, a chain or a count of
operations is at its bound.

### Fairness
* `RevealEngine`: weak fairness of the engine task (main.rs spawns it on a 500 ms
  interval) and of each honest operator's poll loop; strong fairness of a chain's
  RPC answering, which is asked on every tick. Nothing is assumed of clients or
  dishonest operators, and nothing makes crashes and failures happen; a client that
  stores a share in an honest operator's name may keep a round from opening, which
  `Blocked` states.
* `SealedBidAuction`: the clock moves; closing the book and failing on the deadline
  are calls anyone can make; each bidder claims. Nothing is assumed of the issuer
  or the committee.
* `AuctionSettler`: the loop runs every few seconds, the chain takes what is in
  its pool, the clock moves. Nobody else is assumed to make any call, and the
  condition may never open.
* `DepositWatcher`: the tick loop runs for ever and blocks are mined.
* `LinksConsensus`: the actor's tick and its apply steps run; the engine keeps
  reporting the newest finalized block, as it does while views go on; a request
  repeated by the tick for ever is answered in the end (strong fairness).
* `LinksAccount`: the node decides what it holds, a page that waits gets an answer,
  an open page carries on and syncs every five seconds (bonsai-app.ts does; the
  checkout alone has no such timer), a closed one is opened again. Nothing makes an
  open page reconcile what it has pending: sync skips it (account.ts:850), and
  `refreshBalance`, a click or a page event whose failure is swallowed, is an action
  without fairness. Faults are bounded by `MaxFaults`.
* `BonsaiLedger`, `Settlement`, `CoordinatorApi`: none; only safety is checked.

### Assumptions about the environment
* Hashes, commitments, signatures and proofs are perfect.
* RPC answers come from the canonical chain at the moment of the call.
* A reorganisation deeper than the confirmation policy comes between two watcher
  ticks, not inside one; one the policy covers comes at any time. A deposit that
  is mined again keeps its identity. Reorganisations the watcher's rewind does not
  reach are excluded by `WatcherAssumption`, and those that would take back a
  confirmed payment by `SettlementAssumption`.
* The settlement threshold is more than half of the validators (an operator's
  configuration, `SettlementAssumption`), and rotation keeps the validators.
* Fewer validators of the ledger than a quorum lose their memory.
* Deposits and withdrawals are below the gateway's caps; 256-bit and 64-bit
  overflow are out of the instances.

## 4. What the models found

The properties hold of the code as it is; where it does less than a comment or a
document says, the property states what it does, and the difference is here. Four
statements of the repository are written down as formulas of their own and are
false of the models, within seventeen steps each; no run lists them, anybody can add one to
the cfg named and read the counterexample.

| formula | says | config |
|---|---|---|
| `RevealIsWhole` | v1.rs:1204 "`opened` always means the payloads are there" | MCRevealEngine |
| `CommittedIsIncluded` | intents.rs:325-327, no intent claims a batch it is not in | MCRevealEngineLive |
| `RetriesAreSafe` | v1.rs:27-29, a key "returns the original round rather than making a second one" | MCCoordinatorApi |
| `AppliedIsFinalized` without `Intact(n)` | state.rs:1-4, validators "that finalize the same blocks hold byte-identical ledgers" | MCLinksConsensus |

**Reveal engine and API**
* `finalized_at` and `batch_slots` are stored by two statements (engine.rs:424,
  :428). A crash between them, or an error of the second, leaves a batch that is
  never finalized again, and the round is published without its payloads
  (`RevealIsWhole`). `RevealIsExact` says that exactly such batches are missing.
* The ciphertexts of a round are read in one hold of the mutex (engine.rs:127), the
  round is frozen in a later one (:177), and padding is sealed in between. A seal
  accepted then has no position and never opens; v1.rs:843 promises its payload
  once the round has opened. An intent for it is moved to ORDER_COMMITTED with the
  others (`CommittedIsIncluded`); `IntentsFollowOrder` says that exactly the intents
  for such seals have no position.
* `POST /v0/shares` asks for no credential (api.rs:594-692). A share anybody sends in
  an operator's name fails verification, and its row keeps the operator's own out:
  an existing row answers early, the insert ignores, and `get_work` no longer lists
  the batch. So a rejected share does not tell a faulty operator (`SharesDecide`
  says what it tells), and a round with fewer than the threshold of operators left
  does not open: `DueIsRevealed` excepts such `Blocked` batches and nothing else.
* Pre-decryption runs after the freeze commits (engine.rs:240), although
  spec/index.md:138-139 puts it first, and only the oldest of two intents on one
  ciphertext gets an ordering leaf (:193).
* An idempotency key answers for the round's spec alone. A lone seal repeated under
  its key with another ciphertext puts a second seal into the first's round, and an
  auction repeated with other rules replaces the first's (auction.rs:265-266,
  against api.md:24-25). A retry while the first call is at work is answered with
  a second round (`RetriesAreSafe`), and so is one whose lookup failed or came after
  a day: these keys are `disturbed`. A failure or a crash between the round's row and
  the key's (v1.rs:621-623 answers 500) leaves a round no answer names; the retry
  makes another, and `KeyMakesOneRound` says that the answers agree on it.
* A seal whose hash is already stored under another round is ignored by the insert
  and answered "sealed" with the wrong round's id (v1.rs:815-825).
* A metered caller that hangs up after the redemption has lost its payment.

**Auction**
* Proceeds are floored once over the sale (SealedBidAuction.sol:711), payments once
  per bid (:752), so the contract may owe a few units more than it holds and the
  last transfer reverts; AuctionMath.sol:28-29 says rounding cannot leave it short.
  `HoldingsCoverClaims` says that it is short by exactly that difference and by
  nothing else, and `HoldingsCovered` proves it.
* A bid on a tick outside the scale reverts before it is marked processed (:584), so
  an honestly attested auction cannot finalize and waits for the timeout, though
  :598-605 says voiding removes the bids that can never be processed. At the
  settler the chunk that holds it reverts on every pass, the good bids in it with
  it, though settle.ts says one broken bid must not hold the others.
* Past the deadline the settler fails an auction whose bids are all processed and
  which only waits for its dispute window; it logs a reveal that did not happen.
* A bid whose ciphertext was lost gets a placeholder leaf. Its bidder, who is
  honest, can dispute the void, which halts the auction and blames the committee.
* A voided bid's version comes from the caller (:607), so it can be voided with the
  wrong one and then disputed; the per-address cap binds each bid, not each address
  (:634, against trust-assumptions.md:28); dust between the allocations and
  `supplySold` belongs to nobody (:784).
* In the mempool demo, a reverted `executeBatch` is logged as settled, and the
  keeper's snapshot skips batches revealed while it was down. (Read, not modelled.)

**Bridge**
* `credit_unregistered` (watcher.rs:261) has no caller: a deposit scanned before its
  intent is never credited, though its comment and decision 0004 say it is.
* The cursor is rewound by `max(confirmations, 1)`. A reorganisation deeper than
  that beyond the confirmations leaves a gap no tick scans again: two blocks when
  the policy is zero confirmations. `WatcherAssumption` is the depth it covers.
* A mint that fails is logged "credit failed; will retry", the cursor moves on, and
  nothing retries (:161). The hash of the last block is read after its logs (:203).
  A second deposit to a minted receipt is recorded `credited` without a mint; a
  crash between a mint and the update of its intent leaves the intent `pending`.
* Claims that name as many recipients as there are validators, within one epoch,
  split the committee so that no recipient has a threshold until a rotation. The
  second certificate of an epoch is lost to the insert's conflict, and a claim
  repeated after a rotation sets a paid withdrawal back to `certificate_ready`
  (settlement.rs:639).

**Consensus**
* `apply_block` runs each transaction as a commit of its own and stores the block
  and the head last (state.rs:210-245). A validator stopped in between applies the
  block again: what it had applied is rejected now. Where an account has one
  transaction in the block that changes nothing, which `AppliedIsFinalized` checks;
  where it has two, one rejected the first time can be accepted, so that ledgers at
  one head differ for good (`Mixed`). docs/peal-links/BUILD_STATUS.md:240-246 calls
  re-application idempotent.
* A ledger write that fails is one more rejected transaction, and the block and the
  head are stored without it (state.rs:217-227): that validator's ledger stays
  behind (`skipped`). What it goes on answering is still in a finalized block and in
  its own ledger, which `AnsweredIsFinal` checks of every answer; that the other
  validators have it too is checked of the answers of intact ones.
* A notarized block is held in memory only; when all who voted for it restart
  before it is applied, nobody can serve it.
* A transaction included twice is rejected the second time, and a submitter that
  resubmitted can be told so although it was applied: `AnsweredIsFinal` is about
  acceptances.

**Account**
* Any answer with a status aborts the journaled operation, the node's 500
  `submit_timeout` too, and so does a reconcile while the envelope is in flight. If
  the ledger accepts it afterwards, the opening is gone (`abandoned` in the model).
* A page closed between the acceptance and the delivery, and a send found committed
  by a reconcile outside pay, never deliver the receipt (docs/peal-links/SPEC.md:311,
  :367). `SendsReachReceivers` is about the sends pay itself recorded as accepted.
* An open page whose submission got no answer, and whose reconcile then failed too,
  keeps the operation pending until a click or a reload: sync does not reconcile
  while one is pending (account.ts:850). `PendingIsResolved` starts where a page is
  closed or reconciles.
* A pending operation that has become a conflict stays pending for ever.
* `refreshFromBackup` keeps the inbox cursor of the wallet it replaces. A browser
  behind the ledger may write its older wallet over a newer backup with an equal or
  higher sequence number, against "a stale copy can never win" (account.ts).
  A backup prepared for a deposit does not raise the number; a commit found by
  reconcile makes none. Reconcile on opening runs outside the lock.

## 5. Proofs

Every safety invariant and action property of the runs is proved for every value
of the constants within the named assumptions of its module; only liveness is not.

| theorem | property | module |
|---|---|---|
| `TypeCorrect` | `TypeOK` | `BonsaiLedgerProofs` |
| `MemoryAlwaysStore` | `MemoryIsStore` | |
| `ClaimsAlwaysSound`, from `ClaimsAlwaysOwn` and `NeverDoubleClaimed` | `ClaimsAreSound` | |
| `DepositsAlwaysMatchMints` | `DepositsMatchMints` | |
| `NeverReplayed` | `NoReplay` | |
| `NothingIsRewritten` | `AppendOnly` | |
| `LedgerImplementsMoney` | `ImplementsLinkMoney` | |
| `ReplayAlwaysAgrees` | `ReplayAgrees` | |
| `AlwaysConserved` | `Conservation` | |
| `CommittedAlwaysBeforeWork` | `CommittedBeforeWork` | `CoordinatorProofs` |
| `SharesAlwaysDecide` | `SharesDecide` | |
| `IntentsAlwaysFollowOrder` | `IntentsFollowOrder` | |
| `PublishedAlwaysStands` | `PublishedStands` | |
| `RevealAlwaysExact` | `RevealIsExact` | |
| `PaymentAlwaysBuysOne` | `EachPaymentBuysOne` | |
| `KeyAlwaysMakesOneRound` | `KeyMakesOneRound` | |
| `ScanFindsClearingTick` | `ScanIsClearingRule` | `AuctionProofs` |
| `AllocationsAlwaysHold` | `AllocationsHold` | |
| `HoldingsCovered` | `HoldingsCoverClaims` | |
| `NobodyOvercharged` | `PaidWithinEscrow` | |
| `SettledFromCommitments` | `SettledOnCommitments` | |
| `OutcomesStand` | `OutcomeStands` | |
| `RootPlannedAgain` | `RootIsThePlan` | |
| `NoWriteEarly` | `WritesAreDue` | |
| `MintsAlwaysBacked` | `MintsAreBacked` | `DepositWatcherProofs` |
| `BooksAlwaysTrue` | `BooksAreTrue` | |
| `CertificatesAlwaysAgree` | `CertificatesAgree` | `SettlementProofs` |
| `PaymentsAlwaysBurned` | `PaymentsAreBurned` | |
| `AlwaysPayable` | `StillPayable` | |
| `AppliedFinalized` | `AppliedIsFinalized` | `LinksConsensusProofs` |
| `AnsweredFinal` | `AnsweredIsFinal` | |
| `WitnessedFinal` | `MintsWitnessed` | |
| `CopiesFollow` | `CopiesFollowLedger` | `LinksAccountProofs` |
| `Reachable` | `FundsReachable` | |
| `CursorIsBehind` | `CursorIsSaved` | |

Each module states its inductive invariants (one per theorem where they share
little), proves that each holds initially and is kept by every action, and
derives the property. Each invariant was model-checked before it was proved.

**Sums, folds and recursion.** Some properties are sums over bids, accounts or
payments, others follow a recursive definition (the replay of a log, the chain of
finalized views, a flattened sequence). Induction is by least counterexample: a
set of naturals has a least element (`LeastNatural`), and a set of subsets of a
finite set a smallest one (`SmallestSet`, from the well-foundedness theorems of the
library). A recursive function is first shown to exist and to be unique, then its
equation is used. `SetInduction` is the form the sums use: a family that contains
the empty set, and with a set less one member the set, contains the whole. On it
rest how a sum splits, adds term by term, is ordered with its terms, loses to
rounding less than one unit per term, and moves with the one term a step changes.

**Ledger.** No claimed property is inductive by itself. A claim is judged under an
old root, so what claims mean needs that every root in the window is a prefix of
the log: that is `MemoryIsStore` with `RecentRootsArePrefixes`. A candidate of a
batch is applied without verifying its proof again, so it needs `BatchVerified`:
what was verified stays verified, since the relation reads the envelope alone.
`NoDoubleClaim` compares two rows of the history; `OpsClaimed` connects a row to
the account: what it claimed is still in the claimed set, so a later operation from
the current commitment cannot insert it again, and another account's cannot either
because the receipt names its receiver. `WriteOpPreserves` is the step all three
ways to accept an operation share. `MemoryIsStore` rests on `PushIsRebuild`:
pushing the root of the longer log on the window, and dropping the oldest beyond
`RootWindow`, gives exactly the window `recent_from_tree` rebuilds.

`NoReplay` needs `MovedOn`: since an operation was accepted, its account has
claimed more than the operation left it, or has claimed nothing more and holds at
most what it left. An envelope that moves value either claims or spends, so the
commitment it names cannot be the current one again, even under the same
randomness.

The refinement of `LinkMoney` maps the balances, the payments nobody has claimed
and the credited deposits. `StoreMoves` reduces every action to a registration,
an accepted operation, a mint or nothing; a registration maps to a stutter because
an unregistered account has balance zero, and an accepted operation maps to a send
or, for the position it claims, a claim. Both that a
new position is not claimed already and that a claimed one was still owed follow
from `ClaimsAreOwn`: claims lie within the log, and only the account a receipt
pays can hold it.

`ReplayAgrees` is proved from `RunsBack`: the replay's equation has a solution, and
every solution, after the whole history, is the live store. The step lemma says
that appending a row to the history and applying it to the live store is what the
replay does with that row; it needs that a row's root is still in the window the
replay rebuilds, which is `MemoryIsStore` once more. `Conservation` moves with one
account, one payment or one deposit a step, by the refinement: only a deposit, a
send or a claim of `LinkMoney` changes the sums.

**Reveal engine.** `Ordered` ties the status of a condition to its positions and its
commitments: the three change in one transaction. `Fetched` says that what an
operator took away is what the tables still hold, which is what makes two reads of
a batch in two locks agree. `Opened` says that a reveal is exactly the opened slots
of finalized batches: this is what makes `build_reveal`'s INSERT OR REPLACE, run
again after a crash, write what was there. `EngineKeepsUp` carries the queries'
results to the statements that use them: the engine is one task, and the handlers
only add shares. `RevealAlwaysExact` adds `WholeInv`: an order is made of whole batches,
the stored slots of a batch are the batch, and a finalized batch lacks its slots
only between the two statements or when it is in `torn`. Flattening the batches of
an order in turn then gives the order back, less the torn ones. `Placed`
carries what a freeze read to what it commits: between the two, the seals of the
condition that are not in its reading are those in `missed`.

**Clearing and auction.** `Scanned` says what the clearing loop knows on its way
down: the ticks above are counted, and none of them reached the supply; so the
first that does is the clearing rule's. What the bids at the clearing tick get is a
floored share of what is left, which `SumRounded` bounds from both sides. For the
contract, `BookInv` ties the demand of a tick to the sum of the eligible bids
counted on it and the sale to the clearing of that demand; it is kept by a loop of
reveals as by one, whichever bids it processes. `SettlementAddsUp` gives what the
bidders, the issuer and the dust of rounding share of the holdings at the
settlement, and every claim takes its own part out of it, so the order of claims
does not matter. That nobody is overcharged is arithmetic: escrow is rounded up at
the bid's price, payment down at one that is no higher.

**Settler.** `ChainInv` holds of the contract and the coordinator whoever calls: the
root is the plan made from what was opened, and a bid that was revealed and not
voided was opened, because the placeholder leaf matches no commitment.
`PassInv` says of a write in the pool that what called for it still holds
(`CallHolds` is stable under every other call), so it is not early whenever the
chain takes it, the settler waiting for it or not.

**Deposit watcher.** A block's hash names its fork and with it the whole chain below
(`LogsAreBlocks`, `ScanIsSeen`, `CursorIsSeen`), so a cursor whose hash is still on
the chain has scanned that chain. When it is not, the fork lies under it, and the
rewind reaches under the fork by `WatcherAssumption`. `Minted` and
`CurrentIsMintable` say the same of the mints: what the tick credits lies below the
confirmed head, which a reorganisation inside the tick does not reach.

**Settlement.** Two certificates of one epoch have a signer in common, by
`2 * Threshold > Cardinality(Nodes)`; `OncePerEpoch` says a validator attests one
recipient per burn and epoch. `Certified`, `Released`, `Watched` and
`ConfirmedBelow` follow a certificate into the contract, through reorganisations
that reach less deep than the confirmations. `StillPayable` rests on
`AttestedAreBurns`: what was attested for a position is a burn of it, so claims
that name one recipient name one message, and no validator has signed another.

**Consensus.** `BlocksOK` and `FinalsOK` make the finalized proposals one chain that
grows at its end. `NodeOK` follows a validator through the block it is applying:
its ledger is the replay of the head it stored and of the transactions it tried
since (`InStep`), or of more of them where an earlier attempt at the block got
further, as long as it is intact; that its ledger holds finalized transactions only,
and holds those whose results were successes, does not need that. For a torn block
that is not `Mixed`, trying its transactions again on a ledger that has some of them
accepts exactly the rest. `VotesOK` carries a mint from the node that confirmed it to
the quorum whose votes notarized it. `AnsweredIsFinal` is kept since a ledger loses
nothing and finalized views stay so.

**Account.** `LedgerIsChain`: an accepted operation is based on the one before it.
`WalletsFollow`: every copy has recorded a beginning of that chain, and its pending
operation was proved on what it recorded, so recording the accepted operation keeps
it a beginning. `JournaledIsKept`: every operation that may still be accepted is
known to the saved wallet of some browser, from its journal on, or was given up, or
a save overwrote it. None of this rests on the lock. Two tabs of one browser are
within the theorems; the run has a page per browser. With two tabs, the reconcile of
a page that opens runs outside the lock and saves the wallet it read before, over
what the other tab saved meanwhile, although account.ts:303-306 says that a tab left
open does not overwrite newer state with old. `overwritten` (operations) and
`lacking` (receipts) remember it, and `FundsReachable` and `CursorIsSaved` except it.

**API.** For payments, `Metered`: a call that went past the gate holds a row of
`x402_payments` that is its own. For keys, `KeyFlow`: while a key is undisturbed,
one call at most is between its lookup and its remember; every call past that names
the round of the key's row; and the key's other rounds are of calls that stopped.

**Assumed.** `ValueAssumption`, `WindowAssumption`, `IdentifierAssumption` and
`UnregisteredAssumption` (ledger: amounts and the window are naturals, the mint
sender and the withdrawal receiver are no accounts), `AccountsAssumption` (finitely many accounts), `CommitteeAssumption` and
`SealAssumption` (a committee with a threshold, natural seal numbers),
`ConfigAssumption` (what `initialize` requires), `SettlerAssumption` (the
placeholder leaf opens no commitment, and tick 0 exists), `ScanAssumption` (there is
a tick and something is offered), `ChainAssumption`, `WatcherAssumption` and
`SettlementAssumption` (the depth of reorganisations, and a threshold above half),
`QuorumAssumption`, `TxsAssumption` and `BlockTxsAssumption` (quorums intersect, a
transaction moves an account on), `AccountAssumption` (every page has a browser),
`RequestsAssumption` and `BoundsAssumption` (finite calls). The others say that a
value that stands for "unset" is not a real one.

**Only model-checked.** Liveness, which needs fairness and ENABLED, outside the
prover's rules: `DueIsRevealed`, `EveryBidEnds`, `SettlerEndsAuction`,
`RegisteredDepositIsCredited`, `FinalizedIsApplied`, `SendsReachReceivers`,
`PendingIsResolved`.

## 6. What is not modelled

* Cryptography, circuits and their encodings: used by what they guarantee.
* The encrypted mempool demonstration (PealMempool.sol with its keeper, settler and
  trading bots), the private-actions client, the auction factory and committee
  registry, PealNames, the anchor and token contracts: one guarded write each, or
  demonstrations around the engine that is modelled.
* Of the reveal engine, conditions are created in advance, committees are fixed,
  and the states of an intent after its batch opens are left out.
* Of the Links SDK, deposits, withdrawals, payment requests, profiles and labels; of
  the Links node, sessions, the directory and payment requests: single statements
  over sqlite.
* Of consensus, the simplex library itself, gather and status messages, byte limits,
  admission caps and byzantine proposals.
* Explorer, extension, rendered pages, statistics, currency rates, the live board:
  display.

What would come next: the encrypted mempool contract against its keeper's retries;
the bridge as one system, the gateway's reserves against mints less releases; the
account's deposits and withdrawals.

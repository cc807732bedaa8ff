--------------------------- MODULE DepositWatcher ---------------------------
(***************************************************************************)
(* How a deposit on the gateway becomes a mint on the private ledger       *)
(* (crates/peal-links-node/src/watcher.rs and register_intent and          *)
(* credit_intent of api.rs), against a chain that reorganises.             *)
(*                                                                         *)
(* One tick is one action per RPC call or per call of the ledger, each     *)
(* with the reads and writes of the product store that follow it, so the   *)
(* chain, a registration and a crash may come between any two of them.  A  *)
(* failed RPC call and a crash end the tick the same way: what it held in  *)
(* memory is gone, what it stored stays.  The withdrawal statuses the tick *)
(* also updates are in Settlement.  One node, one namespace.               *)
(***************************************************************************)
EXTENDS GatewayChain

CONSTANTS
    Deposits,       \* [id, receipt, amount, token] a deposit transaction may carry
    AmountOf,       \* [receipt -> amount] its deposit proof binds
    Token,          \* the namespace's token
    Confirmations,  \* ns.confirmations
    StartBlock,     \* ns.start_block
    BlockRange,     \* blocks per tick, 2000 in the code
    MaxFaults       \* bound: failed RPC calls, crashes and failed mints

\* Deeper reorganisations are out of the reach of one rewind of the cursor.
ASSUME WatcherAssumption ==
    /\ Confirmations \in Nat
    /\ MaxReorg <= Confirmations + (IF Confirmations = 0 THEN 1 ELSE Confirmations)
    /\ StartBlock \in Nat
    /\ BlockRange \in Nat \ {0}
    /\ MaxFaults \in Nat

Receipts == DOMAIN AmountOf

VARIABLES
    intents,        \* deposit_intents: "absent", "pending" or "minted" per receipt
    observed,       \* observed_deposits: the status per deposit, or "unseen"
    cursor,         \* watcher_cursors: last block and its hash
    minted,         \* the ledger's mints, in order: deposit, receipt, amount
    pc,             \* where the tick is
    safe,           \* tick: safe
    from,           \* tick: from
    to,             \* tick: to
    logs,           \* tick: deposit logs still to handle
    late,           \* mints the ledger still works on after the caller gave up
    failed,         \* history: deposits whose credit failed with "will retry"
    deep,           \* history: a block with Confirmations on it was replaced
    faults

store == <<intents, observed, cursor>>
scan == <<safe, from, to, logs>>
history == <<failed, deep>>
vars == <<chainVars, store, minted, pc, scan, late, history, faults>>

Init ==
    /\ ChainInit
    /\ intents = [r \in Receipts |-> "absent"]
    /\ observed = [d \in Deposits |-> "unseen"]
    /\ cursor = [block |-> IF StartBlock = 0 THEN 0 ELSE StartBlock - 1, hash |-> None]
    /\ minted = <<>>
    /\ pc = "idle"
    /\ safe = 0 /\ from = 0 /\ to = 0 /\ logs = {}
    /\ late = {}
    /\ failed = {}
    /\ deep = FALSE
    /\ faults = 0

-----------------------------------------------------------------------------
(* Environment *)

\* A reorganisation deeper than the confirmation policy only comes between
\* two ticks; one the policy covers comes at any time.
Reorg ==
    /\ \E keep \in 0 .. Len(chain) :
        /\ ReorgTo(keep)
        /\ deep' = (deep \/ keep + Confirmations < peak)
        /\ keep + Confirmations < peak => pc = "idle"
    /\ UNCHANGED <<store, minted, pc, scan, late, failed, faults>>

Chain ==
    /\ MineEmpty \/ \E d \in Deposits : deposit(d)
    /\ UNCHANGED <<store, minted, pc, scan, late, history, faults>>

\* register_intent: the first registration of a receipt stands.
register_intent(receipt) ==
    /\ intents[receipt] = "absent"
    /\ intents' = [intents EXCEPT ![receipt] = "pending"]
    /\ UNCHANGED <<chainVars, observed, cursor, minted, pc, scan, late, history, faults>>

-----------------------------------------------------------------------------
(* One tick *)

SaturatingSub(a, b) == IF a < b THEN 0 ELSE a - b

\* Variant: the newest block is safe.
NewestIsSafe(head) == head

SafeHead(head) == SaturatingSub(head, Confirmations)

\* Variant: the cursor stays when the hash under it changed.
NoRewind(block) == block

Rewind(block) == SaturatingSub(block, IF Confirmations = 0 THEN 1 ELSE Confirmations)

EndTick ==
    /\ pc' = "idle"
    /\ safe' = 0 /\ from' = 0 /\ to' = 0 /\ logs' = {}

\* `safe <= from` ends the tick; otherwise the range is fixed.
FixRange(start, upTo) ==
    IF upTo <= start
    THEN EndTick
    ELSE /\ pc' = "deposits"
         /\ safe' = 0
         /\ from' = start
         /\ to' = IF start + BlockRange < upTo THEN start + BlockRange ELSE upTo
         /\ UNCHANGED logs

\* eth_blockNumber, then the cursor.
ReadHead ==
    /\ pc = "idle"
    /\ IF cursor.hash # None /\ cursor.block > 0
       THEN /\ pc' = "check"
            /\ safe' = SafeHead(Height)
            /\ from' = cursor.block
            /\ UNCHANGED <<to, logs>>
       ELSE FixRange(cursor.block, SafeHead(Height))
    /\ UNCHANGED <<chainVars, store, minted, late, history, faults>>

\* The hash of the last processed block: another one moves the start back.
CheckHash ==
    /\ pc = "check"
    /\ FixRange(IF HashOf(from) = cursor.hash THEN from ELSE Rewind(from), safe)
    /\ UNCHANGED <<chainVars, store, minted, late, history, faults>>

ReadDeposits ==
    /\ pc = "deposits"
    /\ logs' = LogsIn("deposit", from + 1, to)
    /\ pc' = "credit"
    /\ UNCHANGED <<chainVars, store, minted, safe, from, to, late, history, faults>>

\* The deposit the tick is at: the oldest log's.
IsCurrent(d) == \E l \in logs : l.tx.deposit = d /\ \A k \in logs : l.height <= k.height

\* What the namespace and the intent's row say of a deposit; "mint" when
\* the ledger has to be asked.
VerdictOn(d) ==
    IF d.token # Token THEN "wrong_token"
    ELSE IF d.receipt \notin Receipts THEN "bad_receipt"
    ELSE IF intents[d.receipt] = "absent" THEN "unregistered"
    ELSE IF AmountOf[d.receipt] # d.amount THEN "wrong_amount"
    ELSE IF intents[d.receipt] = "minted" THEN "credited"
    ELSE "mint"

NextLog ==
    /\ logs' = {l \in logs : \E k \in logs : k.height < l.height}
    /\ pc' = "credit"
    /\ UNCHANGED <<safe, from, to>>

Record(d, status) ==
    /\ observed' = [observed EXCEPT ![d] = status]
    /\ NextLog

\* A deposit nothing is minted for.
Dismiss(d) ==
    /\ pc = "credit" /\ IsCurrent(d)
    /\ VerdictOn(d) # "mint"
    /\ Record(d, VerdictOn(d))
    /\ UNCHANGED <<chainVars, intents, cursor, minted, late, history, faults>>

CreditIntent(d) ==
    /\ pc = "credit" /\ IsCurrent(d)
    /\ VerdictOn(d) = "mint"
    /\ pc' = "mint"
    /\ UNCHANGED <<chainVars, store, minted, scan, late, history, faults>>

Mints == {minted[i] : i \in DOMAIN minted}

\* Variant: the ledger does not look the deposit up.
NeverMinted(d) == d \notin Deposits

\* The ledger's guard: it has a row for this deposit.
IsMinted(d) == \E m \in Mints : m.deposit = d

MintOf(d) == [deposit |-> d, receipt |-> d.receipt, amount |-> AmountOf[d.receipt]]

MintApplied(d) ==
    /\ pc = "mint" /\ IsCurrent(d)
    /\ ~IsMinted(d)
    /\ minted' = Append(minted, MintOf(d))
    /\ pc' = "minted"
    /\ UNCHANGED <<chainVars, store, scan, late, history, faults>>

\* "deposit already credited": recorded as credited; the intent stays as it is.
MintReplayed(d) ==
    /\ pc = "mint" /\ IsCurrent(d)
    /\ IsMinted(d)
    /\ Record(d, "credited")
    /\ UNCHANGED <<chainVars, intents, cursor, minted, late, history, faults>>

\* Any other answer: the loop goes on to the next log.  The consensus may
\* still apply a mint whose caller ran into its deadline.
MintFails(d) ==
    /\ pc = "mint" /\ IsCurrent(d)
    /\ faults < MaxFaults
    /\ faults' = faults + 1
    /\ failed' = failed \cup {d}
    /\ late' \in {late, late \cup {d}}
    /\ NextLog
    /\ UNCHANGED <<chainVars, store, minted, deep>>

LateMint ==
    /\ \E d \in late :
        /\ late' = late \ {d}
        /\ minted' = IF IsMinted(d) THEN minted ELSE Append(minted, MintOf(d))
    /\ UNCHANGED <<chainVars, store, pc, scan, history, faults>>

MarkMinted(d) ==
    /\ pc = "minted" /\ IsCurrent(d)
    /\ intents' = [intents EXCEPT ![d.receipt] = "minted"]
    /\ pc' = "marked"
    /\ UNCHANGED <<chainVars, observed, cursor, minted, scan, late, history, faults>>

RecordCredited(d) ==
    /\ pc = "marked" /\ IsCurrent(d)
    /\ Record(d, "credited")
    /\ UNCHANGED <<chainVars, intents, cursor, minted, late, history, faults>>

ReadWithdrawals ==
    /\ pc = "credit" /\ logs = {}
    /\ pc' = "save"
    /\ UNCHANGED <<chainVars, store, minted, scan, late, history, faults>>

\* Variant: the cursor stays where the tick began.
SaveStart == from

SaveBlock == to

\* The hash of the last block of the range is read, and the cursor saved.
SaveCursor ==
    /\ pc = "save"
    /\ cursor' = [block |-> SaveBlock, hash |-> HashOf(to)]
    /\ EndTick
    /\ UNCHANGED <<chainVars, intents, observed, minted, late, history, faults>>

\* A failed RPC call or a crash: the next tick starts from the store.
TickDies ==
    /\ pc # "idle"
    /\ faults < MaxFaults
    /\ faults' = faults + 1
    /\ EndTick
    /\ UNCHANGED <<chainVars, store, minted, late, history>>

Handle(d) ==
    \/ Dismiss(d) \/ CreditIntent(d) \/ MintApplied(d) \/ MintReplayed(d)
    \/ MarkMinted(d) \/ RecordCredited(d)

Tick ==
    \/ ReadHead \/ CheckHash \/ ReadDeposits
    \/ \E d \in Deposits : Handle(d)
    \/ ReadWithdrawals \/ SaveCursor

Next ==
    \/ Chain
    \/ Reorg
    \/ \E r \in Receipts : register_intent(r)
    \/ Tick
    \/ \E d \in Deposits : MintFails(d)
    \/ LateMint
    \/ TickDies

Spec == Init /\ [][Next]_vars

\* The node ticks for as long as it runs; blocks go on being mined.
FairSpec == Spec /\ WF_vars(Tick) /\ WF_vars(Chain)

-----------------------------------------------------------------------------
(* Properties *)

\* Every mint answers a deposit of the namespace's token with the amount its
\* proof bound, and unless a block with the configured confirmations was
\* replaced the deposit is on the chain; no deposit is minted twice, though a
\* tick that dies after the mint, and a caller that gave up on one, ask the
\* ledger again.
MintsAreBacked ==
    /\ \A m \in Mints :
        /\ m.deposit.token = Token
        /\ m.amount = m.deposit.amount /\ m.receipt = m.deposit.receipt
        /\ deep \/ \E h \in Has("deposit") : chain[h].tx.deposit = m.deposit
    /\ \A i, j \in DOMAIN minted : minted[i].deposit = minted[j].deposit => i = j

\* A cursor whose hash is the chain's has every deposit from the start
\* block up to it observed, or logged as failed: ranges leave no gap,
\* neither after a tick that died nor after a reorganisation twice as deep
\* as the confirmations.
ObservedBelowCursor ==
    cursor.hash = HashOf(cursor.block) =>
        \A h \in Has("deposit") :
            h \in StartBlock .. cursor.block =>
                observed[chain[h].tx.deposit] # "unseen" \/ chain[h].tx.deposit \in failed

\* A deposit reported as credited, and an intent reported as minted, has a
\* mint of its receipt on the ledger.
CreditedHasMint ==
    /\ \A d \in Deposits : observed[d] = "credited" => \E m \in Mints : m.receipt = d.receipt
    /\ \A r \in Receipts : intents[r] = "minted" => \E m \in Mints : m.receipt = r

\* Both: what the watcher's tables say of the chain and of the ledger is so,
\* after ticks that die and reorganisations (tick, credit).
BooksAreTrue == ObservedBelowCursor /\ CreditedHasMint

\* d is on the chain, deep enough, and its tick has not begun.
Due(d) ==
    /\ \E h \in Has("deposit") :
        chain[h].tx.deposit = d /\ h > cursor.block /\ h >= StartBlock /\ BuriedBy(h, Confirmations)
    /\ pc = "idle"

Creditable(d) ==
    d.token = Token /\ d.receipt \in Receipts
        /\ intents[d.receipt] # "absent" /\ AmountOf[d.receipt] = d.amount

\* A confirmed deposit whose intent was registered before its block was
\* scanned has its receipt minted, or its credit failed, however ticks die.
RegisteredDepositIsCredited ==
    \A d \in Deposits :
        (Due(d) /\ Creditable(d)) ~>
            (d \in failed \/ deep \/ \E m \in Mints : m.receipt = d.receipt)

=============================================================================

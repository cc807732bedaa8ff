---------------------------- MODULE LinksConsensus ----------------------------
(***************************************************************************)
(* The validators of the links ledger                                      *)
(* (crates/peal-links-consensus).  The simplex engine decides which        *)
(* proposals are notarized and finalized and is taken as given: what it    *)
(* promises is Finalizable below.  Everything the crate itself does is     *)
(* here: building and judging proposals, fetching missing blocks,          *)
(* following finalizations across gaps, applying blocks transaction by     *)
(* transaction, answering submitters, and restarting from what is stored.  *)
(*                                                                         *)
(* A transaction moves one account from one commitment to the next and is  *)
(* accepted by the ledger only on the first of the two, which is all the   *)
(* ledger of BonsaiLedger needs to keep here: a mint is the one move of    *)
(* its deposit.  Blocks are numbered by the view that proposed them.       *)
(***************************************************************************)
EXTENDS Naturals, Sequences, FiniteSets, SequencesExt

CONSTANTS Node,        \* the validators
          Quorum,      \* votes that notarize a proposal
          Txs,         \* [account, from, to]: the transactions clients hold
          Deposits,    \* the accounts that stand for gateway deposits
          MaxBlocks,   \* bound: proposals in a behaviour
          MaxBlockTxs, \* actor.rs Config.max_block_txs
          CacheBehind, \* actor.rs BLOCK_CACHE_BEHIND
          MaxFaults,   \* bound: crashes, failed writes and failed commits
          MaxSubmits,  \* bound: submissions in a behaviour
          None

ASSUME QuorumAssumption == /\ IsFiniteSet(Node)
                           /\ Quorum \in 1 .. Cardinality(Node)
                           /\ 2 * Quorum > Cardinality(Node)
ASSUME TxsAssumption == /\ \A t \in Txs : t.from # t.to
                        /\ \A t \in Txs : t.account \in Deposits => t.from = 0
ASSUME BlockTxsAssumption == MaxBlockTxs \in Nat
ASSUME NoneAssumption ==
  /\ None \notin {"ok", "failed"}
  /\ None \notin [block : Nat, next : Nat, oks : Seq(BOOLEAN), result : {None, "ok", "failed"}]

VARIABLES
  blocks,     \* the proposals, by view: [parent, height, txs]
  votes,      \* who voted for the last of them
  notarized,  \* views whose proposal a quorum voted for
  finals,     \* views the engine finalized by name, not through a descendant
  confirmed,  \* <<n, t>>: n's view of the chain confirms the deposit of t
  ledger,     \* per node: the transactions its ledger accepted, in order
  stored,     \* per node: the head in its block store
  head,       \* per node: the actor's copy of the head
  cache,      \* per node: blocks held in memory
  asked,      \* per node: block requests under way
  known,      \* per node: finalized_known
  unknown,    \* per node: finalized_unknown
  applying,   \* per node: the block being applied, or None
  mempool,    \* per node: transactions waiting to be proposed, in order
  waiting,    \* per node: transactions with a submitter waiting
  promised,   \* history: answers of success [node, tx, intact: was node Intact]
  torn,       \* history, per node: blocks an interruption left applied in part
  skipped,    \* history, per node: blocks of which a ledger write failed
  faults,
  submits

engine == <<blocks, votes, notarized, finals>>
durable == <<ledger, stored>>
memory == <<head, cache, asked, known, unknown, applying, mempool, waiting>>
vars == <<blocks, votes, notarized, finals, confirmed, ledger, stored, head, cache,
          asked, known, unknown, applying, mempool, waiting, promised, torn, skipped, faults, submits>>

----------------------------------------------------------------------------
(* The chain of blocks; 0 is the genesis.                                  *)

Views == 0 .. Len(blocks)
HeightOf(b) == IF b = 0 THEN 0 ELSE blocks[b].height

Chain(b) ==
  LET chain[v \in Views] == IF v = 0 THEN {0} ELSE {v} \union chain[blocks[v].parent]
  IN chain[b]

(* What the ledger does with one transaction: an operation names the       *)
(* commitment it spends, a registration or a mint must be the first.       *)
CommitmentIn(l, a) ==
  LET own == {i \in DOMAIN l : l[i].account = a}
  IN IF own = {} THEN 0 ELSE l[Max(own)].to
Accepts(l, t) == CommitmentIn(l, t.account) = t.from
ApplyTx(l, t) == IF Accepts(l, t) THEN Append(l, t) ELSE l

(* The ledger that the blocks up to b make of an empty one.                *)
Replay(b) ==
  LET replay[v \in Views] ==
        IF v = 0 THEN <<>> ELSE FoldLeft(ApplyTx, replay[blocks[v].parent], blocks[v].txs)
  IN replay[b]

Tip == CHOOSE b \in finals : \A c \in finals : c <= b

Init ==
  /\ blocks = <<>> /\ votes = {} /\ notarized = {0} /\ finals = {0}
  /\ confirmed = {}
  /\ ledger = [n \in Node |-> <<>>]
  /\ stored = [n \in Node |-> 0]
  /\ head = [n \in Node |-> 0]
  /\ cache = [n \in Node |-> {}]
  /\ asked = [n \in Node |-> {}]
  /\ known = [n \in Node |-> {}]
  /\ unknown = [n \in Node |-> {}]
  /\ applying = [n \in Node |-> None]
  /\ mempool = [n \in Node |-> <<>>]
  /\ waiting = [n \in Node |-> {}]
  /\ promised = {} /\ torn = [n \in Node |-> {}] /\ skipped = [n \in Node |-> {}]
  /\ faults = 0 /\ submits = 0

----------------------------------------------------------------------------
(* Following finalizations.                                                *)

(* The lowest finalized block a node knows of and its ancestors above the  *)
(* head, as far down as the node holds the bytes that name the parents.    *)
Walk(c, h, k) ==
  {a \in Chain(k) : /\ HeightOf(a) > HeightOf(h)
                    /\ \A d \in Chain(k) : HeightOf(d) > HeightOf(a) => d \in c}

Lowest(s) == {b \in s : \A d \in s : HeightOf(b) <= HeightOf(d)}

(* Variant: the parents of a block beyond a gap are not looked up.         *)
MarkedByName(c, h, k) == {b \in k : HeightOf(b) > HeightOf(h)}

Marked(c, h, k) ==
  LET ahead == {b \in k : HeightOf(b) > HeightOf(h)}
  IN ahead \union UNION {Walk(c, h, b) : b \in Lowest(ahead)}

(* drain_finalized: heights at or below the head are forgotten, the walk   *)
(* marks the ancestors of the lowest block, and then the lowest is either  *)
(* requested or, when it extends the head and nothing is being applied,    *)
(* handed to apply_block.                                                  *)
drain_finalized(n, h, c, k, busy, wire) ==
  \E marked \in {Marked(c, h, k)} : \E low \in {Lowest(marked)} :
    LET astray == {b \in low \cap c : blocks[b].parent # h}
        start  == {[block |-> b, next |-> 1, oks |-> <<>>, result |-> None]
                     : b \in (low \cap c) \ astray}
    IN /\ known' = [known EXCEPT ![n] = marked \ astray]
       /\ asked' = [asked EXCEPT ![n] = wire \union (low \ c)]
       /\ IF busy # None \/ start = {} THEN applying' = [applying EXCEPT ![n] = busy]
          ELSE \E a \in start : applying' = [applying EXCEPT ![n] = a]

(* on_finalized: a block whose bytes are here is known, another is asked   *)
(* for.  A finalization is reported when the engine sees its certificate,  *)
(* in any order and again after a restart; reporting the tip again stands  *)
(* for the finalization of the empty blocks that follow it, which the      *)
(* bound on proposals leaves out.                                          *)
on_finalized(n, b) ==
  /\ b \in finals \ {0}
  /\ unknown' = [unknown EXCEPT ![n] = IF b \in cache[n] THEN @ ELSE @ \union {b}]
  /\ drain_finalized(n, head[n], cache[n],
                     IF b \in cache[n] THEN known[n] \union {b} ELSE known[n],
                     applying[n],
                     IF b \in cache[n] \union unknown[n] THEN asked[n] ELSE asked[n] \union {b})
  /\ UNCHANGED <<engine, durable, confirmed, head, cache, mempool, waiting, promised, torn, skipped, faults, submits>>

(* A peer promised a request from its cache or its block store, and         *)
(* on_block_available files the block under the finalized ones if it was   *)
(* waited for.                                                             *)
Holds(m, b) == b \in cache[m] \/ b \in Chain(stored[m]) \ {0}

on_block(n, m, b) ==
  /\ m # n /\ b \in asked[n] /\ Holds(m, b)
  /\ cache' = [cache EXCEPT ![n] = @ \union {b}]
  /\ unknown' = [unknown EXCEPT ![n] = @ \ {b}]
  /\ drain_finalized(n, head[n], cache[n] \union {b},
                     IF b \in unknown[n] THEN known[n] \union {b} ELSE known[n],
                     applying[n], asked[n] \ {b})
  /\ UNCHANGED <<engine, durable, confirmed, head, mempool, waiting, promised, torn, skipped, faults, submits>>

(* A request, or the answer to it, is lost.                                *)
LoseRequest(n, b) ==
  /\ b \in asked[n]
  /\ asked' = [asked EXCEPT ![n] = @ \ {b}]
  /\ UNCHANGED <<engine, durable, confirmed, head, cache, known, unknown, applying,
                 mempool, waiting, promised, torn, skipped, faults, submits>>

(* on_tick, its last part: blocks finalized by name are asked for again.   *)
on_tick_request(n) ==
  /\ ~(unknown[n] \subseteq asked[n])
  /\ asked' = [asked EXCEPT ![n] = @ \union (unknown[n] \ cache[n])]
  /\ UNCHANGED <<engine, durable, confirmed, head, cache, known, unknown, applying,
                 mempool, waiting, promised, torn, skipped, faults, submits>>

----------------------------------------------------------------------------
(* Applying a block: every transaction is a commit of the ledger's own,    *)
(* the block and the new head are one commit of the block store after      *)
(* them, and the actor learns of both by a message.                        *)

Extends(b, h) == blocks[b].parent = h /\ HeightOf(b) = HeightOf(h) + 1

apply_block_tx(n) ==
  /\ applying[n] # None /\ applying[n].result = None /\ Extends(applying[n].block, stored[n])
  /\ applying[n].next <= Len(blocks[applying[n].block].txs)
  /\ LET t == blocks[applying[n].block].txs[applying[n].next]
     IN /\ ledger' = [ledger EXCEPT ![n] = ApplyTx(@, t)]
        /\ applying' = [applying EXCEPT ![n].next = @ + 1,
                                        ![n].oks = Append(@, Accepts(ledger[n], t))]
  /\ UNCHANGED <<engine, stored, confirmed, head, cache, asked, known, unknown, mempool,
                 waiting, promised, torn, skipped, faults, submits>>

(* The write of a transaction that the ledger accepts fails: its result is *)
(* one more error, and the block goes on without it.                       *)
apply_block_tx_fails(n) ==
  /\ applying[n] # None /\ applying[n].result = None /\ Extends(applying[n].block, stored[n])
  /\ applying[n].next <= Len(blocks[applying[n].block].txs)
  /\ Accepts(ledger[n], blocks[applying[n].block].txs[applying[n].next])
  /\ faults < MaxFaults
  /\ faults' = faults + 1
  /\ applying' = [applying EXCEPT ![n].next = @ + 1, ![n].oks = Append(@, FALSE)]
  /\ skipped' = [skipped EXCEPT ![n] = @ \union {applying[n].block}]
  /\ UNCHANGED <<engine, durable, confirmed, head, cache, asked, known, unknown, mempool,
                 waiting, promised, torn, submits>>

(* Variant: the new head is stored before the last transaction.            *)
AllTriedButOne(n) == /\ applying[n] # None /\ applying[n].result = None
                     /\ applying[n].next > Len(blocks[applying[n].block].txs) - 1

AllTried(n) == /\ applying[n] # None /\ applying[n].result = None
               /\ applying[n].next > Len(blocks[applying[n].block].txs)

apply_block_commit(n) ==
  /\ AllTried(n) /\ Extends(applying[n].block, stored[n])
  /\ stored' = [stored EXCEPT ![n] = applying[n].block]
  /\ applying' = [applying EXCEPT ![n].result = "ok"]
  /\ UNCHANGED <<engine, ledger, confirmed, head, cache, asked, known, unknown, mempool,
                 waiting, promised, torn, skipped, faults, submits>>

(* The block that stopping now leaves in the ledger but not in the store.  *)
Interrupted(n) ==
  {b \in Views : /\ applying[n] # None /\ applying[n].block = b
                 /\ applying[n].result # "ok" /\ TRUE \in Range(applying[n].oks)}

(* The block store refuses the commit: what the ledger took stays taken.   *)
apply_block_fails(n) ==
  /\ AllTried(n) /\ faults < MaxFaults
  /\ faults' = faults + 1
  /\ applying' = [applying EXCEPT ![n].result = "failed"]
  /\ torn' = [torn EXCEPT ![n] = @ \union Interrupted(n)]
  /\ UNCHANGED <<engine, durable, confirmed, head, cache, asked, known, unknown, mempool,
                 waiting, promised, skipped, submits>>

TxsOf(b) == Range(blocks[b].txs)

(* Two transactions of one account: only then does it matter that a block  *)
(* is applied again from its first transaction on.                         *)
Mixed(b) ==
  \E i, j \in DOMAIN blocks[b].txs :
    i # j /\ blocks[b].txs[i].account = blocks[b].txs[j].account

(* No write of the node's ledger failed, and no block that mixes two       *)
(* transactions of an account was interrupted on it.                       *)
Intact(n) == skipped[n] = {} /\ \A b \in torn[n] : ~Mixed(b)

(* The mempool without some transactions, in the same order.               *)
Keep(gone, pool, t) == IF t \in gone THEN pool ELSE Append(pool, t)
Without(pool, gone) == FoldLeft(LAMBDA kept, t : Keep(gone, kept, t), <<>>, pool)

(* prune_blocks.                                                           *)
Pruned(c, h) == {b \in c : HeightOf(b) + CacheBehind >= HeightOf(h)}

(* Variant: a submitter is told of success once the block is applied.      *)
TakenAnyway(n) == TxsOf(applying[n].block)

(* The transactions of the applied block that the ledger took.             *)
Taken(n) == LET b == applying[n].block
            IN {blocks[b].txs[i] : i \in {j \in DOMAIN blocks[b].txs : applying[n].oks[j]}}

Answer(n, t) == [node |-> n, tx |-> t, intact |-> Intact(n)]

(* on_applied: the actor takes the new head, forgets the block's           *)
(* transactions and gives each waiting submitter the ledger's result; a    *)
(* failure is logged and the block is no longer known.                     *)
on_applied(n) ==
  /\ applying[n] # None /\ applying[n].result # None
  /\ LET b == applying[n].block
         left == {k \in known[n] : HeightOf(k) # HeightOf(b)}
     IN IF applying[n].result = "ok"
        THEN /\ head' = [head EXCEPT ![n] = stored[n]]
             /\ mempool' = [mempool EXCEPT ![n] = Without(@, TxsOf(b))]
             /\ promised' = promised \union {Answer(n, t) : t \in Taken(n) \cap waiting[n]}
             /\ waiting' = [waiting EXCEPT ![n] = @ \ TxsOf(b)]
             /\ cache' = [cache EXCEPT ![n] = Pruned(@, stored[n])]
             /\ drain_finalized(n, stored[n], Pruned(cache[n], stored[n]), left, None, asked[n])
        ELSE /\ drain_finalized(n, head[n], cache[n], left, None, asked[n])
             /\ UNCHANGED <<head, mempool, promised, waiting, cache>>
  /\ UNCHANGED <<engine, durable, confirmed, unknown, torn, skipped, faults, submits>>

(* The validator's process stops and starts again: State::open reads the   *)
(* head back, the ledgers are on disk, everything else is gone.            *)
Restart(n) ==
  /\ faults < MaxFaults
  /\ faults' = faults + 1
  /\ torn' = [torn EXCEPT ![n] = @ \union Interrupted(n)]
  /\ head' = [head EXCEPT ![n] = stored[n]]
  /\ cache' = [cache EXCEPT ![n] = {}]
  /\ asked' = [asked EXCEPT ![n] = {}]
  /\ known' = [known EXCEPT ![n] = {}]
  /\ unknown' = [unknown EXCEPT ![n] = {}]
  /\ applying' = [applying EXCEPT ![n] = None]
  /\ mempool' = [mempool EXCEPT ![n] = <<>>]
  /\ waiting' = [waiting EXCEPT ![n] = {}]
  /\ UNCHANGED <<engine, durable, confirmed, promised, skipped, submits>>

----------------------------------------------------------------------------
(* Transactions on their way into a block.                                 *)

IsMint(t) == t.account \in Deposits
Confirms(n, t) == IsMint(t) => <<n, t>> \in confirmed

(* The deposit behind a mint reaches the depth one validator asks for.     *)
ConfirmDeposit(n, t) ==
  /\ IsMint(t) /\ confirmed' = confirmed \union {<<n, t>>}
  /\ UNCHANGED <<engine, durable, memory, promised, torn, skipped, faults, submits>>

Pooled(pool, t) == IF t \in Range(pool) THEN pool ELSE Append(pool, t)

(* admit and on_admitted: the checks need no ledger state, so a            *)
(* transaction already applied is admitted again.  What is new to the      *)
(* mempool is gossiped and every peer makes its own checks; a peer that    *)
(* misses it is one that let it expire at once.                            *)
on_submit(n, t) ==
  /\ submits < MaxSubmits /\ submits' = submits + 1
  /\ Confirms(n, t)
  /\ waiting' = [waiting EXCEPT ![n] = @ \union {t}]
  /\ mempool' = [m \in Node |-> IF m = n \/ (t \notin Range(mempool[n]) /\ Confirms(m, t))
                                THEN Pooled(mempool[m], t) ELSE mempool[m]]
  /\ UNCHANGED <<engine, durable, confirmed, head, cache, asked, known, unknown, applying,
                 promised, torn, skipped, faults>>

(* on_tick, its first part: a transaction outlives the mempool's patience, *)
(* or only its submitter's; the answer says that nothing is known.         *)
on_tick_expire(n, t) ==
  /\ \/ t \in Range(mempool[n]) /\ mempool' = [mempool EXCEPT ![n] = Without(@, {t})]
     \/ t \in waiting[n] /\ UNCHANGED mempool
  /\ waiting' = [waiting EXCEPT ![n] = @ \ {t}]
  /\ UNCHANGED <<engine, durable, confirmed, head, cache, asked, known, unknown, applying,
                 promised, torn, skipped, faults, submits>>

----------------------------------------------------------------------------
(* Proposals and votes.                                                    *)

HeightKnown(n, b) == b \in {0, head[n]} \/ Holds(n, b)

(* Transactions of ancestors not applied yet are left out, as far down as  *)
(* the proposer holds them.                                                *)
Excluded(n, p) ==
  UNION {TxsOf(b) : b \in {a \in Chain(p) \ Chain(head[n]) :
                             \A d \in Chain(p) : d >= a => d \in cache[n]}}

NewTxs(n, p) ==
  LET rest == Without(mempool[n], Excluded(n, p))
  IN SubSeq(rest, 1, IF Len(rest) < MaxBlockTxs THEN Len(rest) ELSE MaxBlockTxs)

(* The engine asks the leader of the next view for a block on a notarized  *)
(* parent that no finalization rules out; the block is broadcast, and the  *)
(* copies arrive at some peers.                                            *)
on_propose(n, p, got) ==
  /\ Len(blocks) < MaxBlocks
  /\ p \in notarized /\ Tip \in Chain(p) /\ HeightKnown(n, p)
  /\ blocks' = Append(blocks, [parent |-> p, height |-> HeightOf(p) + 1, txs |-> NewTxs(n, p)])
  /\ votes' = {n}
  /\ cache' = [m \in Node |-> IF m \in got \union {n} THEN cache[m] \union {Len(blocks) + 1}
                                                    ELSE cache[m]]
  /\ UNCHANGED <<notarized, finals, confirmed, durable, head, asked, known, unknown, applying,
                 mempool, waiting, promised, torn, skipped, faults, submits>>

(* What keeps a node from judging the current proposal: the bytes of the   *)
(* block, then the height of its parent.  on_verify asks every peer for    *)
(* what is missing and goes on when it comes; when it does not, the node   *)
(* does not vote.                                                          *)
Missing(n) ==
  IF Len(blocks) \notin cache[n] THEN {Len(blocks)}
  ELSE {b \in {blocks[Len(blocks)].parent} : ~HeightKnown(n, b)}

on_verify_fetch(n, m) ==
  /\ Len(blocks) > 0 /\ n \notin votes
  /\ \E b \in Missing(n) : /\ Holds(m, b) /\ b \notin unknown[n]
                          /\ cache' = [cache EXCEPT ![n] = @ \union {b}]
                          /\ drain_finalized(n, head[n], cache[n] \union {b}, known[n],
                                             applying[n], asked[n])
  /\ UNCHANGED <<engine, durable, confirmed, head, unknown, mempool, waiting, promised, torn, skipped, faults, submits>>

(* Variant: a validator takes the proposer's word for a deposit.           *)
on_verify_trusting(n) ==
  /\ Len(blocks) > 0 /\ n \notin votes /\ Missing(n) = {}
  /\ votes' = votes \union {n}
  /\ notarized' = IF Cardinality(votes \union {n}) >= Quorum
                  THEN notarized \union {Len(blocks)} ELSE notarized
  /\ UNCHANGED <<blocks, finals, confirmed, durable, memory, promised, torn, skipped, faults, submits>>

(* A vote for the proposal: every mint in it must be confirmed on this     *)
(* validator's own view of the chain.  Votes for a view end with it.       *)
on_verify(n) ==
  /\ Len(blocks) > 0 /\ n \notin votes /\ Missing(n) = {}
  /\ \A t \in TxsOf(Len(blocks)) : Confirms(n, t)
  /\ votes' = votes \union {n}
  /\ notarized' = IF Cardinality(votes \union {n}) >= Quorum
                  THEN notarized \union {Len(blocks)} ELSE notarized
  /\ UNCHANGED <<blocks, finals, confirmed, durable, memory, promised, torn, skipped, faults, submits>>

(* A vote against: the unconfirmed mint is dropped from the mempool.       *)
on_verify_refuse(n) ==
  /\ Len(blocks) > 0 /\ n \notin votes /\ Missing(n) = {}
  /\ \E t \in TxsOf(Len(blocks)) :
       /\ ~Confirms(n, t)
       /\ mempool' = [mempool EXCEPT ![n] = Without(@, {t})]
  /\ UNCHANGED <<engine, durable, confirmed, head, cache, asked, known, unknown, applying,
                 waiting, promised, torn, skipped, faults, submits>>

(* The engine: a notarized proposal becomes final unless a later view was  *)
(* entered around it.                                                      *)
Finalizable(b) ==
  /\ b \in notarized \ finals /\ b > Tip /\ Tip \in Chain(b)
  /\ \A c \in b + 1 .. Len(blocks) : b \in Chain(c)

Finalize(b) ==
  /\ Finalizable(b)
  /\ finals' = finals \union {b}
  /\ UNCHANGED <<blocks, votes, notarized, confirmed, durable, memory, promised, torn, skipped, faults, submits>>

----------------------------------------------------------------------------
Apply(n) == apply_block_tx(n) \/ apply_block_commit(n) \/ on_applied(n)

Next ==
  \/ \E n \in Node, b \in Views : on_finalized(n, b) \/ LoseRequest(n, b)
  \/ \E n, m \in Node : on_verify_fetch(n, m) \/ \E b \in Views : on_block(n, m, b)
  \/ \E n \in Node : \/ on_tick_request(n) \/ Apply(n) \/ apply_block_tx_fails(n) \/ apply_block_fails(n) \/ Restart(n)
                     \/ on_verify(n) \/ on_verify_refuse(n)
  \/ \E n \in Node, t \in Txs : ConfirmDeposit(n, t) \/ on_submit(n, t) \/ on_tick_expire(n, t)
  \/ \E n \in Node, p \in Views : \E got \in SUBSET (Node \ {n}) : on_propose(n, p, got)
  \/ \E b \in Views : Finalize(b)

(* The actor's tick and its mailbox run for ever; the engine reports what  *)
(* it finalizes for as long as views go on; a request repeated for ever is *)
(* answered in the end by a peer that holds the block.                     *)
Fairness ==
  \A n \in Node :
    /\ WF_vars(on_tick_request(n)) /\ WF_vars(Apply(n))
    /\ WF_vars(stored[n] # Tip /\ on_finalized(n, Tip))
    /\ SF_vars(\E m \in Node, b \in Views : on_block(n, m, b))

SafeSpec == Init /\ [][Next]_vars
Spec == SafeSpec /\ Fairness

----------------------------------------------------------------------------
(* The transactions of the finalized blocks.                               *)
FinalTxs == UNION {TxsOf(b) : b \in Chain(Tip) \ {0}}

(* The interrupted blocks have been applied again, and their head stored.  *)
Redone(n) == \A b \in torn[n] : HeightOf(b) <= HeightOf(stored[n])

(* The head a validator stored is finalized and its ledger holds nothing   *)
(* that is not, through every gap, lost request, restart, failed write and *)
(* order of reports; and between two blocks its ledger is what the blocks  *)
(* up to the head make of an empty one (actor.rs drain_finalized, state.rs *)
(* apply_block), also where a block was interrupted and applied again from *)
(* its start, as long as no account had two transactions in it and no      *)
(* write of the ledger failed.                                             *)
AppliedIsFinalized ==
  \A n \in Node :
    /\ stored[n] \in Chain(Tip)
    /\ Range(ledger[n]) \subseteq FinalTxs
    /\ Intact(n) /\ Redone(n) /\ (applying[n] = None \/ applying[n].result = "ok")
         => ledger[n] = Replay(stored[n])

(* A submitter told that its operation was applied: the operation is in a  *)
(* finalized block and in the ledger of the validator that answered,       *)
(* whatever happened to it, and if that was intact also in the ledger that *)
(* the finalized blocks make, so on every intact validator in the end      *)
(* (ledger_actor.rs submit, actor.rs on_applied).  A rejection is not      *)
(* definitive, since an operation may be included twice.                   *)
AnsweredIsFinal ==
  \A p \in promised :
    /\ p.tx \in FinalTxs /\ p.tx \in Range(ledger[p.node])
    /\ p.intact => p.tx \in Range(Replay(Tip))

(* A finalized block mints only deposits that a quorum of validators saw   *)
(* confirmed, each on its own view of the chain (actor.rs on_verify and    *)
(* admit).                                                                 *)
MintsWitnessed ==
  \A b \in Chain(Tip) \ {0} : \A t \in TxsOf(b) :
    IsMint(t) => Cardinality({n \in Node : <<n, t>> \in confirmed}) >= Quorum

(* Every finalized block is applied on every validator, whatever was lost  *)
(* on the way, as long as fewer validators than a quorum lose their        *)
(* memory: a notarized block is held in memory only until it is applied.   *)
FinalizedIsApplied == <>[](\A n \in Node : stored[n] = Tip)

=============================================================================

--------------------------- MODULE AuctionSettler ---------------------------
(***************************************************************************)
(* The settler that carries an auction from the close to its settlement    *)
(* (packages/sealbid-settler/src/main.ts, planReveal of auctionkit), with  *)
(* the contract of SealedBidAuction, whose reveal root only it registers.  *)
(*                                                                         *)
(* A pass of its loop reads the chain several times and writes to it; each *)
(* read, and each write with the wait for its receipt, is a step of its    *)
(* own.  A write is a transaction in `pool` until a block takes it, which  *)
(* may be long after the settler stopped waiting.  Others call what anyone *)
(* may call.  Claims are in SealedBidAuction and left out here.            *)
(***************************************************************************)
EXTENDS SealedBidAuction, FiniteSets

CONSTANTS
    Chunk,      \* CHUNK: reveals per transaction
    MaxFaults   \* bound: interruptions and lost transactions

VARIABLES
    sealed,     \* per bid: its ciphertext is in the batch and opens to the bid
    opened,     \* the coordinator has published the condition's reveal
    settler,    \* the pass: [at, now, leaves, todo, call]
    pool,       \* transactions sent and in no block yet
    faults

settling == <<sealed, opened, settler, pool, faults>>
allVars  == <<vars, settling>>

(* The entry of a bid that did not open to what was committed: its zero salt *)
(* matches no commitment, so the contract voids the bid.                     *)
Placeholder == [quantity |-> 0, tick |-> 0]

ASSUME SettlerAssumption ==
    /\ Chunk \in Nat \ {0}
    /\ Placeholder \notin Plaintexts \cup {Junk}
    /\ 0 \in Ticks

NoCall == [fn |-> "none", leaves |-> None, chunk |-> {}]
Call(fn) == [NoCall EXCEPT !.fn = fn]
Idle == [at |-> "idle", now |-> 0, leaves |-> None, todo |-> {}, call |-> NoCall]

SettlerInit ==
    /\ Init
    /\ sealed = <<>>
    /\ opened = FALSE
    /\ settler = Idle
    /\ pool = {}
    /\ faults = 0

-----------------------------------------------------------------------------
(* Bidders and the coordinator                                               *)

(* The bid's ciphertext is whatever its bidder sealed, or lost on the way.   *)
BidSealed(bidder, commitment, escrow, opens) ==
    /\ commitBid(bidder, commitment, escrow)
    /\ opens => commitment # Junk
    /\ sealed' = Append(sealed, opens)
    /\ UNCHANGED <<opened, settler, pool, faults>>

(* The condition fires at the end of the bidding or later, or never.         *)
Reveal ==
    /\ ~ opened /\ now >= EndTime
    /\ opened' = TRUE
    /\ UNCHANGED <<vars, sealed, settler, pool, faults>>

-----------------------------------------------------------------------------
(* The settler                                                               *)

(* A pass starts with the block's timestamp, which it keeps to its end.      *)
poll ==
    /\ settler.at = "idle"
    /\ settler' = [Idle EXCEPT !.at = "handle", !.now = now]
    /\ UNCHANGED <<vars, sealed, opened, pool, faults>>

send(c) ==
    /\ pool' = pool \union {c}
    /\ settler' = [settler EXCEPT !.at = "wait", !.call = c]

goto(step) == settler' = [settler EXCEPT !.at = step] /\ UNCHANGED pool
rest == settler' = Idle /\ UNCHANGED pool

(* Variant: an auction no root was registered for is left alone.             *)
PastDeadlineRevealing(s) == s.now >= RevealDeadline /\ state = "Revealing"

PastDeadline(s) == s.now >= RevealDeadline

MayPlan == state \in {"CommitClosed", "Revealing"} /\ opened

(* handle: what the state asks for.                                          *)
handle ==
    /\ settler.at = "handle"
    /\ CASE state \in Final -> goto("done")
         [] state = "CommitOpen" /\ settler.now >= EndTime -> send(Call("closeCommit"))
         [] AwaitingReveals /\ PastDeadline(settler) -> send(Call("failOnRevealTimeout"))
         [] AwaitingReveals /\ ~ PastDeadline(settler) /\ MayPlan ->
              goto(IF state = "CommitClosed" THEN "register" ELSE "compare")
         [] OTHER -> rest
    /\ UNCHANGED <<vars, sealed, opened, faults>>

(* Variant: bids already revealed are not planned for again.                 *)
LeafUnlessRevealed(i) ==
    IF opened /\ sealed[i] /\ ~ bids[i].revealed THEN bids[i].commitment ELSE Placeholder

(* planReveal: one leaf per committed bid, always.                           *)
Leaf(i) == IF opened /\ sealed[i] THEN bids[i].commitment ELSE Placeholder

Plan == [i \in DOMAIN bids |-> Leaf(i)]

(* readBids, planReveal, signRoot and the write.                             *)
register ==
    /\ settler.at = "register"
    /\ LET c == [Call("registerRevealRoot") EXCEPT !.leaves = Plan]
       IN /\ pool' = pool \union {c}
          /\ settler' = [settler EXCEPT !.at = "wait", !.call = c, !.leaves = Plan]
    /\ UNCHANGED <<vars, sealed, opened, faults>>

(* A root that is registered already has to be the one planned again.        *)
compare ==
    /\ settler.at = "compare"
    /\ IF root = Plan
       THEN settler' = [settler EXCEPT !.at = "pending", !.leaves = Plan]
       ELSE settler' = Idle
    /\ UNCHANGED <<vars, sealed, opened, pool, faults>>

(* processPending reads the bids once and sends what is not revealed.        *)
processPending ==
    /\ settler.at = "pending"
    /\ settler' = [settler EXCEPT !.at = "chunks", !.todo = {i \in DOMAIN bids : ~ bids[i].revealed}]
    /\ UNCHANGED <<vars, sealed, opened, pool, faults>>

FirstOf(s) == {i \in s : Cardinality({j \in s : j < i}) < Chunk}

sendChunk ==
    /\ settler.at = "chunks"
    /\ IF settler.todo = {} THEN goto("finish")
       ELSE LET c == [Call("processReveals") EXCEPT !.leaves = settler.leaves, !.chunk = FirstOf(settler.todo)]
            IN /\ pool' = pool \union {c}
               /\ settler' = [settler EXCEPT !.at = "wait", !.call = c, !.todo = @ \ c.chunk]
    /\ UNCHANGED <<vars, sealed, opened, faults>>

(* Variant: the window is not waited for.                                    *)
WindowOverEver(s) == TRUE

(* The window against the time the pass started.                             *)
WindowOver(s) == (\E i \in DOMAIN bids : bids[i].voided) => s.now >= lastVoidAt + Window

finalizeIfReady ==
    /\ settler.at = "finish"
    /\ IF state = "Revealing" /\ AllAccountedFor /\ WindowOver(settler) THEN send(Call("finalize")) ELSE rest
    /\ UNCHANGED <<vars, sealed, opened, faults>>

-----------------------------------------------------------------------------
(* The chain                                                                 *)

(* processReveals over a chunk: all of its entries or none.                  *)
processReveals(leaves, chunk) ==
    LET fits(i) == Matches(bids[i], leaves[i], TRUE)
        added(t) == SumFunctionOnSet([i \in chunk |-> leaves[i].quantity],
                        {i \in chunk : /\ fits(i) /\ leaves[i].tick = t
                                       /\ Eligible(bids[i], leaves[i].quantity, t)})
    IN  /\ state = "Revealing"
        /\ \A i \in chunk : ~ bids[i].revealed /\ leaves[i] = root[i] /\ leaves[i].tick \in Ticks
        /\ bids' = [i \in DOMAIN bids |->
                      IF i \notin chunk THEN bids[i]
                      ELSE IF fits(i) THEN [bids[i] EXCEPT !.revealed = TRUE, !.quantity = leaves[i].quantity,
                                                           !.tick = leaves[i].tick]
                      ELSE [bids[i] EXCEPT !.revealed = TRUE, !.voided = TRUE]]
        /\ demand' = [t \in Ticks |-> demand[t] + added(t)]
        /\ lastVoidAt' = IF \A i \in chunk : fits(i) THEN lastVoidAt ELSE now
        /\ UNCHANGED <<state, now, root, sale, issuerClaims, held>>

Executed(c) ==
    \/ c.fn = "closeCommit" /\ closeCommit
    \/ c.fn = "registerRevealRoot" /\ registerRevealRoot(c.leaves)
    \/ c.fn = "processReveals" /\ processReveals(c.leaves, c.chunk)
    \/ c.fn = "finalize" /\ finalize
    \/ c.fn = "failOnRevealTimeout" /\ failOnRevealTimeout

AwaitedBy(c) == settler.at = "wait" /\ settler.call = c

(* What follows a write that succeeded.                                      *)
Continue(c) ==
    IF c.fn \in {"registerRevealRoot", "processReveals"}
    THEN [settler EXCEPT !.at = IF c.fn = "registerRevealRoot" THEN "pending" ELSE "chunks", !.call = NoCall]
    ELSE Idle

(* A block takes a transaction: it has its effect, or reverts and the pass   *)
(* that waits for it ends.                                                   *)
Mine(c) ==
    /\ c \in pool
    /\ pool' = pool \ {c}
    /\ \/ Executed(c) /\ settler' = IF AwaitedBy(c) THEN Continue(c) ELSE settler
       \/ /\ ~ ENABLED Executed(c)
          /\ settler' = IF AwaitedBy(c) THEN Idle ELSE settler
          /\ UNCHANGED vars
    /\ UNCHANGED <<sealed, opened, faults>>

(* An RPC call fails, a receipt does not come in time, or the process is     *)
(* started again: the pass is over, what it sent is still under way.         *)
Interrupted ==
    /\ settler.at # "idle" /\ faults < MaxFaults
    /\ settler' = Idle
    /\ faults' = faults + 1
    /\ UNCHANGED <<vars, sealed, opened, pool>>

(* A transaction never gets into a block: its receipt does not come.         *)
Dropped(c) ==
    /\ c \in pool /\ faults < MaxFaults
    /\ pool' = pool \ {c}
    /\ settler' = IF AwaitedBy(c) THEN Idle ELSE settler
    /\ faults' = faults + 1
    /\ UNCHANGED <<vars, sealed, opened>>

(* What anyone may call, and the clock.                                      *)
Others ==
    /\ \/ Tick \/ fund \/ openCommit \/ cancel \/ closeCommit
       \/ \E i \in DOMAIN bids, v \in BOOLEAN : processReveal(i, v)
       \/ \E i \in DOMAIN bids : disputeVoid(i)
       \/ finalize \/ failOnRevealTimeout
    /\ UNCHANGED settling

Pass == poll \/ handle \/ register \/ compare \/ processPending \/ sendChunk \/ finalizeIfReady

SettlerNext ==
    \/ Pass
    \/ \E c \in pool : Mine(c) \/ Dropped(c)
    \/ Interrupted
    \/ Others
    \/ Reveal
    \/ \E a \in Bidders, c \in Plaintexts \cup {Junk}, e \in Escrows, o \in BOOLEAN : BidSealed(a, c, e, o)

(* The loop runs every few seconds, the chain takes transactions, and time   *)
(* passes; nothing is assumed of the coordinator or of anyone else.          *)
SettlerSpec ==
    /\ SettlerInit /\ [][SettlerNext]_allVars
    /\ WF_allVars(Pass)
    /\ WF_allVars(\E c \in pool : Mine(c))
    /\ WF_allVars(Tick /\ UNCHANGED settling)

-----------------------------------------------------------------------------
(* Correctness                                                               *)

(* The root that is registered is the one every later pass plans again, also *)
(* after a restart or when a write lands late: the settler never refuses to  *)
(* continue, and no settlement was priced on a bid that did not open to what *)
(* was committed (planReveal, processPending).                               *)
RootIsThePlan ==
    /\ root # None => root = Plan
    /\ state = "Settled" => \A i \in DOMAIN bids : bids[i].voided \/ (opened /\ sealed[i])

(* No write the settler sent reverts for being early: the contract's clock   *)
(* has passed the end, the window or the deadline the pass saw, unless       *)
(* somebody was faster (handle, finalizeIfReady).                            *)
WritesAreDue ==
    \A c \in pool :
        /\ c.fn = "closeCommit" => now >= EndTime
        /\ c.fn = "failOnRevealTimeout" => now >= RevealDeadline
        /\ c.fn = "registerRevealRoot" => DOMAIN c.leaves = DOMAIN bids
        /\ c.fn = "finalize" /\ state = "Revealing" => AllAccountedFor /\ DisputeWindowOver

(* With nobody else to make the calls, the settler brings every auction that *)
(* has bids to its end, whether the condition opens or not.                  *)
SettlerEndsAuction == (bids # <<>>) ~> (state \in {"Settled", "Failed"})

=============================================================================

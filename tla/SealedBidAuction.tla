-------------------------- MODULE SealedBidAuction --------------------------
(***************************************************************************)
(* One sealed-bid uniform-price auction from funding to the last claim     *)
(* (contracts/src/auctionkit/SealedBidAuction.sol).                        *)
(*                                                                         *)
(* One action is one external call that does not revert; processReveals is *)
(* one action per entry, since its entries are independent.  A commitment  *)
(* is the plaintext it binds, or Junk when it has no preimage.  The root   *)
(* the committee signs is the list of leaves under it: for each bid a      *)
(* plaintext, or None when the committee left the bid out.  Signatures are *)
(* the committee's choice of a root.  Token balances are what this auction *)
(* received and paid out.                                                  *)
(***************************************************************************)
EXTENDS ClearingPrice, Integers, Sequences

CONSTANTS
    Bidders,        \* addresses that bid
    Plaintexts,     \* [quantity, tick] a bid may name, ticks out of range included
    Escrows,        \* escrow amounts a bidder may post
    NumTicks,       \* config.numTicks
    TotalSupply,    \* config.totalSupply
    ReservePrice,   \* config.reservePrice
    TickSize,       \* config.tickSize
    Unit,           \* 10 ** config.saleDecimals
    FeeBps,         \* config.protocolFeeBps
    MinBidQuantity, \* config.minBidQuantity
    MaxPerAddress,  \* config.maxQuantityPerAddress, 0 for none
    MaxBids,        \* config.maxBids
    StartTime,      \* config.startTime
    EndTime,        \* config.endTime
    RevealDeadline, \* config.revealDeadline
    Window,         \* config.voidDisputeWindow
    MaxTime,        \* bound: the clock
    Junk,           \* a commitment without a preimage
    None            \* unset

\* What initialize requires of the configuration.
ASSUME ConfigAssumption ==
    /\ TotalSupply \in Nat \ {0}
    /\ NumTicks \in 1 .. 256
    /\ {StartTime, EndTime, RevealDeadline, Window} \subseteq Nat
    /\ StartTime < EndTime
    /\ EndTime < RevealDeadline
    /\ EndTime + Window <= RevealDeadline
    /\ FeeBps \in 0 .. 1000
    /\ Unit \in Nat \ {0}
    /\ Plaintexts \subseteq [quantity : Nat, tick : Nat]
    /\ Escrows \subseteq Nat
    /\ ReservePrice \in Nat /\ TickSize \in Nat

Ticks == 0 .. NumTicks - 1

VARIABLES
    state,          \* the State enum
    now,            \* block.timestamp
    bids,           \* bids[0 .. committedBidCount - 1]
    root,           \* leaves under revealRoot, or None
    demand,         \* demandByTick
    lastVoidAt,     \* lastVoidAt
    sale,           \* clearing, clearingPrice, grossProceeds, protocolFee, or None
    proceedsClaimed, \* issuerProceedsClaimed
    unsoldClaimed,  \* issuerUnsoldClaimed
    saleHeld,       \* sale tokens held
    quoteHeld       \* quote tokens held

vars == <<state, now, bids, root, demand, lastVoidAt, sale, proceedsClaimed, unsoldClaimed,
          saleHeld, quoteHeld>>
book == <<bids, root, demand, lastVoidAt>>
issuerClaims == <<proceedsClaimed, unsoldClaimed>>
held == <<saleHeld, quoteHeld>>

Init ==
    /\ state = "Created"
    /\ now = 0
    /\ bids = <<>>
    /\ root = None
    /\ demand = [t \in Ticks |-> 0]
    /\ lastVoidAt = 0
    /\ sale = None
    /\ proceedsClaimed = FALSE
    /\ unsoldClaimed = FALSE
    /\ saleHeld = 0
    /\ quoteHeld = 0

Tick ==
    /\ now < MaxTime
    /\ now' = now + 1
    /\ UNCHANGED <<state, book, sale, issuerClaims, held>>

-----------------------------------------------------------------------------
(* Before the bids *)

fund ==
    /\ state = "Created"
    /\ saleHeld' = saleHeld + TotalSupply
    /\ state' = "Funded"
    /\ UNCHANGED <<now, book, sale, issuerClaims, quoteHeld>>

openCommit ==
    /\ state = "Funded"
    /\ now >= StartTime
    /\ state' = "CommitOpen"
    /\ UNCHANGED <<now, book, sale, issuerClaims, held>>

\* Variant: an auction may be cancelled with bids in it.
MayCancelOpen == state \in {"Funded", "CommitOpen"}

MayCancel == state = "Funded" \/ (state = "CommitOpen" /\ Len(bids) = 0)

\* The supply goes back to the issuer; an unfunded auction just ends.
cancel ==
    /\ \/ state = "Created" /\ UNCHANGED saleHeld
       \/ MayCancel /\ saleHeld' = saleHeld - TotalSupply
    /\ state' = "Cancelled"
    /\ UNCHANGED <<now, book, sale, issuerClaims, quoteHeld>>

-----------------------------------------------------------------------------
(* Bidding *)

BookHasRoom == Len(bids) < MaxBids

\* _commitBid: the commitment is opaque, the escrow is taken.
commitBid(bidder, commitment, escrow) ==
    /\ state = "CommitOpen"
    /\ now >= StartTime /\ now < EndTime
    /\ BookHasRoom
    /\ escrow > 0
    /\ bids' = Append(bids, [bidder |-> bidder, commitment |-> commitment, escrow |-> escrow,
                             revealed |-> FALSE, voided |-> FALSE, claimed |-> FALSE,
                             quantity |-> 0, tick |-> 0])
    /\ quoteHeld' = quoteHeld + escrow
    /\ UNCHANGED <<state, now, root, demand, lastVoidAt, sale, issuerClaims, saleHeld>>

closeCommit ==
    /\ state = "CommitOpen"
    /\ now >= EndTime
    /\ state' = IF bids = <<>> THEN "Failed" ELSE "CommitClosed"
    /\ UNCHANGED <<now, book, sale, issuerClaims, held>>

-----------------------------------------------------------------------------
(* Reveal *)

\* A threshold of the committee signed a root over as many bids as were
\* committed; what its leaves say is the committee's doing.
registerRevealRoot(leaves) ==
    /\ state = "CommitClosed"
    /\ now < RevealDeadline
    /\ root = None
    /\ DOMAIN leaves = DOMAIN bids
    /\ root' = leaves
    /\ state' = "Revealing"
    /\ UNCHANGED <<now, bids, demand, lastVoidAt, sale, issuerClaims, held>>

\* Variant: the escrow is not checked.
EligibleAnyEscrow(bid, quantity, tick) ==
    /\ quantity >= MinBidQuantity
    /\ MaxPerAddress # 0 => quantity <= MaxPerAddress

\* _isEligible
Eligible(bid, quantity, tick) ==
    /\ quantity >= MinBidQuantity
    /\ MaxPerAddress # 0 => quantity <= MaxPerAddress
    /\ bid.escrow >= EscrowFor(quantity, ReservePrice, TickSize, tick, Unit)

\* bidCommitment(...) == b.commitment; the version is the caller's argument.
Matches(bid, leaf, sameVersion) == sameVersion /\ bid.commitment = leaf

\* _processOne: an attested leaf is processed once; a tick out of range reverts,
\* a plaintext the bidder did not commit to voids the bid, an ineligible one adds
\* no demand.
processReveal(i, sameVersion) ==
    LET leaf == root[i]
    IN  /\ state = "Revealing"
        /\ i \in DOMAIN bids
        /\ ~bids[i].revealed
        /\ leaf # None
        /\ leaf.tick \in Ticks
        /\ \/ /\ ~Matches(bids[i], leaf, sameVersion)
              /\ bids' = [bids EXCEPT ![i].revealed = TRUE, ![i].voided = TRUE]
              /\ lastVoidAt' = now
              /\ UNCHANGED demand
           \/ /\ Matches(bids[i], leaf, sameVersion)
              /\ bids' = [bids EXCEPT ![i].revealed = TRUE, ![i].quantity = leaf.quantity,
                                      ![i].tick = leaf.tick]
              /\ demand' = IF Eligible(bids[i], leaf.quantity, leaf.tick)
                             THEN [demand EXCEPT ![leaf.tick] = @ + leaf.quantity] ELSE demand
              /\ UNCHANGED lastVoidAt
        /\ UNCHANGED <<state, now, root, sale, issuerClaims, held>>

\* Anyone who holds the preimage of a voided bid halts the auction.
disputeVoid(i) ==
    /\ state = "Revealing"
    /\ i \in DOMAIN bids
    /\ bids[i].voided
    /\ bids[i].commitment # Junk
    /\ state' = "Failed"
    /\ UNCHANGED <<now, book, sale, issuerClaims, held>>

-----------------------------------------------------------------------------
(* Settlement *)

\* Variant: settlement does not wait for every bid.
AllAccountedForAny == \E i \in DOMAIN bids : bids[i].revealed

\* processedBidCount = committedBidCount
AllAccountedFor == \A i \in DOMAIN bids : bids[i].revealed

DisputeWindowOver == (\E i \in DOMAIN bids : bids[i].voided) => now >= lastVoidAt + Window

Sale(result) ==
    LET price == PriceAt(ReservePrice, TickSize, result.clearingTick)
        gross == CostFloor(result.supplySold, price, Unit)
    IN  [clearing |-> result, price |-> price, gross |-> gross, fee |-> FeeOn(gross, FeeBps)]

finalize ==
    LET result == FindClearingTick(demand, TotalSupply)
    IN  /\ state = "Revealing"
        /\ DisputeWindowOver
        /\ AllAccountedFor
        /\ \/ ~result.cleared /\ state' = "Failed" /\ UNCHANGED sale
           \/ result.cleared /\ state' = "Settled" /\ sale' = Sale(result)
        /\ UNCHANGED <<now, book, issuerClaims, held>>

\* Variant: a settled auction may still time out.
AwaitingRevealsEver == state \in {"CommitClosed", "Revealing", "Settled"}

\* Variant: only a registered root can time out.
AwaitingRevealsOnly == state = "Revealing"

AwaitingReveals == state \in {"CommitClosed", "Revealing"}

failOnRevealTimeout ==
    /\ now >= RevealDeadline
    /\ AwaitingReveals
    /\ state' = "Failed"
    /\ UNCHANGED <<now, book, sale, issuerClaims, held>>

-----------------------------------------------------------------------------
(* Claims *)

\* allocationOf, in a settled auction.
AllocationOf(bid) ==
    IF ~bid.revealed \/ bid.voided \/ ~Eligible(bid, bid.quantity, bid.tick) THEN 0
    ELSE AllocationFor(sale.clearing, bid.quantity, bid.tick)

Tokens(bid) == IF state = "Settled" THEN AllocationOf(bid) ELSE 0
Paid(bid) == IF state = "Settled" THEN CostFloor(AllocationOf(bid), sale.price, Unit) ELSE 0
Refund(bid) == bid.escrow - Paid(bid)

MayClaim(bid) == ~bid.claimed /\ state \in {"Settled", "Failed", "Cancelled"}

\* A transfer the contract cannot cover reverts the call.
claim(i) ==
    /\ i \in DOMAIN bids
    /\ MayClaim(bids[i])
    /\ Tokens(bids[i]) <= saleHeld
    /\ Refund(bids[i]) \in 0 .. quoteHeld
    /\ bids' = [bids EXCEPT ![i].claimed = TRUE]
    /\ saleHeld' = saleHeld - Tokens(bids[i])
    /\ quoteHeld' = quoteHeld - Refund(bids[i])
    /\ UNCHANGED <<state, now, root, demand, lastVoidAt, sale, issuerClaims>>

claimProceeds ==
    /\ state = "Settled"
    /\ ~proceedsClaimed
    /\ sale.gross <= quoteHeld
    /\ proceedsClaimed' = TRUE
    /\ quoteHeld' = quoteHeld - sale.gross
    /\ UNCHANGED <<state, now, book, sale, unsoldClaimed, saleHeld>>

Unsold == TotalSupply - (IF state = "Settled" THEN sale.clearing.supplySold ELSE 0)

claimUnsold ==
    /\ state \in {"Settled", "Failed"}
    /\ ~unsoldClaimed
    /\ Unsold <= saleHeld
    /\ unsoldClaimed' = TRUE
    /\ saleHeld' = saleHeld - Unsold
    /\ UNCHANGED <<state, now, book, sale, proceedsClaimed, quoteHeld>>

-----------------------------------------------------------------------------

Next ==
    \/ Tick
    \/ fund
    \/ openCommit
    \/ cancel
    \/ \E a \in Bidders, c \in Plaintexts \cup {Junk}, e \in Escrows : commitBid(a, c, e)
    \/ closeCommit
    \/ \E leaves \in [DOMAIN bids -> Plaintexts \cup {None}] : registerRevealRoot(leaves)
    \/ \E i \in DOMAIN bids, v \in BOOLEAN : processReveal(i, v)
    \/ \E i \in DOMAIN bids : disputeVoid(i)
    \/ finalize
    \/ failOnRevealTimeout
    \/ \E i \in DOMAIN bids : claim(i)
    \/ claimProceeds
    \/ claimUnsold

Spec == Init /\ [][Next]_vars

\* The clock advances, and the calls nobody can prevent are made by somebody:
\* closing the book, failing on the deadline, and each bidder's own claim.
FairSpec ==
    /\ Spec
    /\ WF_vars(Tick)
    /\ WF_vars(closeCommit)
    /\ WF_vars(failOnRevealTimeout)
    /\ \A i \in 1 .. MaxBids : WF_vars(claim(i))

-----------------------------------------------------------------------------
(* Correctness *)

Final == {"Settled", "Failed", "Cancelled"}

Unclaimed == {i \in DOMAIN bids : ~bids[i].claimed}

\* The sale tokens still owed, to bidders and to the issuer, are always there
\* (allocationFor rounds down; claim and claimUnsold are in any order).
SaleCovered ==
    state \in {"Settled", "Failed"} =>
        saleHeld >= SumFunctionOnSet([i \in DOMAIN bids |-> Tokens(bids[i])], Unclaimed)
                        + (IF unsoldClaimed THEN 0 ELSE Unsold)

\* Until an auction settles, and for good when it fails, it holds exactly the
\* escrow of the bids not yet claimed; a cancelled one has no bids.
EscrowKept ==
    /\ state # "Settled" =>
          quoteHeld = SumFunctionOnSet([i \in DOMAIN bids |-> bids[i].escrow], Unclaimed)
    /\ state = "Cancelled" => bids = <<>> /\ saleHeld = 0

\* Once settled, what it holds of the quote token is short of what is due by
\* exactly what flooring the proceeds once collects more than flooring every
\* payment, and by nothing else (finalize, claim).
QuoteAccounted ==
    LET paid == SumFunctionOnSet([i \in DOMAIN bids |-> Paid(bids[i])], DOMAIN bids)
        due  == SumFunctionOnSet([i \in DOMAIN bids |-> Refund(bids[i])], Unclaimed)
                    + (IF proceedsClaimed THEN 0 ELSE sale.gross)
    IN  state = "Settled" => paid <= sale.gross /\ quoteHeld + (sale.gross - paid) = due

\* All three: what the auction holds covers what can still be claimed of it, less
\* exactly the rounding that QuoteAccounted states.
HoldingsCoverClaims == SaleCovered /\ EscrowKept /\ QuoteAccounted

\* No bidder is charged more than the escrow posted, nor more than the price the
\* bid named (escrow rounds up at the bid's tick, payment down at the clearing
\* tick; eligibility is tested at reveal and again at claim).
PaidWithinEscrow ==
    state = "Settled" =>
        \A i \in DOMAIN bids :
            /\ Paid(bids[i]) <= bids[i].escrow
            /\ Tokens(bids[i]) > 0 =>
                  Paid(bids[i]) <= EscrowFor(Tokens(bids[i]), ReservePrice, TickSize, bids[i].tick, Unit)

\* A settled price leaves no bid out and is computed from what the bidders
\* committed to: the committee can neither omit a bid nor substitute one
\* (processReveals' two checks and finalize's count).
SettledOnCommitments ==
    state = "Settled" =>
        /\ \A i \in DOMAIN bids :
              bids[i].revealed /\ (bids[i].voided \/ bids[i].commitment =
                                      [quantity |-> bids[i].quantity, tick |-> bids[i].tick])
        /\ \A t \in Ticks : demand[t] =
              SumFunctionOnSet([i \in DOMAIN bids |-> bids[i].quantity],
                  {i \in DOMAIN bids : /\ ~bids[i].voided /\ bids[i].tick = t
                                       /\ Eligible(bids[i], bids[i].quantity, t)})

\* A final state is final, the outcome and every commitment are fixed once made,
\* and nothing is claimed back.
OutcomeStands ==
    [][ /\ state \in Final => state' = state /\ sale' = sale
        /\ \A i \in DOMAIN bids :
              /\ bids'[i].commitment = bids[i].commitment /\ bids'[i].escrow = bids[i].escrow
              /\ bids[i].revealed => bids'[i].voided = bids[i].voided
              /\ bids[i].claimed => bids'[i].claimed
        /\ root # None => root' = root ]_vars

\* No committed bid waits forever: the auction settles or fails whatever the
\* committee and the issuer do (failOnRevealTimeout).
BidsReachAnEnd == (bids # <<>>) ~> (state \in {"Settled", "Failed"})

\* A failed auction gives every escrow back.
FailureRefunds == (state = "Failed") ~> (Unclaimed = {} /\ quoteHeld = 0)

\* Both: every bid ends, and ends with its escrow back when the auction fails
\* (failOnRevealTimeout, claim).
EveryBidEnds == BidsReachAnEnd /\ FailureRefunds

=============================================================================

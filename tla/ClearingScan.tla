---------------------------- MODULE ClearingScan ----------------------------
(***************************************************************************)
(* ClearingPrice.findClearingTick, one loop iteration a step, run on the   *)
(* demand of any eligible bids: the scan computes the clearing rule, and   *)
(* the rule allocates what it promises.                                    *)
(***************************************************************************)
EXTENDS ClearingPrice, Integers

CONSTANTS
    TickCount,      \* bound: price ticks
    MaxQuantity,    \* bound: quantity of one bid
    MaxSupply,      \* bound: offered supply
    NumBids         \* bound: eligible bids

ASSUME ScanAssumption ==
    /\ TickCount \in Nat \ {0} /\ MaxSupply \in Nat \ {0}
    /\ NumBids \in Nat /\ MaxQuantity \in Nat

ScanTicks == 0 .. TickCount - 1
Bids == [quantity : 0 .. MaxQuantity, tick : ScanTicks]

VARIABLES
    eligible,       \* the eligible bids: only their demand by tick is read
    supply, tick, cumulative, result, returned
scanVars == <<eligible, supply, tick, cumulative, result, returned>>

BidsAt(t) == {i \in DOMAIN eligible : eligible[i].tick = t}
Demand == [t \in ScanTicks |-> SumFunctionOnSet([i \in DOMAIN eligible |-> eligible[i].quantity], BidsAt(t))]

ScanInit ==
    /\ eligible \in [1 .. NumBids -> Bids]
    /\ supply \in 1 .. MaxSupply
    /\ tick = TickCount - 1
    /\ cumulative = 0
    /\ result = NotCleared
    /\ returned = FALSE

Reaches == cumulative + Demand[tick] >= supply

\* The tick clears: the ticks above took cumulative, the rest is shared here.
Cross ==
    /\ ~returned /\ tick >= 0
    /\ Reaches
    /\ result' = [cleared |-> TRUE, clearingTick |-> tick, supplySold |-> supply,
                  demandAtClearingTick |-> Demand[tick],
                  supplyForClearingTick |-> supply - cumulative]
    /\ returned' = TRUE
    /\ UNCHANGED <<eligible, supply, tick, cumulative>>

NextTick ==
    /\ ~returned /\ tick >= 0
    /\ ~Reaches
    /\ cumulative' = cumulative + Demand[tick]
    /\ tick' = tick - 1
    /\ UNCHANGED <<eligible, supply, result, returned>>

\* Variant: the undersubscribed sale clears at the lowest tick anyone bid.
UndersubscribedTickLowest == Min({t \in ScanTicks : Demand[t] > 0})

UndersubscribedTick == 0

\* The loop is over without a crossing.
Exhaust ==
    /\ ~returned /\ tick < 0
    /\ result' = IF cumulative = 0 THEN NotCleared
                 ELSE [cleared |-> TRUE, clearingTick |-> UndersubscribedTick,
                       supplySold |-> cumulative,
                       demandAtClearingTick |-> Demand[UndersubscribedTick],
                       supplyForClearingTick |-> Demand[UndersubscribedTick]]
    /\ returned' = TRUE
    /\ UNCHANGED <<eligible, supply, tick, cumulative>>

ScanNext == Cross \/ NextTick \/ Exhaust

ScanSpec == ScanInit /\ [][ScanNext]_scanVars

-----------------------------------------------------------------------------

Allocation(i) == AllocationFor(result, eligible[i].quantity, eligible[i].tick)
Allocated == SumFunction([i \in DOMAIN eligible |-> Allocation(i)])

\* The scan returns what the clearing rule says (findClearingTick).
ScanIsClearingRule == returned => result = FindClearingTick(Demand, supply)

\* No more is allocated than is sold, nor sold than offered or asked for; what
\* rounding withholds is less than a unit per bid at the clearing tick
\* (allocationFor: the sum can be a few base units below the supply).
AllocationsFit ==
    returned =>
        /\ Allocated <= result.supplySold
        /\ result.supplySold <= supply
        /\ \/ Allocated = result.supplySold
           \/ result.supplySold - Allocated < Cardinality(BidsAt(result.clearingTick))

\* The price clears the market: below the crossing tick is never reached while a
\* bid above goes short, two bids of one quantity are filled in the order of
\* their ticks, and no bid gets more than it asked (uniform price, pro-rata).
AllocationsAreFair ==
    returned =>
        /\ \A i, j \in DOMAIN eligible :
              (eligible[i].quantity = eligible[j].quantity /\ eligible[i].tick <= eligible[j].tick)
                  => Allocation(i) <= Allocation(j)
        /\ \A i \in DOMAIN eligible : Allocation(i) <= eligible[i].quantity
        /\ (result.cleared /\ result.supplySold < supply)
              => \A i \in DOMAIN eligible : Allocation(i) = eligible[i].quantity

\* Both: the allocations at the price fit the sale and are fair (allocationFor).
AllocationsHold == AllocationsFit /\ AllocationsAreFair
=============================================================================

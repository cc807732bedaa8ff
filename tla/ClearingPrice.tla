---------------------------- MODULE ClearingPrice ----------------------------
(***************************************************************************)
(* The uniform-price clearing rule and the auction's arithmetic            *)
(* (contracts/src/auctionkit/ClearingPrice.sol, AuctionMath.sol).          *)
(*                                                                         *)
(* FindClearingTick says what the scan of the library computes; the scan   *)
(* itself is ClearingScan.  Solidity's `/` and mulDiv floor are \div.      *)
(***************************************************************************)
EXTENDS Naturals, FiniteSetsExt, Functions

NotCleared == [cleared |-> FALSE, clearingTick |-> 0, supplySold |-> 0,
               demandAtClearingTick |-> 0, supplyForClearingTick |-> 0]

DemandFrom(demand, tick) == SumFunctionOnSet(demand, {t \in DOMAIN demand : t >= tick})

\* The highest tick at which cumulative demand reaches the supply; with less
\* demand than supply everything fills at the reserve; without demand nothing.
FindClearingTick(demand, supply) ==
    LET crossing == {t \in DOMAIN demand : DemandFrom(demand, t) >= supply}
        tick == Max(crossing)
    IN  IF crossing # {}
          THEN [cleared |-> TRUE, clearingTick |-> tick, supplySold |-> supply,
                demandAtClearingTick |-> demand[tick],
                supplyForClearingTick |-> supply - DemandFrom(demand, tick + 1)]
        ELSE IF DemandFrom(demand, 0) = 0 THEN NotCleared
        ELSE [cleared |-> TRUE, clearingTick |-> 0, supplySold |-> DemandFrom(demand, 0),
              demandAtClearingTick |-> demand[0], supplyForClearingTick |-> demand[0]]

ShareOf(quantity, part, whole) == (quantity * part) \div whole

\* Variant: the marginal tick's share is rounded up.
AllocationCeil(result, quantity, tick) ==
    IF ~result.cleared \/ tick < result.clearingTick THEN 0
    ELSE IF tick > result.clearingTick
            \/ result.demandAtClearingTick <= result.supplyForClearingTick THEN quantity
    ELSE ShareOf(quantity, result.supplyForClearingTick, result.demandAtClearingTick) + 1

\* allocationFor: nothing below the clearing tick, everything above it or when
\* there is enough to go round, pro-rata rounded down otherwise.
AllocationFor(result, quantity, tick) ==
    IF ~result.cleared \/ tick < result.clearingTick THEN 0
    ELSE IF tick > result.clearingTick
            \/ result.demandAtClearingTick <= result.supplyForClearingTick THEN quantity
    ELSE ShareOf(quantity, result.supplyForClearingTick, result.demandAtClearingTick)

PriceAt(reserve, tickSize, tick) == reserve + tick * tickSize

\* unit is 10 ** saleDecimals.
CostFloor(quantity, price, unit) == (quantity * price) \div unit
CostCeil(quantity, price, unit) == (quantity * price + unit - 1) \div unit

EscrowFor(quantity, reserve, tickSize, tick, unit) ==
    CostCeil(quantity, PriceAt(reserve, tickSize, tick), unit)

FeeOn(proceeds, feeBps) == (proceeds * feeBps) \div 10000
=============================================================================

\* Two bids on two ticks, three units for sale, a bid with a short escrow and one off the price scale.
SPECIFICATION FairSpec
CONSTANTS
    Bidders = {a}
    Plaintexts <- FourPlaintexts
    Escrows = {11, 41}
    NumTicks = 2
    TotalSupply = 3
    ReservePrice = 105
    TickSize = 100
    Unit = 10
    FeeBps = 1000
    MinBidQuantity = 1
    MaxPerAddress = 0
    MaxBids = 2
    StartTime = 0
    EndTime = 1
    RevealDeadline = 2
    Window = 1
    MaxTime = 3
    Junk = JUNK
    None = NONE
INVARIANTS HoldingsCoverClaims PaidWithinEscrow SettledOnCommitments
PROPERTIES OutcomeStands EveryBidEnds
CHECK_DEADLOCK FALSE

\* Two bids, revealed one a transaction, one off the price scale, one interruption
\* or lost transaction.
SPECIFICATION SettlerSpec
CONSTANTS
    Bidders = {a}
    Plaintexts <- ThreePlaintexts
    Escrows = {41}
    NumTicks = 2
    TotalSupply = 3
    ReservePrice = 105
    TickSize = 100
    Unit = 10
    FeeBps = 1000
    MinBidQuantity = 1
    MaxPerAddress = 0
    MaxBids = 2
    StartTime = 0
    EndTime = 1
    RevealDeadline = 3
    Window = 1
    MaxTime = 4
    Chunk = 1
    MaxFaults = 1
    Junk = JUNK
    None = NONE
INVARIANTS RootIsThePlan WritesAreDue
PROPERTIES SettlerEndsAuction
CHECK_DEADLOCK FALSE

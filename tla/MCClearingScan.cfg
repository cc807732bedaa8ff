\* Three bids of up to three units on three ticks, every supply up to seven.
SPECIFICATION ScanSpec
CONSTANTS
    TickCount = 3
    MaxQuantity = 3
    MaxSupply = 7
    NumBids = 3
INVARIANTS ScanIsClearingRule AllocationsHold
CHECK_DEADLOCK FALSE

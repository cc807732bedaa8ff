SPECIFICATION FairSpec
CONSTANTS
    None = None
    Threshold = 1
    MaxReorg = 2
    MaxHeight = 3
    MaxForks = 1
    Deposits <- SomeDeposits
    AmountOf <- Amounts
    Token = "ours"
    Confirmations = 1
    StartBlock = 1
    BlockRange = 1
    MaxFaults = 1
INVARIANT MintsAreBacked
INVARIANT BooksAreTrue
PROPERTY RegisteredDepositIsCredited
CHECK_DEADLOCK FALSE

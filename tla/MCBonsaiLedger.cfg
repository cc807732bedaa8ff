\* Two accounts, two deposits, four log positions, a window of two roots.
SPECIFICATION Spec
CONSTANTS
    Accounts = {alice, bob}
    Amounts = {1}
    DepositIds = {d1, d2}
    Rands = {r0}
    RootWindow = 2
    MaxPositions = 4
    MaxBalance = 2
    MaxSigned = 3
    MintSender = MINT
    WithdrawReceiver = WITHDRAW
    Unregistered = unregistered
INVARIANTS MemoryIsStore ClaimsAreSound NoReplay DepositsMatchMints ReplayAgrees Conservation
PROPERTIES ImplementsLinkMoney
SYMMETRY Symmetry
CHECK_DEADLOCK FALSE

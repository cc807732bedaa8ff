SPECIFICATION ApiSpec
CONSTANTS
    Calls = {c1, c2, c3}
    Keys = {"k1"}
    Hashes = {"e1", "e2"}
    Payments = {"p1"}
    Requests <- MCRequests
    MaxRounds = 3
    MaxFailures = 1
    Absent = Absent
SYMMETRY SymmetricCalls
INVARIANTS
    KeyMakesOneRound
    EachPaymentBuysOne
CHECK_DEADLOCK FALSE

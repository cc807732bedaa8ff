SPECIFICATION Spec
CONSTANTS
    None = None
    Threshold = 2
    MaxReorg = 1
    MaxHeight = 2
    MaxForks = 1
    Nodes = {n1, n2, n3}
    Entry = {n1, n2}
    MaxEpoch = 2
    Burns <- OneBurn
    Recipients = {alice, bob}
    Requests = {q1}
    Confirmations = 1
SYMMETRY Symmetry
INVARIANT PaymentsAreBurned
INVARIANT CertificatesAgree
INVARIANT StillPayable
CHECK_DEADLOCK FALSE

\* A block-scheduled round with an intent, two honest operators of three, one crash or failed statement, fairness.
SPECIFICATION FairSpec
CONSTANTS
    AtTime = {}
    AtBlock = {c1}
    Seals = {1, 2}
    IntentIds = {i1}
    Operators = {o1, o2, o3}
    Honest = {o1, o2}
    B = 2
    T = 2
    Named = {o1}
    MaxFaults = 1
    Padding = PADDING
    None = NONE
INVARIANTS IntentsFollowOrder SharesDecide
PROPERTIES DueIsRevealed

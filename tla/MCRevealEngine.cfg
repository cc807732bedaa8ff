\* A timed and a block-scheduled round, up to two batches each, one crash or failed statement.
SPECIFICATION Spec
CONSTANTS
    AtTime = {c1}
    AtBlock = {c2}
    Seals = {1, 2}
    IntentIds = {}
    Operators = {o1}
    Honest = {o1}
    B = 1
    T = 1
    Named = {o1}
    MaxFaults = 1
    Padding = PADDING
    None = NONE
INVARIANTS CommittedBeforeWork RevealIsExact
PROPERTIES PublishedStands

\* Four inserts race over a cap of two.
CONSTANTS
    turnItem = turnItem
    planA = planA
    planB = planB
    liveItem = liveItem
    Items = {turnItem, planA, planB, liveItem}
    Confidence <- ByKind
    MaxItems = 2
SYMMETRY Alike
SPECIFICATION Spec
INVARIANTS
    CapHolds
    BestKept
    ImmortalOnlyBetween
\* Every insert may be over and the pool gone.
CHECK_DEADLOCK FALSE

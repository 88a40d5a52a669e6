\* Two turns, written or spoken, and a planned fetch over one templated dependency.
CONSTANTS
    kb = kb
    crm = crm
    pay = pay
    Advisory = advisory
    None = none
    Near <- SelfNear
    Deps = {kb}
    Templated = {kb}
    Idempotent = {kb}
    Actions = {answer}
    Queries = {q1, q2}
    Mode = "both"
    Channels = {"converse", "voice"}
    SlowFetches = FALSE
    Faults = {}
    MaxPlans = 1
    MaxTurns = 2
    MaxDrops = 0
    MaxEnds = 0
    MaxCrashes = 0
SYMMETRY Utterances
SPECIFICATION Spec
INVARIANTS
    OneFetchPerKey
    NoRedundantLive
    ServedFresh
\* A run out of turns, plans and ends has nothing left to do.
CHECK_DEADLOCK FALSE

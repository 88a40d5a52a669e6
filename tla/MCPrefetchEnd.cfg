\* The session ends under a turn and its fetches; calls fail and a process crashes.
CONSTANTS
    kb = kb
    crm = crm
    pay = pay
    Advisory = advisory
    None = none
    Near <- SelfNear
    Deps = {kb}
    Templated = {kb}
    Idempotent = {kb}
    Actions = {answer}
    Queries = {q1, q2}
    Mode = "both"
    Channels = {"converse"}
    SlowFetches = FALSE
    Faults = {"audit", "mark", "sweep", "redis"}
    MaxPlans = 1
    MaxTurns = 1
    MaxDrops = 0
    MaxEnds = 1
    MaxCrashes = 1
SYMMETRY Utterances
SPECIFICATION Spec
INVARIANTS
    ClaimsHaveOwners
    OnlyCaughtRowsStayOpen
\* A run out of turns, plans and ends has nothing left to do.
CHECK_DEADLOCK FALSE

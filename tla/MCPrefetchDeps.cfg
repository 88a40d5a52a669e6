\* An idempotent and a non-idempotent dependency without templates, claims
\*  that run out under their fetch, Redis calls that fail and a
\* process that crashes.  No symmetry: it is not sound for liveness.
CONSTANTS
    kb = kb
    crm = crm
    pay = pay
    Advisory = advisory
    None = none
    Near <- SelfNear
    Deps = {crm, pay}
    Templated = {}
    Idempotent = {crm}
    Actions = {answer}
    Queries = {q1}
    Mode = "both"
    Channels = {"plan"}
    SlowFetches = TRUE
    Faults = {"redis"}
    MaxPlans = 1
    MaxTurns = 2
    MaxDrops = 1
    MaxEnds = 0
    MaxCrashes = 1
SPECIFICATION FairSpec
INVARIANTS
    NonIdempotentUnderTurn
PROPERTIES
    TurnCompletes
\* A run out of turns, plans and ends has nothing left to do.
CHECK_DEADLOCK FALSE

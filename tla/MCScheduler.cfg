\* Two permits for four callers: hand-overs, give-backs and cancellations all queue.
\* No symmetry: it is not sound for liveness.
CONSTANTS
    LiveCalls = {l1, l2}
    SpecCalls = {s1, s2, s3, s4}
    Budget = 2
SPECIFICATION FairSpec
INVARIANTS
    NoLostWakeup
PROPERTIES
    GateSafety
    SpeculationResumes

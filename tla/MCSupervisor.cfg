SPECIFICATION Spec
CONSTANTS
    Workers = {w1, w2}
    MaxEvents = 2
    Pairs = {offer}
    Batch = 2
    MaxLen = 1
    MaxMishaps = 1
    MaxExpiries = 1
INVARIANTS NothingIsLost 
CHECK_DEADLOCK FALSE
PROPERTY EventsAreHandled

SPECIFICATION Spec
CONSTANTS
    Requests = {r1, r2}
    Sops = {"refund"}
    bound = bound
    free = free
    block = "block"
    Blocks = {"block"}
    Definitions = {bound, free}
    Texts = {"text"}
    BindsOf <- MCBindsOf
    Clean = {bound}
    Sessions = {s1}
    MaxRequests = 4
INVARIANTS CatalogIsSound PublishedPassedTheGate PinsAreReleased
CHECK_DEADLOCK FALSE

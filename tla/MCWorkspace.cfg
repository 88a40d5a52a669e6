SPECIFICATION Spec
CONSTANTS
    Slugs = {acme}
    Clients = {r1, r2}
    MaxTenants = 3
    MaxKeys = 4
    MaxRequests = 4
    MaxCrashes = 1
    Sessions = 1
    Calls = {call}
    Titles = {title}
INVARIANTS TenantsAreSound OneSessionPerCall MemoryIsSound
PROPERTY EverythingEnds
CHECK_DEADLOCK FALSE

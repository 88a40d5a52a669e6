SPECIFICATION Spec
CONSTANTS
    Requests = {r1, r2}
    Outcomes = {success, failure}
    Quota = 1
    MaxRequests = 3
 
PROPERTIES  EveryRequestEnds
CHECK_DEADLOCK FALSE

\* Three overlapping requests over two procedures; a voice turn is a converse without intake.
CONSTANTS
    None = none
    trip = trip
    desk = desk
    ask = ask
    book = book
    ready = ready
    Sops = {trip, desk}
    Graph <- Procedures
    Requests = {r1, r2, r3}
    Kinds = {"converse", "advisory", "plan"}
SYMMETRY Repeats
SPECIFICATION Spec
INVARIANTS
    NumberedInOrder
    TurnsAreLegal
    RejectedOnlyWhenStranded
PROPERTY TurnsAreSerial

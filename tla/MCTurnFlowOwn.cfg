\* One conversational turn at a time.
CONSTANTS
    None = none
    trip = trip
    desk = desk
    ask = ask
    book = book
    ready = ready
    Sops = {trip, desk}
    Graph <- Procedures
    Requests = {r1}
    Kinds = {"converse", "voice"}
SYMMETRY Repeats
SPECIFICATION Spec
INVARIANT ProposalsAreLegal

\* Three calls, two prices, no fault beyond the ones that are always possible.
CONSTANTS
    Calls = {c1, c2, c3}
    NoCall = NoCall
    Network = "net"
    Asset = "utia"
    MaxPerCall = 2
    Budget = 7
    Fee = 1
    SeqSpan = 8
    Options <- MCOptions
    Unread = Unread
    Required <- MCRequired
    NoOption = NoOption
    NoAnswer = NoAnswer
    Readers = {}
    Faults = {"ctx"}
    MaxRestarts = 0
SPECIFICATION Spec
SYMMETRY Symmetry
INVARIANT NeverLate

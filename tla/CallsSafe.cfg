\* Four calls, two prices, one restart of the process.
CONSTANTS
    Calls = {c1, c2, c3, c4}
    NoCall = NoCall
    Network = "net"
    Asset = "utia"
    MaxPerCall = 2
    Budget = 7
    Fee = 1
    SeqSpan = 8
    Options <- MCOptions
    Unread = Unread
    Required <- MCRequired
    NoOption = NoOption
    NoAnswer = NoAnswer
    Readers = {}
    Faults = {}
    MaxRestarts = 1
SPECIFICATION Spec
SYMMETRY Symmetry
INVARIANTS
    TypeOK
    NeverLate
    RefusedNeverTaken
    WaitedNeverTaken

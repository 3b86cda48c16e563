\* Three calls, every fault and a restart.
CONSTANTS
    Calls = {c1, c2, c3}
    NoCall = NoCall
    Network = "net"
    Asset = "utia"
    MaxPerCall = 2
    Budget = 6
    Fee = 1
    SeqSpan = 8
    Options <- MCOptions
    Unread = Unread
    Required <- MCRequired
    NoOption = NoOption
    NoAnswer = NoAnswer
    Readers = {}
    Faults = {"ctx", "drop", "late", "redeliver"}
    MaxRestarts = 1
SPECIFICATION Spec
SYMMETRY Symmetry
INVARIANTS
    ReceiptMatchesLedger
    NewestInFlight
    PaysItsOffer
    LateOnlyByReturns
PROPERTY ImplementsPayer

\* Every call returns although only the code itself is fair.
CONSTANTS
    Calls = {c1, c2}
    NoCall = NoCall
    Network = "net"
    Asset = "utia"
    MaxPerCall = 2
    Budget = 6
    Fee = 1
    SeqSpan = 8
    Options <- MCOptions
    Unread = Unread
    Required <- MCRequired
    NoOption = NoOption
    NoAnswer = NoAnswer
    Readers = {r1}
    Faults = {"ctx", "drop", "late", "redeliver"}
    MaxRestarts = 1
SPECIFICATION FairSpec
PROPERTIES
    EveryCallEnds
    StatusAnswers

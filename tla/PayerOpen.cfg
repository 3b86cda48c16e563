\* The budget holds two payments at the higher price, or three at the lower.
CONSTANTS
    Calls = {c1, c2, c3}
    NoCall = NoCall
    Network = "net"
    Asset = "utia"
    MaxPerCall = 2
    Budget = 6
    Fee = 1
    SeqSpan = 3
    Options <- MCOptions
SPECIFICATION PayerSpec
SYMMETRY Symmetry
INVARIANTS
    PayerTypeOK
    WithinBudget
    LedgerExact
    OpenExact
    NoReuseWithoutRelease
PROPERTY LedgerSpec

\* Two runs of init at the same time.
CONSTANTS
    Runs = {r1, r2}
    Old = Old
    NoFile = NoFile
    NoWallet = NoWallet
SPECIFICATION Spec
SYMMETRY Symmetry
INVARIANT KeepsTheOther

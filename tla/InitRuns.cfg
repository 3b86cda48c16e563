\* Three runs of init, each with or without -force, over every earlier state
\* of the two files.
CONSTANTS
    Runs = {r1, r2, r3}
    Old = Old
    NoFile = NoFile
    NoWallet = NoWallet
SPECIFICATION Spec
SYMMETRY Symmetry
INVARIANTS
    TypeOK
    ShownWalletKept
    ConfigOwned
    BothPrivate
PROPERTY WalletNeverCut

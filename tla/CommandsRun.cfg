\* Two wallets, files that load and files that do not, an honest or failing
\* sidecar.
CONSTANTS
    NoFile = NoFile
    Wallets = {"w1", "w2"}
    NoWallet = NoWallet
    CosmosIds = {"cosmos:mocha-5", "cosmos:celestia"}
    IntSpan = 131072
    ConfigFiles <- MCFiles
    Paths = {".mnemonic", "other"}
    PriceAnswers <- MCPriceAnswers
    NoMethods = NoMethods
    Deposits = {1, 45000}
    Failures <- MCFailures
SPECIFICATION FairSpec
INVARIANTS
    TypeOK
    ShownIsUsed
    LoadedMoney
    InitFitsPrices
    ReportExact
PROPERTIES
    CheckedStarts
    BalanceTrue
    WaitsOnZero
    LimitTold
    FundEnds

-------------------------- MODULE Commands_proofs --------------------------
(***************************************************************************)
(* What the commands tell the customer is true, for every set of files,    *)
(* wallets, balances and failing answers.                                  *)
(***************************************************************************)
EXTENDS Commands, Prices_proofs

\* What the wallet of a command is.
LEMMA SignerType == Signer \in Wallets \cup {NoWallet}
  BY DEF Signer, WalletFromConfig, WalletFromMnemonic

\* The fields of a file with its defaults.
LEMMA Defaults ==
  ASSUME NEW f
  PROVE  /\ applyDefaults(f).mnemonic = f.mnemonic
         /\ applyDefaults(f).mnemonicFile = OrElse(f.mnemonicFile, Blank, ".mnemonic")
         /\ applyDefaults(f).budget = OrElse(f.budget, NoText, Plain(0))
         /\ applyDefaults(f).fee = OrElse(f.fee, NoText, Plain(2000))
  BY DEF applyDefaults

\* A file that loads has amounts that are whole numbers.
LEMMA LoadedAmounts ==
  ASSUME LoadConfig(config)
  PROVE  /\ Loaded.network \in CosmosIds
         /\ Loaded.maxPerCall.n \in Nat /\ Loaded.maxPerCall.n > 0
         /\ Loaded.fee.n \in Nat
         /\ MaxPerCallAmount(Loaded) = Loaded.maxPerCall.n
         /\ feeAmount(Loaded) = Loaded.fee.n
         /\ parseAmount(Loaded.budget) /\ parseAmount(Loaded.fee)
<1>1. validate(Loaded)
  BY DEF LoadConfig, Loaded
<1>2. /\ parseAmount(Loaded.maxPerCall) /\ Loaded.maxPerCall.n > 0
      /\ parseAmount(Loaded.budget) /\ parseAmount(Loaded.fee)
      /\ Loaded.network \in CosmosIds
  BY <1>1 DEF validate
<1> QED
  BY <1>2 DEF parseAmount, MaxPerCallAmount, feeAmount, amountOrZero

\* A text that parseAmount takes and that counts as 0 is a 0.
LEMMA ZeroIsMeant ==
  ASSUME NEW t \in Texts, parseAmount(t), amountOrZero(t) = 0
  PROVE  TrimSpace(t) = Plain(0)
  BY DEF Texts, parseAmount, amountOrZero, TrimSpace, SetString, Plain

\* What a wallet holds.
Holds(w) == IF money[w] = -1 THEN 0 ELSE money[w]

\* The two kinds of failing answers.
LEMMA FailedStatus ==
  ASSUME NEW a \in Failures, a.status # 200
  PROVE  a.status # 404 \/ ~ noAccount(a.error)
  BY FailuresAssumption

LEMMA FailedAnswer ==
  ASSUME NEW a \in Failures, a.status = 200
  PROVE  \/ a.readable = FALSE
         \/ a.network \notin CosmosIds \cup {Blank}
         \/ a.number = NoText
         \/ a.balance = NoText
  BY FailuresAssumption

\* Read takes a failing answer for an error, or it has no balance.
LEMMA FailuresRead ==
  ASSUME NEW network \in CosmosIds, NEW a \in Failures
  PROVE  \/ Read(a, network) = "error"
         \/ a.balance = NoText /\ Read(a, network) = "ok"
<1>1. CASE a.status # 200
  <2>1. a.status # 404 \/ ~ noAccount(a.error)
    BY <1>1, FailedStatus
  <2>2. statusError(a) = "error"
    BY <2>1 DEF statusError
  <2> QED
    BY <1>1, <2>2 DEF Read
<1>2. CASE a.status = 200
  <2>1. Read(a, network) \in {"ok", "error"}
    BY <1>2 DEF Read
  <2>2. CASE a.balance = NoText
    BY <2>1, <2>2
  <2>3. CASE a.readable = FALSE
    BY <1>2, <2>3 DEF Read
  <2>4. CASE a.network \notin CosmosIds \cup {Blank}
    <3>1. a.network \notin {Blank, network}
      BY <2>4
    <3> QED
      BY <1>2, <3>1 DEF Read
  <2>5. CASE a.number = NoText
    BY <1>2, <2>5 DEF Read
  <2>6. \/ a.readable = FALSE
        \/ a.network \notin CosmosIds \cup {Blank}
        \/ a.number = NoText
        \/ a.balance = NoText
    BY <1>2, FailedAnswer
  <2> QED
    BY <2>2, <2>3, <2>4, <2>5, <2>6
<1> QED
  BY <1>1, <1>2

\* A balance that the account route gives is the truth, and no failure of the
\* route gives one.
LEMMA ReadsTruth ==
  ASSUME NEW w \in Wallets, NEW network \in CosmosIds, NEW a \in Says(w),
         readBalance(a, network) # NoText
  PROVE  readBalance(a, network) = Plain(Holds(w))
<1>1. ASSUME a \in Failures PROVE FALSE
  <2>1. CASE Read(a, network) = "error"
    BY <2>1, Zenon DEF readBalance
  <2>2. CASE a.balance = NoText /\ Read(a, network) = "ok"
    BY <2>2, Zenon DEF readBalance
  <2> QED
    BY <1>1, <2>1, <2>2, FailuresRead
<1>2. CASE money[w] = -1
  <2>1. a.status = 404 /\ noAccount(a.error)
    <3>1. PICK p \in Phrases : a = Absent(p)
      BY <1>1, <1>2 DEF Says
    <3>2. a.status = 404 /\ a.error = {p}
      BY <3>1 DEF Absent
    <3> QED
      BY <3>2 DEF noAccount
  <2>2. Read(a, network) = "noAccount"
    BY <2>1 DEF Read, statusError
  <2> QED
    BY <1>2, <2>2 DEF readBalance, Holds
<1>3. CASE money[w] # -1
  <2>1. a.status = 200 /\ a.balance = Plain(money[w])
    <3>1. PICK n : a = Account(n, money[w])
      BY <1>1, <1>3 DEF Says
    <3> QED
      BY <3>1 DEF Account
  <2>2. Read(a, network) = "ok" \/ Read(a, network) = "error"
    BY <2>1 DEF Read
  <2> QED
    BY <1>3, <2>1, <2>2 DEF readBalance, Holds
<1> QED
  BY <1>2, <1>3

\* A quotient of whole numbers.
LEMMA Quotient ==
  ASSUME NEW b \in Nat, NEW c \in Nat \ {0}
  PROVE  /\ b \div c \in Nat /\ b \div c <= b
         /\ (b \div c) * c <= b /\ b < (b \div c + 1) * c
  OBVIOUS

\* A number in the positive half of an int64 fits.
LEMMA FitsInt64 ==
  ASSUME NEW n \in Nat, n < IntSpan \div 2
  PROVE  Int64(n) = n
  BY IntSpanAssumption DEF Int64

\* callsFor is exact.
LEMMA CallsExact ==
  ASSUME NEW balance, NEW maxPerCall, NEW fee,
         balance.n \in Nat, balance.n < IntSpan \div 2,
         maxPerCall.n \in Nat, maxPerCall.n > 0, fee.n \in Nat
  PROVE  LET calls == callsFor(balance, maxPerCall, fee)
             cost == maxPerCall.n + fee.n
         IN  /\ calls \in Nat
             /\ SetString(balance) /\ SetString(maxPerCall) /\ SetString(fee) =>
                  calls * cost <= balance.n /\ balance.n < (calls + 1) * cost
<1> DEFINE cost == maxPerCall.n + fee.n
           q == balance.n \div cost
<1>1. cost \in Nat \ {0} /\ cost > 0
  OBVIOUS
<1>2. q \in Nat /\ q <= balance.n /\ q * cost <= balance.n /\ balance.n < (q + 1) * cost
  BY <1>1, Quotient
<1>3. IntSpan \div 2 \in Int
  BY IntSpanAssumption
<1>4. Int64(q) = q
  <2>1. q < IntSpan \div 2
    BY <1>2, <1>3
  <2> QED
    BY <1>2, <2>1, FitsInt64
<1>5. \/ callsFor(balance, maxPerCall, fee) = q
      \/ /\ callsFor(balance, maxPerCall, fee) = 0
         /\ ~ (SetString(balance) /\ SetString(maxPerCall) /\ SetString(fee))
  BY <1>1, <1>4 DEF callsFor
<1> HIDE DEF q
<1> QED
  BY <1>2, <1>5
-----------------------------------------------------------------------------
\* What the steps do.

\* The commands that only read.
Short == \/ \E noPay \in BOOLEAN : runCheck(noPay) \/ runServe(noPay) \/ runCall(noPay)
         \/ runAddress
         \/ \E cmd \in {"prices", "health"} : runGet(cmd)
         \/ \E cmd \in Names, noPay \in BOOLEAN : Refused(cmd, noPay)

\* What a command that only reads leaves behind.
Answered == /\ UNCHANGED <<files, money, fund>>
            /\ told' = Untold /\ listed' = NoMethods
            /\ last'.end \in {"ok", "error", "taken"}
            /\ \/ UNCHANGED shown
               \/ LoadConfig(config) /\ Signer # NoWallet /\ shown' = Signer

\* A check that is "ok" found a file and, unless noPay is set, a wallet.
Vouched == last'.cmd = "check" /\ last'.end = "ok" =>
               LoadConfig(config) /\ (last'.noPay = TRUE \/ Signer # NoWallet)

\* A serve that ends with an error found no file or no wallet.
Blamed == last'.cmd = "serve" /\ last'.end = "error" =>
              \/ ~ LoadConfig(config)
              \/ last'.noPay = FALSE /\ Signer = NoWallet

\* A command that ends and shows nothing.
LEMMA EndsAnswers ==
  ASSUME NEW cmd, NEW noPay, NEW end \in {"ok", "error", "taken"}, Ends(cmd, noPay, end)
  PROVE  /\ Answered
         /\ last'.cmd = cmd /\ last'.noPay = noPay /\ last'.end = end
  BY DEF Ends, SayOnly, Say, Answered

LEMMA ShowAnswers ==
  ASSUME NEW cmd, NEW noPay, ShowAddress(cmd, noPay), LoadConfig(config)
  PROVE  /\ Answered /\ Signer # NoWallet
         /\ last'.cmd = cmd /\ last'.noPay = noPay /\ last'.end = "ok"
  BY DEF ShowAddress, SayOnly, Say, Answered

LEMMA ShortSteps == Short => Answered /\ Vouched /\ Blamed
<1>1. ASSUME NEW noPay \in BOOLEAN, runCheck(noPay)
      PROVE  Answered /\ Vouched /\ Blamed
  <2>1. LoadConfig(config)
    BY <1>1 DEF runCheck, Ready
  <2>2. CASE Ends("check", noPay, "ok") /\ noPay = TRUE
    BY <2>1, <2>2, EndsAnswers DEF Vouched, Blamed
  <2>3. CASE Ends("check", noPay, "error")
    BY <2>3, EndsAnswers DEF Vouched, Blamed
  <2>4. CASE ShowAddress("check", noPay)
    BY <2>1, <2>4, ShowAnswers DEF Vouched, Blamed
  <2> QED
    BY <1>1, <2>2, <2>3, <2>4 DEF runCheck
<1>2. ASSUME NEW noPay \in BOOLEAN, runServe(noPay)
      PROVE  Answered /\ Vouched /\ Blamed
  <2>1. PICK end \in {"ok", "taken", "error"} :
           /\ Ends("serve", noPay, end)
           /\ end = "error" => noPay = FALSE /\ Signer = NoWallet
    BY <1>2 DEF runServe, newRuntime
  <2> QED
    BY <2>1, EndsAnswers DEF Vouched, Blamed
<1>3. ASSUME NEW noPay \in BOOLEAN, runCall(noPay)
      PROVE  Answered /\ Vouched /\ Blamed
  <2>1. PICK end \in {"ok", "error"} : Ends("call", noPay, end)
    BY <1>3 DEF runCall
  <2> QED
    BY <2>1, EndsAnswers DEF Vouched, Blamed
<1>4. CASE runAddress
  <2>1. LoadConfig(config)
    BY <1>4 DEF runAddress, Ready
  <2>2. CASE Ends("address", FALSE, "error")
    BY <2>2, EndsAnswers DEF Vouched, Blamed
  <2>3. CASE ShowAddress("address", FALSE)
    BY <2>1, <2>3, ShowAnswers DEF Vouched, Blamed
  <2> QED
    BY <1>4, <2>2, <2>3 DEF runAddress
<1>5. ASSUME NEW cmd \in {"prices", "health"}, runGet(cmd)
      PROVE  Answered /\ Vouched /\ Blamed
  <2>1. PICK end \in {"ok", "error"} : Ends(cmd, FALSE, end)
    BY <1>5 DEF runGet
  <2> QED
    BY <2>1, EndsAnswers DEF Vouched, Blamed
<1>6. ASSUME NEW cmd \in Names, NEW noPay \in BOOLEAN, Refused(cmd, noPay)
      PROVE  Answered /\ Vouched /\ Blamed
  <2>1. Ends(cmd, noPay, "error") /\ (cmd = "serve" => ~ LoadConfig(config))
    BY <1>6 DEF Refused
  <2> QED
    BY <2>1, EndsAnswers DEF Vouched, Blamed
<1> QED
  BY <1>1, <1>2, <1>3, <1>4, <1>5, <1>6 DEF Short

\* What every step keeps.
CommandsInv == /\ TypeOK
               /\ FundHolds
               /\ FileTexts
               /\ ShownIsUsed
               /\ CheckHolds
               /\ InitFitsPrices
               /\ ReportExact

\* init leaves a file that says what it wrote, and shows the wallet of the file.
LEMMA InitAnswers ==
  ASSUME TypeOK,
         NEW force \in BOOLEAN, NEW sidecar \in Sidecars, NEW prices \in PriceAnswers,
         runInit(force, sidecar, prices)
  PROVE  /\ secrets' \in [Paths -> Contents]
         /\ fund.step = "none" /\ UNCHANGED <<money, fund>>
         /\ told' = Untold
         /\ last'.cmd = "init" /\ last'.end \in {"ok", "error"}
         /\ FileTexts' /\ ShownIsUsed'
         /\ shown' \in Wallets \cup {NoWallet}
<1>1. /\ fund.step = "none" /\ UNCHANGED <<money, fund>> /\ told' = Untold
  BY DEF runInit
<1>2. PICK m, body :
        /\ m \in Contents
        /\ InitWrites(m, body)
        /\ body.budget = Plain(0) /\ body.fee = NoText
        /\ body.mnemonic = Blank /\ body.mnemonicFile = Blank
  <2>1. PICK m, upstream, network, price :
          /\ m \in IF secrets[".mnemonic"] = NoFile THEN Fresh ELSE {secrets[".mnemonic"]}
          /\ InitWrites(m, configFileBody(upstream, network, price))
    BY DEF runInit
  <2>2. m \in Contents
    BY <2>1, PathsAssumption DEF Fresh, Contents, TypeOK
  <2>3. LET body == configFileBody(upstream, network, price)
        IN  /\ body.budget = Plain(0) /\ body.fee = NoText
            /\ body.mnemonic = Blank /\ body.mnemonicFile = Blank
    BY DEF configFileBody
  <2> QED
    BY <2>1, <2>2, <2>3
<1>3. /\ secrets' \in [Paths -> Contents] /\ secrets'[".mnemonic"] = m
      /\ config' = body
      /\ shown' = IF LoadConfig(body) THEN WalletFromMnemonic(m) ELSE NoWallet
  BY <1>2, PathsAssumption DEF InitWrites, TypeOK
<1>4. last'.cmd = "init" /\ last'.end \in {"ok", "error"}
  BY <1>2 DEF InitWrites, Say
<1>5. Plain(0) \in Texts /\ NoText \in Texts
  BY DEF Plain, NoText, Texts
<1>6. FileTexts'
  BY <1>2, <1>3, <1>5 DEF FileTexts
<1>7. Signer' = WalletFromMnemonic(m)
  <2>1. /\ applyDefaults(body).mnemonic = Blank
        /\ applyDefaults(body).mnemonicFile = ".mnemonic"
    BY <1>2, Defaults DEF OrElse
  <2>2. ReadMnemonic(applyDefaults(body), secrets') = m
    BY <1>3, <2>1 DEF ReadMnemonic
  <2> QED
    BY <1>3, <2>2 DEF Signer, Loaded, WalletFromConfig
<1>8. ShownIsUsed'
  BY <1>3, <1>7 DEF ShownIsUsed
<1>9. shown' \in Wallets \cup {NoWallet}
  BY <1>3 DEF WalletFromMnemonic
<1> QED
  BY <1>1, <1>3, <1>4, <1>6, <1>8, <1>9

\* Half of an int64 holds every balance.
LEMMA BalanceFits ==
  ASSUME TypeOK, NEW w \in Wallets
  PROVE  Holds(w) \in Nat /\ Holds(w) < IntSpan \div 2 /\ (money[w] > 0 <=> Holds(w) > 0)
<1>1. IntSpan \div 2 \in Nat /\ IntSpan \div 2 > 0
  BY IntSpanAssumption
<1>2. money[w] \in Deposits \cup {0, -1}
  BY DEF TypeOK
<1> QED
  BY <1>1, <1>2, SupplyAssumption DEF Holds

\* The three ends of a read of fund.
Failed == /\ fund' = Idle
          /\ UNCHANGED told
          /\ last'.cmd = "fund"
          /\ last'.end \in {"timeout", "error"}
          /\ fund.over = TRUE => last'.end = "timeout"
Funded == /\ fund' = Idle
          /\ told'.balance = Holds(fund.wallet)
          /\ told'.wallet = fund.wallet
          /\ told'.cfg = Loaded
          /\ told'.calls \in Nat
          /\ last'.cmd = "fund" /\ last'.end = "ok"
          /\ ReportExact'
Waits == /\ fund' = [step |-> "wait", over |-> fund.over,
                     wallet |-> fund.wallet, cfg |-> fund.cfg]
         /\ UNCHANGED last
         /\ \/ UNCHANGED told
            \/ told' = [balance |-> 0, calls |-> 0, wallet |-> fund.wallet, cfg |-> NoFile]
         /\ Holds(fund.wallet) = 0

LEMMA FundReadEnds ==
  ASSUME CommandsInv, fund.step # "none", NEW a \in Says(fund.wallet),
         FundReads(readBalance(a, fund.cfg.network))
  PROVE  Failed \/ Funded \/ Waits
<1> DEFINE balance == readBalance(a, fund.cfg.network)
           w == fund.wallet
<1>1. LoadConfig(config) /\ fund.cfg = Loaded /\ w = Signer /\ w \in Wallets
  BY SignerType DEF CommandsInv, FundHolds
<1>2. fund.cfg.network \in CosmosIds
  BY <1>1, LoadedAmounts
<1>3. balance # NoText => balance = Plain(Holds(w))
  BY <1>1, <1>2, ReadsTruth
<1>4. Holds(w) \in Nat /\ Holds(w) < IntSpan \div 2
  BY <1>1, BalanceFits DEF CommandsInv
<1> HIDE DEF balance
<1>5. CASE /\ balance = NoText
           /\ FundSays(IF fund.over THEN "timeout" ELSE "error")
           /\ UNCHANGED told
  BY <1>5 DEF FundSays, Say, Failed
<1>6. CASE /\ isAbove0(balance)
           /\ Tell(balance, callsFor(balance, fund.cfg.maxPerCall, fund.cfg.fee), w, fund.cfg)
           /\ FundSays("ok")
  <2>1. balance = Plain(Holds(w))
    BY <1>3, <1>6 DEF isAbove0, NoText, SetString
  <2>2. balance.n = Holds(w) /\ SetString(balance)
    BY <2>1 DEF Plain, SetString
  <2> DEFINE calls == callsFor(balance, Loaded.maxPerCall, Loaded.fee)
             cost == Loaded.maxPerCall.n + Loaded.fee.n
  <2>3. told' = [balance |-> Holds(w), calls |-> calls, wallet |-> w, cfg |-> Loaded]
    BY <1>1, <1>6, <2>2 DEF Tell
  <2>4. /\ calls \in Nat
        /\ SetString(Loaded.maxPerCall) /\ SetString(Loaded.fee) =>
             calls * cost <= Holds(w) /\ Holds(w) < (calls + 1) * cost
    BY <1>1, <1>4, <2>2, LoadedAmounts, CallsExact
  <2>5. cost = MaxPerCallAmount(Loaded) + feeAmount(Loaded)
    BY <1>1, LoadedAmounts
  <2> HIDE DEF calls, cost
  <2>6. ReportExact'
    BY <2>3, <2>4, <2>5 DEF ReportExact, SetString
  <2> QED
    BY <1>6, <2>3, <2>4, <2>6 DEF FundSays, Say, Funded
<1>7. CASE /\ balance # NoText /\ ~ isAbove0(balance)
           /\ Fund("wait", fund.over, fund.wallet, fund.cfg)
           /\ \/ fund.step = "first" /\ Tell(balance, 0, fund.wallet, NoFile)
              \/ fund.step # "first" /\ UNCHANGED told
           /\ UNCHANGED last
  <2>1. balance.n = Holds(w) /\ SetString(balance)
    BY <1>3, <1>7 DEF SetString, Plain
  <2>2. Holds(w) = 0
    BY <1>4, <1>7, <2>1 DEF isAbove0
  <2>3. \/ UNCHANGED told
        \/ told' = [balance |-> 0, calls |-> 0, wallet |-> w, cfg |-> NoFile]
    BY <1>7, <2>1, <2>2 DEF Tell
  <2> QED
    BY <1>7, <2>2, <2>3 DEF Fund, Waits
<1> QED
  BY <1>5, <1>6, <1>7 DEF FundReads, balance
-----------------------------------------------------------------------------
\* The invariant.

\* What the commands load from the files, and the wallet that was shown for them,
\* are as before.
Steady == /\ LoadConfig(config)' = LoadConfig(config)
          /\ Loaded' = Loaded /\ Signer' = Signer
          /\ FileTexts' /\ ShownIsUsed'
          /\ secrets' \in [Paths -> Contents]
          /\ shown' \in Wallets \cup {NoWallet}

\* That is so while the files stay as they are.
LEMMA FilesStay ==
  ASSUME CommandsInv, UNCHANGED files,
         \/ UNCHANGED shown
         \/ LoadConfig(config) /\ shown' = Signer
  PROVE  Steady
<1>1. UNCHANGED <<config, secrets>>
  BY DEF files
<1>2. LoadConfig(config)' = LoadConfig(config) /\ Loaded' = Loaded /\ Signer' = Signer
  BY <1>1 DEF Loaded, Signer
<1>3. FileTexts'
  BY <1>1 DEF CommandsInv, FileTexts
<1>4. ShownIsUsed'
  BY <1>2 DEF CommandsInv, ShownIsUsed
<1>5. secrets' \in [Paths -> Contents] /\ shown' \in Wallets \cup {NoWallet}
  BY <1>1, SignerType DEF CommandsInv, TypeOK
<1> QED
  BY <1>2, <1>3, <1>4, <1>5 DEF Steady

\* Nothing told, nothing to be exact about.
LEMMA UntoldExact ==
  ASSUME told' = Untold
  PROVE  ReportExact' /\ told'.balance \in Nat /\ told'.calls \in Nat
  BY DEF Untold, ReportExact

\* The price list that init read is about the file that it wrote, or forgotten.
LEMMA PricesHold ==
  ASSUME CommandsInv,
         \/ listed' = NoMethods
         \/ last'.cmd # "init"
         \/ UNCHANGED <<last, listed>> /\ Loaded' = Loaded
  PROVE  InitFitsPrices'
  BY DEF CommandsInv, InitFitsPrices

\* A command that only reads keeps the invariant.
LEMMA ShortKeeps == CommandsInv /\ Short => CommandsInv'
<1> SUFFICES ASSUME CommandsInv, Short
             PROVE  CommandsInv'
  OBVIOUS
<1>0. Answered /\ Vouched
  BY ShortSteps
<1>1. /\ UNCHANGED files
      /\ UNCHANGED shown \/ (LoadConfig(config) /\ shown' = Signer)
  BY <1>0 DEF Answered
<1>2. Steady
  BY <1>1, FilesStay
<1>3. ReportExact' /\ told'.balance \in Nat /\ told'.calls \in Nat
  BY <1>0, UntoldExact DEF Answered
<1>4. TypeOK'
  BY <1>0, <1>2, <1>3 DEF Steady, Answered, CommandsInv, TypeOK
<1>5. FundHolds'
  BY <1>0, <1>2 DEF Steady, Answered, CommandsInv, FundHolds
<1>6. CheckHolds'
  BY <1>0, <1>2 DEF Steady, Vouched, CheckHolds
<1>7. InitFitsPrices'
  BY <1>0, PricesHold DEF Answered
<1> QED
  BY <1>2, <1>3, <1>4, <1>5, <1>6, <1>7 DEF Steady, CommandsInv

\* So does a command that ends with an error.
LEMMA ErrorKeeps ==
  ASSUME CommandsInv, NEW cmd, cmd # "check", Ends(cmd, FALSE, "error")
  PROVE  CommandsInv'
<1>1. Answered /\ last'.cmd = cmd
  BY EndsAnswers
<1>2. Steady
  BY <1>1, FilesStay DEF Answered
<1>3. ReportExact' /\ told'.balance \in Nat /\ told'.calls \in Nat
  BY <1>1, UntoldExact DEF Answered
<1>4. TypeOK' /\ FundHolds'
  BY <1>1, <1>2, <1>3 DEF Steady, Answered, CommandsInv, TypeOK, FundHolds
<1>5. CheckHolds'
  BY <1>1 DEF CheckHolds
<1>6. InitFitsPrices'
  BY <1>1, PricesHold DEF Answered
<1> QED
  BY <1>2, <1>3, <1>4, <1>5, <1>6 DEF Steady, CommandsInv

\* The limit that init writes is the highest price of the list that it read.
LEMMA InitFits ==
  ASSUME NEW force \in BOOLEAN, NEW sidecar \in Sidecars, NEW prices \in PriceAnswers,
         runInit(force, sidecar, prices)
  PROVE  InitFitsPrices'
<1> SUFFICES ASSUME last'.end = "ok", listed' # NoMethods
             PROVE  /\ \A m \in Priced(listed', DOMAIN listed') :
                           listed'[m].n <= MaxPerCallAmount(Loaded')
                    /\ Priced(listed', DOMAIN listed') # {} =>
                          \E m \in Priced(listed', DOMAIN listed') :
                             listed'[m].n = MaxPerCallAmount(Loaded')
  BY DEF InitFitsPrices, Priced
<1> DEFINE methods == prices.methods
           price == InitPrice(prices)
<1>1. prices.ok /\ listed' = methods
  BY DEF runInit
<1>2. PICK words, upstream :
        InitWrites(words, configFileBody(upstream, InitNetwork(prices), price))
  BY DEF runInit
<1> DEFINE body == configFileBody(upstream, InitNetwork(prices), price)
<1>3. config' = body /\ LoadConfig(body)
  BY <1>2, WalletsAssumption DEF InitWrites, Say, WalletFromMnemonic
<1>4. MaxPerCallAmount(Loaded') = price
  <2>1. Loaded'.maxPerCall = OrElse(Plain(price), NoText, Plain(20000))
    <3>1. body.maxPerCall = Plain(price)
      BY DEF configFileBody
    <3> HIDE DEF body
    <3> QED
      BY <1>3, <3>1 DEF Loaded, applyDefaults
  <2>2. Loaded'.maxPerCall = Plain(price)
    BY <2>1 DEF OrElse, Plain, NoText
  <2>3. parseAmount(Loaded'.maxPerCall)
    BY <1>3 DEF LoadConfig, Loaded, validate
  <2> QED
    BY <2>2, <2>3 DEF MaxPerCallAmount, amountOrZero, Plain
<1>5. PriceList(methods)
  BY <1>1, PricesAssumption
<1>6. Highest(methods, DOMAIN methods, costliest(methods))
  BY <1>5, CostliestIsHighest
<1>7. \A m \in Priced(methods, DOMAIN methods) : methods[m].n \in Int /\ methods[m].n > 0
  BY <1>5 DEF PriceList, Priced, Texts
<1>8. \/ price = costliest(methods)
      \/ costliest(methods) = 0
  BY <1>1, <1>6 DEF InitPrice, Highest
<1>9. costliest(methods) = 0 => Priced(methods, DOMAIN methods) = {}
  BY <1>6, <1>7 DEF Highest
<1>10. Priced(methods, DOMAIN methods) # {} =>
         \E m \in Priced(methods, DOMAIN methods) : methods[m].n = costliest(methods)
  BY <1>6, <1>9 DEF Highest
<1> HIDE DEF methods, price
<1> QED
  BY <1>1, <1>4, <1>6, <1>8, <1>9, <1>10 DEF Highest

\* So does init.
LEMMA InitKeeps ==
  ASSUME CommandsInv,
         NEW force \in BOOLEAN, NEW sidecar \in Sidecars, NEW prices \in PriceAnswers,
         runInit(force, sidecar, prices)
  PROVE  CommandsInv'
<1>1. /\ secrets' \in [Paths -> Contents]
      /\ fund.step = "none" /\ UNCHANGED <<money, fund>>
      /\ told' = Untold
      /\ last'.cmd = "init" /\ last'.end \in {"ok", "error"}
      /\ FileTexts' /\ ShownIsUsed'
      /\ shown' \in Wallets \cup {NoWallet}
  BY InitAnswers DEF CommandsInv
<1>2. ReportExact' /\ told'.balance \in Nat /\ told'.calls \in Nat
  BY <1>1, UntoldExact
<1>3. TypeOK'
  BY <1>1, <1>2 DEF CommandsInv, TypeOK
<1>4. FundHolds'
  BY <1>1 DEF CommandsInv, FundHolds
<1>5. CheckHolds'
  BY <1>1 DEF CheckHolds
<1>6. InitFitsPrices'
  BY InitFits
<1> QED
  BY <1>1, <1>2, <1>3, <1>4, <1>5, <1>6 DEF CommandsInv

\* So does an edit.
LEMMA EditKeeps == CommandsInv /\ Edit => CommandsInv'
<1> SUFFICES ASSUME CommandsInv, Edit
             PROVE  CommandsInv'
  OBVIOUS
<1>1. /\ fund.step = "none" /\ UNCHANGED <<money, fund>>
      /\ told' = Untold /\ shown' = NoWallet /\ last' = Nothing
      /\ listed' = NoMethods
  BY DEF Edit
<1>2. secrets' \in [Paths -> Contents]
  BY DEF Edit, CommandsInv, TypeOK
<1>3. FileTexts'
  BY ConfigFilesAssumption DEF Edit, CommandsInv, FileTexts
<1>4. ReportExact' /\ told'.balance \in Nat /\ told'.calls \in Nat
  BY <1>1, UntoldExact
<1>5. TypeOK'
  BY <1>1, <1>2, <1>4 DEF Nothing, CommandsInv, TypeOK
<1>6. FundHolds' /\ CheckHolds' /\ ShownIsUsed'
  BY <1>1 DEF Nothing, CommandsInv, FundHolds, CheckHolds, ShownIsUsed
<1>7. InitFitsPrices'
  BY <1>1, PricesHold
<1> QED
  BY <1>3, <1>4, <1>5, <1>6, <1>7 DEF CommandsInv

\* So does balance.
LEMMA BalanceKeeps == CommandsInv /\ runBalance => CommandsInv'
<1> SUFFICES ASSUME CommandsInv, runBalance
             PROVE  CommandsInv'
  OBVIOUS
<1>1. LoadConfig(config) /\ fund.step = "none"
  BY DEF runBalance, Ready
<1>2. CASE Ends("balance", FALSE, "error")
  BY <1>2, ErrorKeeps
<1>3. CASE Signer # NoWallet /\ ~ Ends("balance", FALSE, "error")
  <2>1. PICK a \in Says(Signer) :
          /\ readBalance(a, Loaded.network) # NoText
          /\ Tell(readBalance(a, Loaded.network), 0, Signer, NoFile)
          /\ shown' = Signer
          /\ Say("balance", FALSE, "ok")
          /\ UNCHANGED <<files, money, fund>>
    BY <1>3 DEF runBalance
  <2>2. Steady
    BY <1>1, <2>1, FilesStay
  <2>3. readBalance(a, Loaded.network) = Plain(Holds(Signer)) /\ Holds(Signer) \in Nat
    BY <1>1, <1>3, <2>1, SignerType, LoadedAmounts, ReadsTruth, BalanceFits
    DEF CommandsInv
  <2>4. told'.balance = Holds(Signer) /\ told'.calls = 0 /\ told'.cfg = NoFile
    BY <2>1, <2>3 DEF Tell, Plain
  <2>5. last'.cmd = "balance" /\ last'.end = "ok"
    BY <2>1 DEF Say
  <2>6. TypeOK' /\ FundHolds'
    BY <2>1, <2>2, <2>3, <2>4, <2>5 DEF Steady, CommandsInv, TypeOK, FundHolds
  <2>7. CheckHolds' /\ ReportExact'
    BY <2>4, <2>5 DEF CheckHolds, ReportExact
  <2>8. InitFitsPrices'
    BY <2>5, PricesHold
  <2> QED
    BY <2>2, <2>6, <2>7, <2>8 DEF Steady, CommandsInv
<1> QED
  BY <1>2, <1>3 DEF runBalance

\* So does fund.
LEMMA FundKeeps == CommandsInv /\ (runFund \/ FundStep \/ FundLimit) => CommandsInv'
<1> SUFFICES ASSUME CommandsInv, runFund \/ FundStep \/ FundLimit
             PROVE  CommandsInv'
  OBVIOUS
<1>1. CASE runFund /\ Ends("fund", FALSE, "error")
  BY <1>1, ErrorKeeps
<1>2. CASE runFund /\ ~ Ends("fund", FALSE, "error")
  <2>1. /\ LoadConfig(config) /\ Signer # NoWallet
        /\ fund' = [step |-> "first", over |-> FALSE, wallet |-> Signer, cfg |-> Loaded]
        /\ last' = Nothing /\ listed' = NoMethods
        /\ told' = Untold
        /\ UNCHANGED <<files, money, shown>>
    BY <1>2 DEF runFund, Ready, Fund
  <2>2. Steady
    BY <2>1, FilesStay
  <2>3. ReportExact' /\ told'.balance \in Nat /\ told'.calls \in Nat
    BY <2>1, UntoldExact
  <2>4. TypeOK'
    BY <2>1, <2>2, <2>3, SignerType DEF Steady, Nothing, CommandsInv, TypeOK
  <2>5. FundHolds'
    BY <2>1, <2>2 DEF Steady, FundHolds
  <2>6. CheckHolds'
    BY <2>1 DEF Nothing, CheckHolds
  <2>7. InitFitsPrices'
    BY <2>1, PricesHold
  <2> QED
    BY <2>2, <2>3, <2>4, <2>5, <2>6, <2>7 DEF Steady, CommandsInv
<1>3. ASSUME fund.step # "none", Failed \/ Funded \/ Waits,
             UNCHANGED <<files, money, listed>>,
             shown' = shown \/ shown' = fund.wallet
      PROVE  CommandsInv'
  <2>1. /\ LoadConfig(config) /\ fund.cfg = Loaded
        /\ fund.wallet = Signer /\ Signer # NoWallet
    BY <1>3 DEF CommandsInv, FundHolds
  <2>2. Steady
    BY <1>3, <2>1, FilesStay
  <2>3. fund' = Idle \/ Waits
    BY <1>3 DEF Failed, Funded
  <2>4. FundHolds'
    BY <2>1, <2>2, <2>3 DEF Steady, Waits, Idle, FundHolds
  <2>5. ReportExact' /\ told'.balance \in Nat /\ told'.calls \in Nat
    <3>1. CASE Funded
      BY <2>1, <3>1, SignerType, BalanceFits DEF Funded, CommandsInv
    <3>2. CASE UNCHANGED told
      BY <3>2 DEF CommandsInv, TypeOK, ReportExact
    <3>3. CASE told' = [balance |-> 0, calls |-> 0, wallet |-> fund.wallet, cfg |-> NoFile]
      BY <3>3 DEF ReportExact
    <3> QED
      BY <1>3, <3>1, <3>2, <3>3 DEF Failed, Waits
  <2>6. \/ last'.cmd = "fund" /\ last'.end \in {"ok", "timeout", "error"}
        \/ UNCHANGED last
    BY <1>3 DEF Failed, Funded, Waits
  <2>7. CheckHolds'
    BY <2>2, <2>6 DEF Steady, CommandsInv, CheckHolds
  <2>8. /\ fund'.step \in {"none", "first", "wait", "read"} /\ fund'.over \in BOOLEAN
        /\ fund'.wallet \in Wallets \cup {NoWallet}
    <3>1. CASE fund' = Idle
      BY <3>1 DEF Idle
    <3>2. CASE Waits
      BY <3>2 DEF Waits, CommandsInv, TypeOK
    <3> QED
      BY <2>3, <3>1, <3>2
  <2>9. last'.end \in {"none", "ok", "error", "taken", "timeout"}
    BY <2>6 DEF CommandsInv, TypeOK
  <2>10. TypeOK'
    BY <1>3, <2>2, <2>5, <2>8, <2>9 DEF Steady, CommandsInv, TypeOK
  <2>11. InitFitsPrices'
    BY <1>3, <2>2, <2>6, PricesHold DEF Steady
  <2> QED
    BY <2>2, <2>4, <2>5, <2>7, <2>10, <2>11 DEF Steady, CommandsInv
<1>4. CASE FundFirst
  <2>1. PICK a \in Says(fund.wallet) :
          /\ FundReads(readBalance(a, fund.cfg.network))
          /\ shown' = shown \/ shown' = fund.wallet
    BY <1>4 DEF FundFirst
  <2>2. fund.step # "none" /\ UNCHANGED <<files, money, listed>>
    BY <1>4 DEF FundFirst
  <2> QED
    BY <1>3, <2>1, <2>2, FundReadEnds
<1>5. CASE FundRead
  <2>1. PICK a \in Says(fund.wallet) : FundReads(readBalance(a, fund.cfg.network))
    BY <1>5 DEF FundRead
  <2>2. fund.step # "none" /\ UNCHANGED <<files, money, shown, listed>>
    BY <1>5 DEF FundRead
  <2> QED
    BY <1>3, <2>1, <2>2, FundReadEnds
<1>6. CASE FundTimeout
  <2>1. Failed /\ fund.step # "none" /\ UNCHANGED <<files, money, shown, listed>>
    BY <1>6 DEF FundTimeout, FundSays, Say, Failed
  <2> QED
    BY <1>3, <2>1
<1>7. CASE FundTick \/ FundLimit
  <2>1. /\ fund.step # "none" /\ UNCHANGED <<files, money, last, shown, listed, told>>
        /\ \E step \in {"wait", "read"}, over \in BOOLEAN :
             fund' = [step |-> step, over |-> over,
                      wallet |-> fund.wallet, cfg |-> fund.cfg]
    BY <1>7 DEF FundTick, FundLimit, Fund, answers, CommandsInv, TypeOK
  <2>2. Steady
    BY <2>1, FilesStay
  <2>3. FundHolds' /\ CheckHolds'
    BY <2>1, <2>2 DEF Steady, CommandsInv, FundHolds, CheckHolds
  <2>4. TypeOK' /\ ReportExact'
    BY <2>1, <2>2 DEF Steady, CommandsInv, TypeOK, ReportExact
  <2>5. InitFitsPrices'
    BY <2>1, <2>2, PricesHold DEF Steady
  <2> QED
    BY <2>2, <2>3, <2>4, <2>5 DEF Steady, CommandsInv
<1> QED
  BY <1>1, <1>2, <1>4, <1>5, <1>6, <1>7 DEF FundStep

\* Money moves without the commands.
LEMMA TransferKeeps ==
  ASSUME CommandsInv, UNCHANGED vars \/ \E w \in Wallets : Transfer(w)
  PROVE  CommandsInv'
<1>1. UNCHANGED <<files, fund, last, shown, listed, told>>
  BY DEF Transfer, vars, answers
<1>2. money' \in [Wallets -> Deposits \cup {0, -1}]
  BY DEF CommandsInv, TypeOK, Transfer, vars
<1>3. Steady
  BY <1>1, FilesStay
<1>4. FundHolds' /\ CheckHolds'
  BY <1>1, <1>3 DEF Steady, CommandsInv, FundHolds, CheckHolds
<1>5. TypeOK' /\ ReportExact'
  BY <1>1, <1>2, <1>3 DEF Steady, CommandsInv, TypeOK, ReportExact
<1>6. InitFitsPrices'
  BY <1>1, <1>3, PricesHold DEF Steady
<1> QED
  BY <1>3, <1>4, <1>5, <1>6 DEF Steady, CommandsInv

\* Every step keeps the invariant.
LEMMA CommandsStep == CommandsInv /\ [Next]_vars => CommandsInv'
<1> SUFFICES ASSUME CommandsInv, [Next]_vars
             PROVE  CommandsInv'
  OBVIOUS
<1>1. \/ Short \/ runBalance \/ Edit \/ runFund \/ FundStep \/ FundLimit
      \/ \E force \in BOOLEAN, sidecar \in Sidecars, prices \in PriceAnswers :
             runInit(force, sidecar, prices)
      \/ \E w \in Wallets : Transfer(w)
      \/ UNCHANGED vars
  BY DEF Next, run, Short
<1> QED
  BY <1>1, ShortKeeps, InitKeeps, EditKeeps, BalanceKeeps, FundKeeps, TransferKeeps

LEMMA CommandsInit == Init => CommandsInv
<1> SUFFICES ASSUME Init
             PROVE  CommandsInv
  OBVIOUS
<1>1. config = NoFile /\ fund = Idle /\ last = Nothing /\ shown = NoWallet /\ told = Untold
  BY DEF Init
<1>2. TypeOK
  BY <1>1 DEF Init, Idle, Nothing, Untold, Contents, TypeOK
<1> QED
  BY <1>1, <1>2 DEF Idle, Nothing, Untold, FundHolds, FileTexts, ShownIsUsed, CheckHolds,
                    InitFitsPrices, ReportExact, CommandsInv

LEMMA CommandsInvariant == Spec => []CommandsInv
  BY CommandsInit, CommandsStep, PTL DEF Spec
-----------------------------------------------------------------------------
\* The theorems.  FairSpec implies Spec.

\* Every state of the commands has its type: in particular no balance and no
\* number of calls that is printed is below 0, whatever Int64 does.
THEOREM CommandTypes == Spec => []TypeOK
<1>1. CommandsInv => TypeOK
  BY DEF CommandsInv
<1> QED
  BY <1>1, CommandsInvariant, PTL

\* The address that init, check, address, balance or fund showed last is the
\* address that serve and call sign with, until a file is edited.
THEOREM ShownSigns == Spec => []ShownIsUsed
<1>1. CommandsInv => ShownIsUsed
  BY DEF CommandsInv
<1> QED
  BY <1>1, CommandsInvariant, PTL

\* In a file that LoadConfig takes, an amount that counts as 0 was written as
\* 0, or left out where 0 is the default.
THEOREM LimitsAreMeant == Spec => []LoadedMoney
<1>1. FileTexts => LoadedMoney
  <2> SUFFICES ASSUME FileTexts, LoadConfig(config)
               PROVE  /\ MaxPerCallAmount(Loaded) > 0
                      /\ BudgetAmount(Loaded) = 0 => TrimSpace(Loaded.budget) = Plain(0)
                      /\ feeAmount(Loaded) # FeeError
                      /\ feeAmount(Loaded) = 0 => TrimSpace(Loaded.fee) = Plain(0)
    BY DEF LoadedMoney
  <2>1. config.budget \in Texts /\ config.fee \in Texts
    BY DEF FileTexts, LoadConfig
  <2>2. Plain(0) \in Texts /\ Plain(2000) \in Texts
    BY DEF Plain, Texts
  <2>3. Loaded.budget \in Texts /\ Loaded.fee \in Texts
    <3>1. /\ Loaded.budget = OrElse(config.budget, NoText, Plain(0))
          /\ Loaded.fee = OrElse(config.fee, NoText, Plain(2000))
      BY DEF Loaded, applyDefaults
    <3> QED
      BY <2>1, <2>2, <3>1 DEF OrElse
  <2>4. parseAmount(Loaded.budget) /\ parseAmount(Loaded.fee)
    BY LoadedAmounts
  <2>5. feeAmount(Loaded) = amountOrZero(Loaded.fee) /\ feeAmount(Loaded) # FeeError
    BY <2>4, LoadedAmounts DEF feeAmount, amountOrZero, FeeError
  <2> QED
    BY <2>3, <2>4, <2>5, LoadedAmounts, ZeroIsMeant DEF BudgetAmount
<1> QED
  BY <1>1, CommandsInvariant, PTL DEF CommandsInv

\* The number of calls that fund prints is the largest that the balance pays for,
\* for every balance that fits in the positive half of an int64.
THEOREM CallsAreExact == Spec => []ReportExact
<1>1. CommandsInv => ReportExact
  BY DEF CommandsInv
<1> QED
  BY <1>1, CommandsInvariant, PTL

\* The limit that init writes admits each method of the price list that it read,
\* and no more than the costliest of them, in whatever order costliest meets them.
THEOREM LimitFitsPrices == Spec => []InitFitsPrices
<1>1. CommandsInv => InitFitsPrices
  BY DEF CommandsInv
<1> QED
  BY <1>1, CommandsInvariant, PTL

\* The kinds of steps, for the action properties.
Long == runBalance \/ runFund \/ FundFirst \/ FundRead \/ FundTimeout \/ FundTick \/ FundLimit
Quiet == /\ UNCHANGED fund
         /\ told' \in {told, Untold}
         /\ UNCHANGED last \/ last'.cmd \in {"init", "none"}

LEMMA StepKinds ==
  ASSUME CommandsInv, [Next]_vars
  PROVE  Short \/ Long \/ Quiet
<1>1. ASSUME NEW force \in BOOLEAN, NEW sidecar \in Sidecars, NEW prices \in PriceAnswers,
             runInit(force, sidecar, prices)
      PROVE  Quiet
  BY <1>1, InitAnswers DEF CommandsInv, Quiet
<1>2. CASE Edit
  BY <1>2 DEF Edit, Nothing, Quiet
<1>3. CASE UNCHANGED vars \/ \E w \in Wallets : Transfer(w)
  BY <1>3 DEF Transfer, vars, answers, Quiet
<1> QED
  BY <1>1, <1>2, <1>3 DEF Next, run, FundStep, Short, Long

\* What a step of fund does.
LEMMA FundSteps ==
  ASSUME CommandsInv, FundFirst \/ FundRead \/ FundTimeout
  PROVE  fund.step # "none" /\ (Failed \/ Funded \/ (Waits /\ fund.step # "wait"))
<1>1. CASE FundFirst \/ FundRead
  <2>1. PICK a \in Says(fund.wallet) : FundReads(readBalance(a, fund.cfg.network))
    BY <1>1 DEF FundFirst, FundRead
  <2>2. fund.step \in {"first", "read"}
    BY <1>1 DEF FundFirst, FundRead
  <2> QED
    BY <2>1, <2>2, FundReadEnds
<1>2. CASE FundTimeout
  BY <1>2 DEF FundTimeout, FundSays, Say, Failed
<1> QED
  BY <1>1, <1>2

\* What balance does.
LEMMA BalanceSteps ==
  ASSUME CommandsInv, runBalance
  PROVE  /\ UNCHANGED fund /\ fund.step = "none" /\ last'.cmd = "balance"
         /\ told' = Untold \/ told'.balance = Holds(told'.wallet)
<1>1. LoadConfig(config) /\ fund.step = "none"
  BY DEF runBalance, Ready
<1>2. CASE Ends("balance", FALSE, "error")
  BY <1>1, <1>2, EndsAnswers DEF Answered
<1>3. CASE Signer # NoWallet /\ ~ Ends("balance", FALSE, "error")
  <2>1. PICK a \in Says(Signer) :
          /\ readBalance(a, Loaded.network) # NoText
          /\ Tell(readBalance(a, Loaded.network), 0, Signer, NoFile)
          /\ Say("balance", FALSE, "ok")
          /\ UNCHANGED <<files, money, fund>>
    BY <1>3 DEF runBalance
  <2>2. readBalance(a, Loaded.network) = Plain(Holds(Signer))
    BY <1>1, <1>3, <2>1, SignerType, LoadedAmounts, ReadsTruth
  <2>3. told'.balance = Holds(told'.wallet)
    BY <2>1, <2>2 DEF Tell, Plain
  <2> QED
    BY <1>1, <2>1, <2>3 DEF Say
<1> QED
  BY <1>2, <1>3 DEF runBalance

\* What the start, a tick and the limit of fund do.
LEMMA FundGoesOn ==
  ASSUME CommandsInv, runFund \/ FundTick \/ FundLimit
  PROVE  /\ told' \in {told, Untold}
         /\ UNCHANGED last \/ last'.cmd \in {"fund", "none"}
         /\ fund'.step = "wait" => fund.step = "wait"
         /\ fund'.step = "none" => fund.over = FALSE
<1>1. CASE runFund /\ Ends("fund", FALSE, "error")
  <2>1. fund.step = "none" /\ fund.over = FALSE
    BY <1>1 DEF runFund, Ready, CommandsInv, FundHolds
  <2>2. Answered /\ last'.cmd = "fund"
    BY <1>1, EndsAnswers
  <2> QED
    BY <2>1, <2>2 DEF Answered
<1>2. CASE runFund /\ ~ Ends("fund", FALSE, "error")
  <2>1. /\ fund' = [step |-> "first", over |-> FALSE, wallet |-> Signer, cfg |-> Loaded]
        /\ last' = Nothing /\ told' = Untold
    BY <1>2 DEF runFund, Fund
  <2> QED
    BY <2>1 DEF Nothing
<1>3. CASE FundTick
  BY <1>3 DEF FundTick, Fund, answers
<1>4. CASE FundLimit
  BY <1>4 DEF FundLimit, Fund, answers
<1> QED
  BY <1>1, <1>2, <1>3, <1>4

\* After check said that the configuration is correct, serve with the same flag
\* is not stopped by the file or by the wallet.
THEOREM CheckIsEnough == Spec => CheckedStarts
<1>1. CommandsInv /\ [Next]_vars =>
        [last.cmd = "check" /\ last.end = "ok" /\ last'.cmd = "serve"
            /\ last'.noPay = last.noPay => last'.end # "error"]_vars
  <2> SUFFICES ASSUME CommandsInv, [Next]_vars,
                      last.cmd = "check", last.end = "ok", last'.cmd = "serve",
                      last'.noPay = last.noPay
               PROVE  last'.end # "error"
    OBVIOUS
  <2>1. LoadConfig(config) /\ (last.noPay = TRUE \/ Signer # NoWallet)
    BY DEF CommandsInv, CheckHolds
  <2>2. Short
    <3>1. ASSUME Long PROVE FALSE
      BY <3>1, BalanceSteps, FundSteps, FundGoesOn DEF Long, Failed, Funded, Waits
    <3> QED
      BY <3>1, StepKinds DEF Quiet
  <2> QED
    BY <2>1, <2>2, ShortSteps DEF Blamed
<1> QED
  BY <1>1, CommandsInvariant, PTL DEF Spec, CheckedStarts

\* Every balance that balance or fund prints is what the wallet holds on the
\* chain at that moment, and no failed answer of the account route is printed.
THEOREM PrintsTheTruth == Spec => BalanceTrue
<1>1. CommandsInv /\ [Next]_vars =>
        [told' \notin {told, Untold} => told'.balance = IF money[told'.wallet] = -1 THEN 0
                                         ELSE money[told'.wallet]]_vars
  <2> SUFFICES ASSUME CommandsInv, [Next]_vars, told' \notin {told, Untold}
               PROVE  told'.balance = Holds(told'.wallet)
    BY DEF Holds
  <2>1. CASE Short
    BY <2>1, ShortSteps DEF Answered
  <2>2. CASE Waits \/ Failed \/ Funded
    BY <2>2 DEF Failed, Funded, Waits
  <2>3. CASE Long
    BY <2>2, <2>3, BalanceSteps, FundSteps, FundGoesOn DEF Long
  <2> QED
    BY <2>1, <2>3, StepKinds DEF Quiet
<1> QED
  BY <1>1, CommandsInvariant, PTL DEF Spec, BalanceTrue

\* fund only starts to wait after an answer that was given while the wallet
\* held nothing.
THEOREM WaitsForMoney == Spec => WaitsOnZero
<1>1. CommandsInv /\ [Next]_vars =>
        [fund'.step = "wait" /\ fund.step # "wait" => money[fund.wallet] <= 0]_vars
  <2> SUFFICES ASSUME CommandsInv, [Next]_vars, fund'.step = "wait", fund.step # "wait"
               PROVE  money[fund.wallet] <= 0
    OBVIOUS
  <2>1. FundFirst \/ FundRead \/ FundTimeout
    <3>1. CASE Short
      BY <3>1, ShortSteps DEF Answered
    <3> QED
      BY <3>1, StepKinds, BalanceSteps, FundGoesOn DEF Quiet, Long
  <2>2. Waits /\ fund.step # "none"
    <3>1. (Failed \/ Funded \/ Waits) /\ fund.step # "none"
      BY <2>1, FundSteps
    <3>2. fund' # Idle
      BY DEF Idle
    <3> QED
      BY <3>1, <3>2 DEF Failed, Funded
  <2>3. fund.wallet \in Wallets
    BY <2>2, SignerType DEF CommandsInv, FundHolds
  <2>4. money[fund.wallet] \in Deposits \cup {0, -1} /\ Holds(fund.wallet) = 0
    BY <2>2, <2>3 DEF Waits, CommandsInv, TypeOK
  <2> QED
    BY <2>4, IntSpanAssumption, SupplyAssumption DEF Holds
<1> QED
  BY <1>1, CommandsInvariant, PTL DEF Spec, WaitsOnZero

\* When fund ends after its time limit, it has found money or names the limit,
\* whichever of the limit and the answer of a read came first.
THEOREM LimitIsNamed == Spec => LimitTold
<1>1. CommandsInv /\ [Next]_vars =>
        [fund.over /\ fund'.step = "none" => last'.end \in {"ok", "timeout"}]_vars
  <2> SUFFICES ASSUME CommandsInv, [Next]_vars, fund.over, fund'.step = "none"
               PROVE  last'.end \in {"ok", "timeout"}
    OBVIOUS
  <2>1. fund.over = TRUE
    BY DEF CommandsInv, TypeOK
  <2>2. fund.step # "none"
    BY <2>1 DEF CommandsInv, FundHolds
  <2>3. FundFirst \/ FundRead \/ FundTimeout
    <3>1. CASE Short
      BY <2>2, <3>1, ShortSteps DEF Answered
    <3> QED
      BY <2>1, <2>2, <3>1, StepKinds, BalanceSteps, FundGoesOn DEF Quiet, Long
  <2> QED
    BY <2>1, <2>3, FundSteps DEF Failed, Funded, Waits
<1> QED
  BY <1>1, CommandsInvariant, PTL DEF Spec, LimitTold
=============================================================================

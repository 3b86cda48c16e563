------------------------------ MODULE Commands ------------------------------
(***************************************************************************)
(* The commands of src/cmd/x402-celestia-rpc-payer one after another, over *)
(* the files of a customer who edits them in between: init, check,         *)
(* address, balance, fund, prices and health, and serve and call up to the *)
(* Client that they build (PaidCalls.tla goes on from there).              *)
(*                                                                         *)
(* fund waits, so each of its steps is an action; every other command is   *)
(* one step.  InitFiles.tla has the steps of init, and how they fail.      *)
(* Outside the repository are the customer, the sidecar, which answers the *)
(* truth or fails, and the chain.                                          *)
(***************************************************************************)
EXTENDS Accounts, Config, Prices

CONSTANTS
    ConfigFiles,   \* the files that the customer may write
    Paths,         \* the paths of mnemonic files
    PriceAnswers,  \* what readPrices may give: [ok, asset, network, methods]
    NoMethods,     \* no price list
    Deposits,      \* the balances that a wallet may reach
    Failures       \* the answers of an account route that fails

ASSUME PathsAssumption == ".mnemonic" \in Paths
ASSUME WalletsAssumption == NoWallet \notin Wallets /\ Blank \notin Wallets
ASSUME ConfigFilesAssumption ==
    \A f \in ConfigFiles : f.budget \in Texts /\ f.fee \in Texts

ASSUME PricesAssumption == \A p \in PriceAnswers : p.ok => PriceList(p.methods)

\* No answer, an error that does not say that there is no account, an answer
\* that is no JSON, of no network that the payer knows, without an account
\* number, or without a balance.
ASSUME FailuresAssumption ==
    \A a \in Failures :
        \/ a.status # 200 /\ (a.status # 404 \/ ~noAccount(a.error))
        \/ a.status = 200 /\ \/ a.readable = FALSE
                             \/ a.network \notin CosmosIds \cup {Blank}
                             \/ a.number = NoText
                             \/ a.balance = NoText

\* No balance needs more than the positive half of an int64: all the utia that
\* exist are fewer.
ASSUME SupplyAssumption == \A d \in Deposits : d \in 1 .. (IntSpan \div 2 - 1)

VARIABLES
    config,   \* the configuration file
    secrets,  \* secrets[p]: the mnemonic file at path p
    money,    \* money[w]: the balance of w, -1 when the chain holds no account
    fund,     \* the run of fund: its step, the limit, what it loaded
    last,     \* the command that ended last, and how
    shown,    \* the wallet whose address was shown last for these files
    listed,   \* the price list that it read
    told      \* the balance that it printed, and what it pays for

files == <<config, secrets>>
answers == <<last, shown, listed, told>>
vars == <<files, money, fund, answers>>

Idle == [step |-> "none", over |-> FALSE, wallet |-> NoWallet, cfg |-> NoFile]
Nothing == [cmd |-> "none", noPay |-> FALSE, end |-> "none"]
Untold == [balance |-> 0, calls |-> 0, wallet |-> NoWallet, cfg |-> NoFile]

Init ==
    /\ config = NoFile
    /\ secrets = [p \in Paths |-> NoFile]
    /\ money = [w \in Wallets |-> -1]
    /\ fund = Idle
    /\ last = Nothing
    /\ shown = NoWallet
    /\ listed = NoMethods
    /\ told = Untold
-----------------------------------------------------------------------------
\* The customer writes or removes a file.  What a command said before is then
\* about other files.  fund reads no file after its start: an edit while it
\* waits is one that comes after it.
Edit ==
    /\ fund.step = "none"
    /\ \/ config' \in ConfigFiles \cup {NoFile} /\ UNCHANGED secrets
       \/ /\ \E p \in Paths, m \in Contents : secrets' = [secrets EXCEPT ![p] = m]
          /\ UNCHANGED config
    /\ last' = Nothing
    /\ shown' = NoWallet
    /\ listed' = NoMethods
    /\ told' = Untold
    /\ UNCHANGED <<money, fund>>

\* Money arrives at a wallet, or leaves it.
Transfer(w) ==
    /\ money' \in {[money EXCEPT ![w] = d] : d \in Deposits \cup (IF money[w] > 0 THEN {0} ELSE {})}
    /\ UNCHANGED <<files, fund, answers>>
-----------------------------------------------------------------------------
\* The command ends.
Say(cmd, noPay, end) == last' = [cmd |-> cmd, noPay |-> noPay, end |-> end]

\* The command ends, has printed no balance and has read no price list.
SayOnly(cmd, noPay, end) ==
    /\ Say(cmd, noPay, end)
    /\ listed' = NoMethods
    /\ told' = Untold

\* The command ends, and nothing else happens.
Ends(cmd, noPay, end) ==
    /\ SayOnly(cmd, noPay, end)
    /\ UNCHANGED <<files, money, fund, shown>>

\* run: nobody waits in fund, and the file loads.
Loaded == applyDefaults(config)
Ready == fund.step = "none" /\ LoadConfig(config)
Signer == WalletFromConfig(Loaded, secrets)

BadConfigFileBody(upstream, network, price) ==
    [shape |-> "flat", upstream |-> upstream, network |-> network,
     mnemonic |-> IF config = NoFile THEN Blank ELSE config.mnemonic, mnemonicFile |-> Blank,
     maxPerCall |-> Plain(price), budget |-> Plain(0), fee |-> NoText]

\* The file that init writes: four fields, and a default for the others.
configFileBody(upstream, network, price) ==
    [shape |-> "flat", upstream |-> upstream, network |-> network,
     mnemonic |-> Blank, mnemonicFile |-> Blank,
     maxPerCall |-> Plain(price), budget |-> Plain(0), fee |-> NoText]

\* The sidecar of init: left out, an address, which may be no URL, or a flag.
\* Only a sidecar at a URL can answer.
Sidecars == {Blank, "url", "other", "-flag"}
CanAnswer(sidecar, prices) == prices.ok => sidecar = "url"

\* init writes nothing: a flag follows the command, -force is missing, the
\* sidecar asks for another token, or the mnemonic file is empty.
InitRefuses(force, sidecar, prices) ==
    \/ sidecar = "-flag"
    \/ config # NoFile /\ ~force
    \/ prices.ok /\ prices.asset \notin {Blank, "utia"}
    \/ secrets[".mnemonic"] = Blank

\* A mnemonic that no file holds and no money went to.
Fresh == {w \in Wallets : money[w] = -1 /\ \A p \in Paths : secrets[p] # w}

\* The price list of a sidecar that answers gives the network and the limit.
InitNetwork(prices) == IF prices.ok /\ prices.network # Blank THEN prices.network
                       ELSE "cosmos:mocha-5"
InitPrice(prices) == IF prices.ok /\ costliest(prices.methods) > 0
                     THEN costliest(prices.methods) ELSE 20000

\* The two files are written, the configuration is read again, and the address
\* of the mnemonic is on the terminal.
InitWrites(m, body) ==
    LET wallet == IF LoadConfig(body) THEN WalletFromMnemonic(m) ELSE NoWallet IN
    /\ secrets' = [secrets EXCEPT ![".mnemonic"] = m]
    /\ config' = body
    /\ shown' = wallet
    /\ Say("init", FALSE, IF wallet = NoWallet THEN "error" ELSE "ok")

runInit(force, sidecar, prices) ==
    /\ fund.step = "none"
    /\ CanAnswer(sidecar, prices)
    /\ ~InitRefuses(force, sidecar, prices)
    /\ \E m \in IF secrets[".mnemonic"] = NoFile THEN Fresh ELSE {secrets[".mnemonic"]} :
           InitWrites(m, configFileBody(OrElse(sidecar, Blank, "url"), InitNetwork(prices),
                                        InitPrice(prices)))
    /\ listed' = IF prices.ok THEN prices.methods ELSE NoMethods
    /\ told' = Untold
    /\ UNCHANGED <<money, fund>>

\* The commands of run that do something to the state.
Names == {"init", "check", "address", "serve", "balance", "fund", "prices", "health", "call"}

\* A command ends with an error before it does anything: init refuses, or any
\* other command finds no correct file.
Refused(cmd, noPay) ==
    /\ fund.step = "none"
    /\ \/ cmd = "init" /\ \E force \in BOOLEAN, sidecar \in Sidecars, prices \in PriceAnswers :
                              CanAnswer(sidecar, prices) /\ InitRefuses(force, sidecar, prices)
       \/ cmd # "init" /\ ~LoadConfig(config)
    /\ Ends(cmd, noPay, "error")

\* The address of the signer is on the terminal.
ShowAddress(cmd, noPay) ==
    /\ Signer # NoWallet
    /\ shown' = Signer
    /\ SayOnly(cmd, noPay, "ok")
    /\ UNCHANGED <<files, money, fund>>

BadRunCheck(noPay) ==
    /\ Ready
    /\ \/ Signer = NoWallet /\ Ends("check", noPay, "ok")
       \/ ShowAddress("check", noPay)

runCheck(noPay) ==
    /\ Ready
    /\ \/ noPay /\ Ends("check", noPay, "ok")
       \/ ~noPay /\ Signer = NoWallet /\ Ends("check", noPay, "error")
       \/ ~noPay /\ ShowAddress("check", noPay)

runAddress ==
    /\ Ready
    /\ \/ Signer = NoWallet /\ Ends("address", FALSE, "error")
       \/ ShowAddress("address", FALSE)

\* prices and health: the answer of a free route, or an error.
runGet(cmd) == Ready /\ \E end \in {"ok", "error"} : Ends(cmd, FALSE, end)

\* newRuntime of serve and call: a Client, with a Payer unless noPay is set.
newRuntime(noPay) == noPay \/ Signer # NoWallet

\* serve may find its address taken; "ok" is a proxy that listens.
runServe(noPay) ==
    /\ Ready
    /\ \E end \in IF newRuntime(noPay) THEN {"ok", "taken"} ELSE {"error"} :
           Ends("serve", noPay, end)

\* call may have a wrong argument, and may fail in Do.
runCall(noPay) ==
    /\ Ready
    /\ \E end \in {"ok", "error"} : (end = "ok" => newRuntime(noPay)) /\ Ends("call", noPay, end)
-----------------------------------------------------------------------------
\* What the account route answers for wallet w: the truth, or a failure.
Absent(p) == [status |-> 404, error |-> {p}, readable |-> TRUE, network |-> Blank,
              number |-> NoText, balance |-> NoText]
Account(n, d) == [status |-> 200, error |-> {}, readable |-> TRUE, network |-> n,
                  number |-> Plain(1), balance |-> Plain(d)]
Says(w) ==
    Failures \cup
    IF money[w] = -1 THEN {Absent(p) : p \in Phrases}
    ELSE {Account(n, money[w]) : n \in {Blank, "cosmos:mocha-5"}}

\* A balance is printed, for the wallet and the file of the command.
Tell(balance, calls, wallet, cfg) ==
    told' = [balance |-> balance.n, calls |-> calls, wallet |-> wallet, cfg |-> cfg]

runBalance ==
    /\ Ready
    /\ \/ Signer = NoWallet /\ Ends("balance", FALSE, "error")
       \/ /\ Signer # NoWallet
          /\ \E a \in Says(Signer) :
             LET balance == readBalance(a, Loaded.network) IN
             \/ balance = NoText /\ Ends("balance", FALSE, "error")
             \/ /\ balance # NoText
                /\ Tell(balance, 0, Signer, NoFile)
                /\ shown' = Signer
                /\ Say("balance", FALSE, "ok")
                /\ listed' = NoMethods
                /\ UNCHANGED <<files, money, fund>>

\* fund goes on.
Fund(step, over, wallet, cfg) ==
    fund' = [step |-> step, over |-> over, wallet |-> wallet, cfg |-> cfg]

\* runFund: the wallet, and then the first read, which no limit ends.
runFund ==
    /\ Ready
    /\ \/ Signer = NoWallet /\ Ends("fund", FALSE, "error")
       \/ /\ Signer # NoWallet
          /\ Fund("first", FALSE, Signer, Loaded)
          /\ last' = Nothing
          /\ listed' = NoMethods
          /\ told' = Untold
          /\ UNCHANGED <<files, money, shown>>

\* fund ends.
FundSays(end) == Say("fund", FALSE, end) /\ fund' = Idle

BadFundReads(balance) ==
    \/ /\ balance = NoText
       /\ FundSays("error")
       /\ UNCHANGED told
    \/ /\ isAbove0(balance)
       /\ Tell(balance, callsFor(balance, fund.cfg.maxPerCall, fund.cfg.fee), fund.wallet, fund.cfg)
       /\ FundSays("ok")
    \/ /\ balance # NoText /\ ~isAbove0(balance)
       /\ Fund("wait", fund.over, fund.wallet, fund.cfg)
       /\ \/ fund.step = "first" /\ Tell(balance, 0, fund.wallet, NoFile)
          \/ fund.step # "first" /\ UNCHANGED told
       /\ UNCHANGED last

\* A read returns: an error, which after the limit is the message of the limit;
\* money, and what it pays for; or nothing, and fund waits.  The first read
\* prints also a balance of 0, a later one a dot.
FundReads(balance) ==
    \/ /\ balance = NoText
       /\ FundSays(IF fund.over THEN "timeout" ELSE "error")
       /\ UNCHANGED told
    \/ /\ isAbove0(balance)
       /\ Tell(balance, callsFor(balance, fund.cfg.maxPerCall, fund.cfg.fee), fund.wallet, fund.cfg)
       /\ FundSays("ok")
    \/ /\ balance # NoText /\ ~isAbove0(balance)
       /\ Fund("wait", fund.over, fund.wallet, fund.cfg)
       /\ \/ fund.step = "first" /\ Tell(balance, 0, fund.wallet, NoFile)
          \/ fund.step # "first" /\ UNCHANGED told
       /\ UNCHANGED last

\* The first read also shows the address.
FundFirst ==
    /\ fund.step = "first"
    /\ \E a \in Says(fund.wallet) :
       LET balance == readBalance(a, fund.cfg.network) IN
       /\ FundReads(balance)
       /\ shown' = IF balance = NoText THEN shown ELSE fund.wallet
    /\ UNCHANGED <<files, money, listed>>

FundTick ==
    /\ fund.step = "wait"
    /\ ~fund.over
    /\ Fund("read", fund.over, fund.wallet, fund.cfg)
    /\ UNCHANGED <<files, money, answers>>

FundRead ==
    /\ fund.step = "read"
    /\ \E a \in Says(fund.wallet) : FundReads(readBalance(a, fund.cfg.network))
    /\ UNCHANGED <<files, money, shown, listed>>

\* The limit passes while fund waits, or while a read is on its way.
FundLimit ==
    /\ fund.step \in {"wait", "read"}
    /\ ~fund.over
    /\ Fund(fund.step, TRUE, fund.wallet, fund.cfg)
    /\ UNCHANGED <<files, money, answers>>

BadFundTimeout ==
    /\ fund.step = "wait"
    /\ fund.over
    /\ Fund("read", fund.over, fund.wallet, fund.cfg)
    /\ UNCHANGED <<files, money, answers>>

\* The wait ends at the limit.  A tick that comes at the same time starts a
\* read, which fails because the context has ended.
FundTimeout ==
    /\ fund.step = "wait"
    /\ fund.over
    /\ FundSays("timeout")
    /\ UNCHANGED <<files, money, shown, listed, told>>

FundStep == FundFirst \/ FundTick \/ FundRead \/ FundTimeout

run ==
    \/ \E force \in BOOLEAN, sidecar \in Sidecars, prices \in PriceAnswers :
           runInit(force, sidecar, prices)
    \/ \E noPay \in BOOLEAN : runCheck(noPay) \/ runServe(noPay) \/ runCall(noPay)
    \/ runAddress \/ runBalance \/ runFund
    \/ \E cmd \in {"prices", "health"} : runGet(cmd)
    \/ \E cmd \in Names, noPay \in BOOLEAN : Refused(cmd, noPay)

Next == run \/ FundStep \/ FundLimit \/ Edit \/ \E w \in Wallets : Transfer(w)

Spec == Init /\ [][Next]_vars

\* A read ends after the 30 seconds of its HTTP client, and time passes.  The
\* customer, the sidecar and the chain promise nothing.
FairSpec == Spec /\ WF_vars(FundStep) /\ WF_vars(FundLimit)
-----------------------------------------------------------------------------
\* Type invariant.
TypeOK ==
    /\ secrets \in [Paths -> Contents]
    /\ money \in [Wallets -> Deposits \cup {0, -1}]
    /\ fund.step \in {"none", "first", "wait", "read"} /\ fund.over \in BOOLEAN
    /\ fund.wallet \in Wallets \cup {NoWallet}
    /\ last.end \in {"none", "ok", "error", "taken", "timeout"}
    /\ shown \in Wallets \cup {NoWallet}
    /\ told.balance \in Nat /\ told.calls \in Nat

\* The address that a customer saw last, from init, check, address, balance or
\* fund, is the address that serve and call sign with, until a file is edited:
\* init shows the wallet that it wrote without asking the configuration for it.
ShownIsUsed == shown # NoWallet => LoadConfig(config) /\ Signer = shown

\* What the payer takes as a limit was meant as one: in a file that loads, no
\* text that is not a number has become 0, which a budget reads as no limit, and
\* no fee makes every payment fail.
LoadedMoney ==
    LoadConfig(config) =>
        /\ MaxPerCallAmount(Loaded) > 0
        /\ BudgetAmount(Loaded) = 0 => TrimSpace(Loaded.budget) = Plain(0)
        /\ feeAmount(Loaded) # FeeError
        /\ feeAmount(Loaded) = 0 => TrimSpace(Loaded.fee) = Plain(0)

\* When init could read the sidecar, the payer pays each listed method, and no
\* more than the costliest of them.
InitFitsPrices ==
    last.cmd = "init" /\ last.end = "ok" /\ listed # NoMethods =>
        LET priced == {m \in DOMAIN listed : SetString(listed[m]) /\ listed[m].n > 0} IN
        /\ \A m \in priced : listed[m].n <= MaxPerCallAmount(Loaded)
        /\ priced # {} => \E m \in priced : listed[m].n = MaxPerCallAmount(Loaded)

\* What fund says about calls is the largest number of calls, at the highest
\* price and the fee that the payer itself reads, that the balance pays for.
\* (A limit or a fee written with spaces is the exception: callsFor gives 0.)
ReportExact ==
    LET cost == MaxPerCallAmount(told.cfg) + feeAmount(told.cfg) IN
    told.cfg # NoFile /\ told.cfg.maxPerCall.form = "plain" /\ told.cfg.fee.form = "plain" =>
        told.calls * cost <= told.balance /\ told.balance < (told.calls + 1) * cost

\* After check said that the configuration is correct, serve with the same flag
\* gets as far as its listen address: no wallet and no file stops it.
CheckedStarts ==
    [][last.cmd = "check" /\ last.end = "ok" /\ last'.cmd = "serve" /\ last'.noPay = last.noPay
          => last'.end # "error"]_vars

\* The balance on the terminal is what the wallet of the command holds on the
\* chain: no failed or foreign answer of the account route is printed as one.
BalanceTrue ==
    [][told' \notin {told, Untold} => told'.balance = IF money[told'.wallet] = -1 THEN 0
                                       ELSE money[told'.wallet]]_vars

\* fund never waits for money that is there: each answer after which it waits
\* was given while the wallet held nothing.  Neither an empty balance nor a
\* fault of the account query counts as 0.
WaitsOnZero ==
    [][fund'.step = "wait" /\ fund.step # "wait" => money[fund.wallet] <= 0]_vars

\* Once its time limit has passed, fund ends with money or with the message of
\* the limit, also when the limit passed during a read.
LimitTold ==
    [][fund.over /\ fund'.step = "none" => last'.end \in {"ok", "timeout"}]_vars

\* fund ends, although money may never come and the sidecar never answer.
FundEnds == fund.step # "none" ~> fund.step = "none"
-----------------------------------------------------------------------------
\* The inductive strengthening behind the theorems of Commands_proofs.

\* What fund loaded at its start is what the files say while it runs.
FundHolds ==
    /\ fund.step = "none" => fund.over = FALSE
    /\ fund.step # "none" => /\ LoadConfig(config)
                             /\ fund.cfg = Loaded
                             /\ fund.wallet = Signer
                             /\ Signer # NoWallet

\* The amounts of the file that may stand for "no limit" are texts.
FileTexts == config # NoFile => config.budget \in Texts /\ config.fee \in Texts

\* What check said is still true.
CheckHolds ==
    last.cmd = "check" /\ last.end = "ok" =>
        LoadConfig(config) /\ (last.noPay = TRUE \/ Signer # NoWallet)
=============================================================================

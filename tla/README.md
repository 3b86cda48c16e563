# A TLA+ development for x402-celestia-rpc-payer

The program signs small payments on Celestia for RPC calls.  A caller sends a
call to a sidecar; a sidecar that wants money answers 402; the program signs a
transaction, sends the call again with it, and keeps count of what it may have
spent.  Most of what can go wrong lies between those two sends: the answer is
lost, the caller leaves, the transaction waits for a block, another call wants
the same account sequence.

## 1. Inventory

| Component | State | Operations | Talks to |
|---|---|---|---|
| **Payer** (`src/payer/payer.go`) | `mu`, `nextSeq`, `haveSeq`, `spent`, `count`, `open` | `Pay`, `Rollback`, `Unresolved`, `Spent`, `Open`; inside: `checkOption`, `resolveOpen`, `waitForTx`, `checkBudget`, `release`, `signTx` | Accounts, under the lock |
| **Client** (`src/payer/client.go`) | `mu` | `Do` (two sends, one payment), `readPaymentRequired`, `pickOption`, `paymentWorked` | Payer; the sidecar |
| **Accounts** (`src/payer/account.go`) | none | `Account`, `TxStatus`, `Read` | the sidecar's free routes |
| **Proxy** (`src/payer/proxy.go`) | none | `ServeHTTP`, `serveOwnRoutes` | Client; Payer for the status |
| **x402** (`src/x402`) | none | header codec and wire types | used by Client and Payer |
| **Init** (`cmd/.../init.go`) | two files | `runInit`, `makeMnemonic`, `keepMnemonic`, `writeConfigFile`, `costliest` | the file system, the price route |
| **Fund** (`cmd/.../fund.go`) | the wait | `run`, `isAbove0`, `callsFor` | Accounts |
| **Commands** (`cmd/.../main.go`) | none | `run` and one function per command; `newRuntime` | everything above |
| **Config**, **Wallet** (`src/payer/config.go`, `wallet.go`) | a file, a key | `LoadConfig`, `applyDefaults`, `validate`, the amounts, `ReadMnemonic`, `WalletFromConfig` | the file system |

Interactions and shared state.  The Proxy runs one goroutine per request, and
all of them share one Client and one Payer.  `Do` takes `c.mu` from the choice
of the payment until it knows the result; `Pay`, `Rollback`, `Unresolved`,
`Spent` and `Open` take `p.mu`.  `Pay` keeps `p.mu` while it asks the chain, but
gives it up before the paid send.  All of this is in memory: when `serve` ends,
the payments that were sent live on at the sidecar and on the chain.  Two `init`
processes share two paths, and every command reads the two files that `init` wrote
and that a customer may have edited since.

What makes each part correct, and hard:

* Payer: the counter is the sum of the payments that stand; it never passes the
  budget; no lost payment is forgotten or decided twice; a sequence is not used
  twice.  Hard because four different paths adjust the same counters, a wait sits
  in the middle of `Pay`, and the sequence comes from memory or from the chain.
* Client: each payment is settled at most once, and the receipt agrees with the
  ledger, for every order of answers, losses and blocks; every call returns.
* The whole: the payer has counted at least what the chain took.
* Proxy: a status answer is consistent.
* Init: an address that was shown belongs to a key that is on the disk.
* Config and Wallet: a text that is no number never becomes a limit of 0; the wallet
  that is shown is the wallet that signs.
* Fund and the other commands: a balance that is printed is true, `fund` waits only
  for money that is not there, and it ends with the right message.

Sections 6 and 8 and the `hazards` of `PROJECT.json` take these up one by one.

## 2. Modules

| Module | Models | Uses |
|---|---|---|
| `Coins` | a sum of bounded numbers as the size of a set, so that sums can be proved about | |
| `PaymentLedger` | the abstract promise about money: prices, fates, a budget on the true sum | `Coins` |
| `Payer` | `payer.go`, with an environment that may answer anything | implements `PaymentLedger` |
| `PaymentRequired` | how an option is found in a 402 answer (pure operators) | |
| `PaidCalls` | `Client.Do` of several callers, the proxy and its status route, the end of `serve`, and outside the repository the sidecar, the network and the chain | `Payer`, `PaymentRequired`; implements `Payer!PayerSpec` |
| `InitFiles` | runs of `init` over the two files, system call by system call | |
| `Texts` | texts that numbers are read from: plain, with spaces, no number, empty | |
| `Accounts` | `Read` and `statusError`: what an answer of the account route means | `Texts` |
| `Config` | a configuration file, what loads, and the wallet that it names | `Texts` |
| `Prices` | `costliest`, `isAbove0`, `callsFor` | `Texts` |
| `Commands` | every command, one after another, over the files of a customer | `Accounts`, `Config`, `Prices` |
| `Payer_proofs`, `PayerLedger_proofs` | theorems about the Payer alone | `Payer` |
| `PaidCalls_proofs`, `NeverLate_proofs` | theorems about the calls, the sidecar and the chain | `PaidCalls`, `PayerLedger_proofs` |
| `Prices_proofs`, `Commands_proofs` | theorems about the commands | `Commands` |
| `InitFiles_proofs` | theorems about runs of `init` | `InitFiles` |
| `MCPayer`, `MCPaidCalls`, `MCInitFiles`, `MCCommands` | small instances | |

### Payer

The variables `nextSeq`, `haveSeq`, `spent`, `count` and `open` are the fields of
the struct; `mu` holds the name of the call that has the mutex, and `stage`,
`want`, `asking`, `kept`, `outcome`, `acct`, `ctxEnded` are the locals of its
`Pay`.  A call signs at most one payment, so a call names its payment:
`amount[c]` and `sequence[c]` are the fields of `Payment`.  `fate` is history.

| Action | Code |
|---|---|
| `PayLock` | `Pay` up to the loop of `resolveOpen` (`checkOption` passes, lock) |
| `PollFound`, `PollAbsent`, `WaitEnds` | one question of `waitForTx`, and its return with the branch of `resolveOpen` that follows |
| `BudgetAdmits`, `BudgetRefuses` | the end of `resolveOpen` (`p.open = keep`) and `checkBudget` |
| `AccountReads`, `AccountFails`, `SignFails`, `SignTx` | the rest of `Pay` |
| `Rollback`, `Unresolved` | the methods of these names |
| `CtxEnds` | the context of the call ends: its caller left, or the 180 seconds of the `call` command are over |
| `Restart` | the process ends and `NewPayer` starts with empty fields; the payments that stood get the fate `forgotten` |

`resolveOpen` filters `p.open` in place and only assigns it at the end; the lock
is held throughout, so the model keeps the list in `asking` and `kept` until
`p.open = keep`.  A failed question to the chain changes nothing and is no
action.  The signed bytes are abstracted to (amount, sequence).  A sequence is a number
below `SeqSpan`, the 2^64 of the code, and the next one wraps as a `uint64`
does.  Amounts are `big.Int` in the code and integers here.

### PaidCalls

`pc[c]` is the place of a call in `Do`: `first`, `lock`, `pay`, `send`, `await`,
and then one of the results in `Ended`.  A 402 is one of the answers in
`Required`; `readPaymentRequired` and `pickOption` decide what the call does
with it.  The world is `inbox` (paid requests at the sidecar), `mempool`, `code`
(the blocks) and `chainSeq`.  The sidecar may broadcast and serve, broadcast and
break (500), refuse (402, or a failed `Payment-Response`) or break without a
broadcast.  The mempool takes only the next sequence of the account, and the
account route answers with the sequence of the last block; both are modelled
from how `payer.go` and its tests rely on them.  A sequence that is no `uint64` is one
of the errors of `Account`, so `ReadAccount` takes a number below `SeqSpan` only.
A transaction may fail in its block.  Any send may fail and any answer may be lost
before or after the sidecar acted.

The chain knows a transaction by its hash.  Two payments can only have the same one
when their price and sequence are equal (`SameTx`); whom they pay and the account
number are not modelled and may still tell them apart.  So the answer about a payment
that is in no block is "not there", or the result of another payment with the same
price and sequence.

`ServesItself` is a call that `ServeHTTP` answers without `Do`.  `ProcessEnds` ends
`serve` at any moment, as a crash does, and as `Shutdown` does when its 10 seconds
pass before the calls in flight return; the Payer restarts, calls and readers in
progress are `killed`, and `inbox`, `mempool` and the chain go on with the old
payments.  `MaxRestarts` bounds it.

The set `Faults` adds four more behaviours, each of which the code meets:

| Fault | Meaning |
|---|---|
| `ctx` | the caller's context ends while `waitForTx` asks |
| `drop` | the chain stops answering after it answered "not there" |
| `late` | a payment reaches a block after the 12 seconds of the wait |
| `redeliver` | the HTTP transport of Go sends the paid request twice |

Without `late`, `StopAsking` waits until the payment can no longer arrive; without
`drop`, until the last answer is current.  Those are assumptions on the world, and
section 8 shows what each one is worth.

### InitFiles

Every system call of `runInit` is a step; each of them may fail, and a run may crash
between any two.  `mnemonic` is the file `.mnemonic`: whose wallet, whether it holds
nothing, a part or all of it, and its mode.  `config` holds the set of runs whose text
is in the configuration file, since two forced runs may write over each other.  The
`Stat` at the start may fail on a file that is there, and the run then goes on as the
code does; `O_EXCL` decides later.  The customer may remove an empty mnemonic file, as
the error message says, but here only when no run of `init` is in progress.  A part of a
mnemonic is taken to fail the check of `NewWallet`.

### Accounts, Config, Prices and Commands

A text is a record: its form (plain, spaced, word, empty) and its number.
`SetString` takes a plain one only, `TrimSpace` makes a spaced one plain; the
difference matters because `parseAmount` trims and `callsFor` does not.  A file of the
customer is a record of the fields that decide something, and its shape, which
`checkOldShape` and the strict decoder look at.  A mnemonic is the wallet that it
names, or `words` that name none.

`Commands` has the two files (`config`, `secrets`), the chain (`money`), the run of
`fund`, and what the customer was told: `last` (the command that ended, and how),
`shown`, `listed`, `told`.

| Action | Code |
|---|---|
| `runInit` | `runInit` as one step: the price list, the mnemonic that is made or kept, the file, the read of its own file, the address |
| `Refused` | a command that ends before it does anything: `runInit` up to line 83, or a file that `LoadConfig` refuses |
| `runCheck`, `runAddress`, `runBalance`, `runGet` | the functions of these names; `runGet` is `prices` and `health` |
| `runServe`, `runCall` | up to the Client of `newRuntime`, and how the command ends; `taken` is a listen address that another process has |
| `runFund`, `FundFirst` | the wallet, the first read, which has no limit and whose balance is printed, 0 too, and the address |
| `FundTick`, `FundRead`, `FundTimeout` | the loop of `run` |
| `FundLimit` | the 30 minutes are over, during the wait or during a read |
| `Edit`, `Transfer` | the customer and the chain (outside) |

The sidecar answers the truth or one of the `Failures` of `MCCommands`, which has one
for every branch of `Read` and `statusError`: no answer, a 404 that is not about the
account (a route that it does not have is one), 503, 500, an unreadable body, another
network, no account number, no balance.  The message of an answer is the set of the two
phrases that `noAccount` looks for and that are in it.  A failing answer carries a wrong
balance, so that a check that is left out shows.  A sidecar that states a wrong balance
in a good answer is not modelled: the payer has no second source.

`InitFiles` and `Commands` both have `init`: the first knows how it fails between two
system calls and says nothing about contents, the second knows what it writes.

## 3. What the runs check

| Run | Result | What it shows |
|---|---|---|
| `payer_open` | pass | `PayerTypeOK`, `WithinBudget`, `LedgerExact`, `OpenExact`, `NoReuseWithoutRelease`, and `LedgerSpec`: `Payer` implements `PaymentLedger` whatever the sidecar answers |
| `calls_safe` | pass | `TypeOK` and `NeverLate`: with no fault of the table above, the chain never took more for the payments of a process than its payer counted, also after a restart; `RefusedNeverTaken` and `WaitedNeverTaken`: what a refusal, and what a wait, gave back never reaches a block |
| `calls_faulty` | pass | with all four faults and a restart `ReceiptMatchesLedger`, `NewestInFlight`, `PaysItsOffer`, `LateOnlyByReturns` (only payments that were given back are missing from the count), and `ImplementsPayer`: `Do` uses the Payer as `PayerSpec` expects |
| `calls_live` | pass | `EveryCallEnds`, `StatusAnswers` under fairness of the code alone |
| `commands` | pass | see below |
| `init_runs` | pass | `TypeOK`, `ShownWalletKept`, `WalletNeverCut`, `ConfigOwned`, `BothPrivate` |
| `late_by_context`, `late_by_silence`, `late_by_resend` | violation | `NeverLate` fails under each of `ctx`, `drop` and `redeliver` alone |
| `sequence_reused` | violation | two payments that stand carry the same sequence |
| `status_torn` | violation | a status answer lists a payment that its `spent` does not count |
| `init_empty` | violation | a run of `init` meets the empty file of a run that did not fail |

`commands` checks `ShownIsUsed` (the address that was shown is the one that signs, after
`init -force` over any file too), `LoadedMoney` (no slip in the file removes a limit,
and `feeAmount` never fails after `LoadConfig`), `InitFitsPrices` (the limit that `init`
writes admits every listed method and no more), `ReportExact` (the calls that `fund`
promises), `CheckedStarts` (what `check` accepts, `serve` starts with), `BalanceTrue`,
`WaitsOnZero` and `LimitTold` (`fund` and `balance` against failing answers and a limit
that passes during a read), `FundEnds` (liveness) and `TypeOK`.

Definitions named `Bad...` are slips that a change of the code could make.  Put in
the place of the definition that follows them, each makes a property fail, which
shows that the property depends on that code.

## 4. Bounds

* `payer_open`: three calls, prices 1 and 2, fee 1, budget 6, `SeqSpan` 3, and one
  option for every rule of `checkOption`.  The budget admits two payments at the
  higher price or three at the lower, so both answers of `checkBudget` occur with
  payments held, lost, charged the fee and given back.  Three payments are
  the first number at which the filter of `resolveOpen` can keep, drop and release in
  one pass.  A span of 3 makes the sequence wrap, so the properties are checked across
  it; `NoReuseWithoutRelease` alone says nothing once the last sequence is signed.
* `calls_safe`: four calls, because a late count needs a lost payment, one that asks
  for it, one that is refused and one that profits.  Budget 7 refuses the third
  payment at the higher price.  `calls_faulty`: three calls, all faults.
  `SeqSpan` is 8, so the wrap does not occur; `payer_open` covers it.
  Both have `MaxRestarts` 1: the second process meets the payments of the first, and
  a third would meet nothing new.
* `commands`: two wallets, two mnemonic paths, ten files of which three load (one with a
  mnemonic of its own, one with another `mnemonicFile` and a spaced limit, one
  with fee 0 and a spaced budget) and seven break one rule of `LoadConfig` each,
  five answers of the price route, and balances below and above the cost of a call.
  `IntSpan` stands for 2^64 and is just large enough for the balances
  (`SupplyAssumption`: all the utia that exist fit an `int64`).
* `calls_live`: two calls and one status reader, no symmetry.
* `init_runs`: three runs, each with or without `-force`, over no, a private and a
  public mnemonic file and no or a public configuration: the third run follows a
  crash of the first while the second is under way.

Calls and runs of `init` are interchangeable, so the safety runs use symmetry; the
run with liveness properties does not.  No state constraint is used: each call and
each run of `init` happens once, and the state of `Commands` is finite.  Deadlock is checked
in every run; an explicit stuttering step stands for the end of all work.

## 5. Fairness

`FairSpec` assumes weak fairness of each call's own steps, of the running `Pay`
and of the reader's steps.  The code gives it: a send ends after at most the
timeout of the HTTP client (120 seconds by default, 30 seconds for the account and
transaction routes), the wait of `waitForTx` has a limit, and a `sync.Mutex` in
starvation mode is handed to the waiter at the front, so a lock that is released
again and again is obtained.  Each call takes either lock a bounded number of
times, for which weak fairness is enough.  Nothing is assumed of the sidecar, the
network and the chain: `AnswerLost` stands for the timeout and is part of the fair
step, an answer is not.

`Commands!FairSpec` assumes weak fairness of the steps of `fund` and of the passing of
its limit.  A read ends after the 30 seconds of its HTTP client, the ticker and the
context of 30 minutes are timers of the runtime.

## 6. What is proved

Every safety property that a passing run checks, invariant or action property, is
also a theorem, and so are the two refinements.  The theorems hold for every finite
set of calls, every set of runs of `init`, every set of files, wallets and price
lists, and every value of the other constants that the named assumptions allow.

| Theorem | States |
|---|---|
| `PayerTypes` | `PayerTypeOK` |
| `OpenListExact` | `OpenExact` |
| `BudgetHolds` | `WithinBudget` |
| `SequencesFresh` | `NoReuseWithoutRelease` |
| `CountersExact` | `LedgerExact` |
| `PayerImplementsLedger` | `PayerSpec => LedgerSpec` |
| `OpenIsCounted` | whenever the mutex is free, `spent` counts every payment that `Open()` lists |
| `CallTypes` | `TypeOK` of `PaidCalls` |
| `DoUsesPayer` | `ImplementsPayer`: `Spec => PayerSpec` |
| `CallsKeepLedger` | `WithinBudget`, `LedgerExact` and `LedgerSpec` for the whole of `PaidCalls` |
| `ReceiptsMatch` | `ReceiptMatchesLedger` |
| `NewestOnItsWay` | `NewestInFlight` |
| `OffersPaid` | `PaysItsOffer` |
| `ReturnsAloneMakeLate` | `LateOnlyByReturns`, whatever faults happen |
| `BudgetHoldsUpToReturns` | the chain takes no more of a process than its budget and the payments that it gave back, whatever faults happen |
| `RefusalsAreRight` | `RefusedNeverTaken`, when `"redeliver" \notin Faults` |
| `WaitsAreRight` | `WaitedNeverTaken`, when `Faults \subseteq {"redeliver"}` |
| `BudgetNeverLate` | `NeverLate`, when `Faults = {}` |
| `CommandTypes` | `TypeOK` of `Commands` |
| `ShownSigns`, `LimitsAreMeant`, `CallsAreExact` | `ShownIsUsed`, `LoadedMoney`, `ReportExact` |
| `CostliestIsHighest`, `LimitFitsPrices` | what `costliest` computes, and `InitFitsPrices` |
| `CheckIsEnough`, `PrintsTheTruth`, `WaitsForMoney`, `LimitIsNamed` | the action properties `CheckedStarts`, `BalanceTrue`, `WaitsOnZero`, `LimitTold` |
| `FileTypes` | `TypeOK` of `InitFiles` |
| `WalletsKept`, `FilesPrivate`, `ConfigsOwned` | `ShownWalletKept`, `BothPrivate`, `ConfigOwned` |
| `MnemonicFixed` | `WalletNeverCut`, an action property |

### Assumptions

| Assumption | Why the code justifies it |
|---|---|
| `CallsAssumption`, `NamesAssumption`, `NoFileAssumption`, `NoOptionAssumption`, `NoAnswerAssumption`, `WalletsAssumption`, `PathsAssumption` | names: a value that stands for "none" is none of the others, and `.mnemonic` is a path |
| `MoneyAssumption` | budget, fee and limit are whole numbers, as `validate` demands |
| `SeqAssumption`, `IntSpanAssumption` | a `uint64` and an `int64` have a width |
| `OptionsAssumption`, `RequiredAssumption` | what a decoded option and a decoded 402 hold |
| `FaultsAssumption` | the four names of the table of faults |
| `ConfigFilesAssumption`, `PricesAssumption` | the fields of a file and the prices of a list are texts; a decoded list is finite |
| `FailuresAssumption` | an answer that counts as a failure has one of the faults that `Read` looks for, and a 404 among them has neither phrase of `noAccount` in its message; its balance may be anything |
| `SupplyAssumption` | all the utia that exist are fewer than 2^63 |
| `"redeliver" \notin Faults` (only `RefusalsAreRight`), `Faults \subseteq {"redeliver"}` (only `WaitsAreRight`), `Faults = {}` (only `BudgetNeverLate`) | not what the code guarantees: the runs `late_by_...` show that the last theorem is false under `ctx`, `drop` and `redeliver`; see section 8.  The theorems above them have no such condition |

TLC evaluates every one of them on the instances of the runs.  The theorems about
`Commands` are stated of `Spec`; `FairSpec` is `Spec` with fairness.

### The argument: the Payer

The first seven theorems are about `PayerSpec`, in which the sidecar and the chain may
answer anything.  None of these invariants is inductive as it stands.

* `OpenExact` speaks of one list, `OpenNow`, which is `kept \o asking` during
  `resolveOpen`.  `ListsExact` says for each stage which list holds what, that
  `asking` and `kept` share nothing, and that the running `Pay` has signed
  nothing yet; it is inductive with `PayerTypeOK`.
* `WithinBudget` survives `SignTx` only because what `checkBudget` saw is still
  true: `BudgetHeld` carries `spent + want + Fee <= Budget` through the stages
  `account` and `sign`.
* `NoReuseWithoutRelease` needs `MemoryAhead`: until a payment is given back or
  the `uint64` runs out, `nextSeq` is above every signed sequence.
* `LedgerExact` compares a running counter with a sum.  A sum is the size of the
  set of coins `<<c, i>>` with `1 <= i <= f[c]`; `SumChange` says that a step
  that touches one payment changes the sum as it changes that payment, and each
  action is then one line of arithmetic.
* A restart sets the counters to 0, so the exact sum has to be that of no payment:
  `NothingCounted` says that a sum of zeros is 0, and `RestartExact` that no payment
  stands once all that stood are `forgotten`.  `MemoryAhead` and
  `NoReuseWithoutRelease` then speak of runs without a return and without a restart.
* The refinement takes `LedgerExact` and `BudgetHeld` together: the guard of the
  abstract `Sign` is about the true sum, that of the code about the counter.
* `OpenIsCounted` joins the two kinds: `ListsExact` says that a listed payment is lost,
  `LedgerExact` that a lost one is counted in full.  So one look under the lock is never
  wrong, and the answer of `status_torn` comes from the two looks alone.

### The argument: the calls

`CallInv` is the inductive invariant of `PaidCalls_proofs`.  `Do` takes `c.mu` and
then `p.mu`, and nearly everything follows from who holds which:

* `TypeOK` says that `c.mu` belongs to a call between its `Lock` and its return.
  `LocksHeld` is the converse: a call past `c.mu.Lock()` holds `c.mu`, so at most one call pays, sends
  or waits for an answer; and while `p.mu` is held for a `Pay`, that call is in `Pay`
  with the option that passed `checkOption`.
* `DoUsesPayer` then maps each step.  The steps of the sidecar, the network and the
  chain leave the Payer as it is; a step of `Do` is one action of the Payer.  The point
  is `Rollback` and `Unresolved`: `PayerSpec` allows them for a payment that is held, and
  the invariant says that a call in `await` has one.  So every theorem about `PayerSpec`
  holds of the whole, which `CallsKeepLedger` states.
* `ReceiptMatchesLedger` ties the end of a call to the fate of its payment, and is
  inductive with the types and `LocksHeld`.  `NewestInFlight` needs in addition that
  nobody signs while a payment is on its way; a restart is no exception, since it ends
  the call as well.
* `PaysItsOffer` needs `OfferHeld`: the option that `pickOption` chose is the one that
  `checkOption` saw, over two locks and a wait.

### The argument: how late the budget can be

`NeverLate` compares two sums over the payments of the running process: what the chain
took and what the payer counted.  It is false under faults, so `NeverLate_proofs` first
asks what is true under all of them.

* `ChargedInv` is inductive with every fault on: `CallInv`, `LedgerExact`, `ChainOrder`
  and `FeeCharged`.
* `ChainOrder`: the mempool holds the next sequences in order, and the blocks one
  transaction per sequence.  It is needed because the chain finds a transaction by its
  hash: two payments with the same price and sequence may have the same one, so an answer
  about one payment may come from the other.  `FindsOwnCode` uses that there is only one
  such transaction in the blocks.
* `FeeCharged`: a payment that was charged the fee alone failed in its block, or the chain
  has passed its sequence without it, so it can never cost its price later.
* `TookCounted` then shows, payment by payment, that one that was not given back is
  counted with what the chain took for it or more.  `SumSplit` splits the sum of what the
  chain took into the payments that were given back and the others, and a sum is monotone
  in its terms: this is `ReturnsAloneMakeLate`, and with `BudgetHeld`
  `BudgetHoldsUpToReturns`.

What is left is when a payment that was given back is taken nevertheless.  `TwoWaysBack`:
it was refused, or a wait gave it back.  Each way has its own invariant and its own
faults:

* `DeliveredOnce` (refusals): a payment is at one of the sidecar, the mempool and the chain
  at most, and a refusal says that the chain has not got it.  Every step but `Redeliver`
  keeps it, so the other three faults do not matter: `RefusalsAreRight`.
* `WaitedUnsent` (waits): what a wait gave back is nowhere on its way.  Without `ctx`, `drop`
  and `late`, `waitForTx` gives back only what the world can no longer take
  (`GivesBackUnsent`), and a payment whose call no longer sends does not start to move
  again (`UnsentStays`), not even by a second delivery: `WaitsAreRight`.

`BudgetNeverLate` puts the three together: with both returns right, the last sum is 0.

### The argument: the commands

`CommandsInv` has the properties themselves and three parts: `FundHolds` (the file and the
wallet that `fund` loaded are those on the disk while it waits), `FileTexts`, and
`CheckHolds` (what `check` said is still true, since every edit comes with a new `last`).

* `ReadsTruth` is the core of `BalanceTrue` and `WaitsOnZero`: `Read`, `statusError` and
  `noAccount` turn every failure into an error, and the truth into itself.
* `ReportExact` rests on `CallsExact`: the cut to an `int64` is harmless for every balance
  that fits, and the division is the exact one.
* `LimitTold` needs that no `fund` is over before it began (`FundHolds`).
* `costliest` is a fold, whose value is that of a recursive function over the subsets of
  the list.  `SubsetInduction` is induction over the subsets of a finite set, stated for a
  set of subsets where the library has a predicate; with it every part of a list has one
  highest price, the function that gives it solves the equations of the fold
  (`IteratesExists`), and every solution is that function (`CostliestIsHighest`).

### The argument: init

`ShownWalletKept` follows from `WalletInFile`, which holds from the moment a run
has its wallet.  It is kept by `FillMnemonic` because of `FillerMadeIt`: the one
run that fills the file made it, and the file is empty until then, so no other
run has taken a wallet from it.  `ConfigOwned` needs `OneWriter`: without
`-force`, one run at most gets past `O_EXCL`.

## 7. What is only model-checked

The three liveness properties: `EveryCallEnds`, `StatusAnswers` and `FundEnds`.  They need
fairness and `ENABLED`, which is out of the prover's reach.  The six runs that expect a
violation are counterexamples, and need no proof.

## 8. Where the code and its documents differ

1. **A caller that leaves gives a payment back** (`payer.go:375`, `late_by_context`).
   The comment at `payer.go:370` says "not there" counts only after the time limit;
   `waitForTx` also returns it when the context ends.  The payment is still in the
   mempool, and the budget then counts less than the chain takes.
2. **An early "not there" sticks** (`payer.go:373`, `late_by_silence`).  When every later
   question fails, the outcome stays `txAbsent`.  The README of the program says a
   sidecar that does not answer leaves the payment counted.
3. **A second delivery** (`client.go:141`, `late_by_resend`).  The first copy is broadcast,
   the second refused, and `Rollback` gives back what the chain takes.
4. **A sequence is reused** (`payer.go:309`, `sequence_reused`).  A refused payment makes the
   payer forget the next sequence while an accepted one waits for its block; the
   next payment reads the committed sequence and signs it again.  The chain rejects
   one of the two, so no money is lost, but a call fails.
5. **A torn status answer** (`proxy.go:122`, `status_torn`): two sections of the lock.
6. **An empty mnemonic file** (`init.go:234`, `init_empty`).  Between the creation and the
   write a second run reads an empty file and fails, where the comment says it keeps
   the file of the other one.

A slow block is the fourth way to a late count: the transaction has no timeout height,
so it may land after the wait of about two blocks (`payer.go:341`).  `calls_safe`
assumes that it does not.  With these four behaviours excluded the count is never late,
at the bounds of the run and, by `BudgetNeverLate`, at any.  With all of them the damage
is limited: by `ReturnsAloneMakeLate` the count misses what was given back and taken, and
nothing else.  By `RefusalsAreRight` and `WaitsAreRight` the four have separate effects:
only the second delivery makes a refusal wrong, and only the other three a wait.  Were
every wait right, `Rollback` after a second delivery would be the one way left to a late
count.

Smaller observations, without a run of their own:

* `maxPerCall: " 20000"` loads, and the payer pays with it, but `callsFor` does not trim:
  `fund` then says that the balance pays for 0 calls (`fund.go:160`).  `ReportExact`
  excludes texts with spaces.
* `init -force` over a file with a `mnemonic` of its own, or another `mnemonicFile`,
  makes the payer use the wallet of `.mnemonic` and prints "Kept ... The wallet does
  not change." (`init.go:107`): true of the file, not of the payer.  The address
  that it shows is the right one (`ShownIsUsed`).
* `noAccount` looks for "not found" anywhere in the message, so another fault whose
  message has these words counts as an empty wallet (`account.go:194`).
* A balance that is no number makes `fund` wait (`fund.go:148`).

## 9. Not modelled, and the plan

Not modelled: key derivation and signing (library calls), the parsing of flags and of the
parameters of `call`, printing and the text of messages, the headers and the bytes of a
request (so also the cut of a body above 4 MB in `proxy.go:58`), the warning about the
mode of the mnemonic file, `ParsePaymentPayload` (the server's side).  The budget is
that of one process, as the program documents it: `NeverLate` compares what the chain
took for the payments of the running process.

The order in which the modules were and will be written:

1. `PaymentLedger`, `Payer` and their proofs, with a restart: done.
2. `PaidCalls`, `PaymentRequired`, with the proxy and the end of `serve`: done.
3. `InitFiles` and its proofs: done.
4. `Texts`, `Accounts`, `Config`, `Prices`, `Commands`: done.
5. `PaidCalls_proofs` and `NeverLate_proofs`: done.
6. `Prices_proofs` and `Commands_proofs`: done.
7. How late the budget can be under faults, and which fault makes which return wrong: done
   in `NeverLate_proofs`.
8. Open: `InitFiles` and the `init` of `Commands` related by a refinement, for one run at a
   time, so that what is shown in the second also holds between two system calls.

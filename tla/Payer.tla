------------------------------- MODULE Payer -------------------------------
(***************************************************************************)
(* The signer of payments, src/payer/payer.go, with an open environment:   *)
(* any caller, any sidecar answer, any chain.  The variables below "mu"    *)
(* are the fields of the Payer struct and of the Payment it returned; the  *)
(* ones above are the locals of the one Pay that holds the mutex p.mu.     *)
(*                                                                         *)
(* A call signs at most one payment, so a call names its payment.  The     *)
(* hash of a payment is the hash of its bytes; the bytes differ only in    *)
(* amount and sequence, and the hash is never empty, so the branches of    *)
(* Unresolved and Rollback for a missing payment or hash are not reached.  *)
(***************************************************************************)
EXTENDS Coins, Sequences

CONSTANTS
    Calls,       \* the calls of Pay
    NoCall,      \* no call: the mutex is free
    Network,     \* cfg.Network
    Asset,       \* cfg.Asset
    MaxPerCall,  \* cfg.MaxPerCallAmount()
    Budget,      \* cfg.BudgetAmount(): 0 means no limit
    Fee,         \* feeAmount()
    Options,     \* the payment options that a sidecar may offer
    SeqSpan      \* 2^64 in the code: a sequence is a uint64

ASSUME CallsAssumption == IsFiniteSet(Calls) /\ NoCall \notin Calls
ASSUME MoneyAssumption ==
    MaxPerCall \in Nat /\ Budget \in Nat /\ Fee \in Nat
ASSUME SeqAssumption == SeqSpan \in Nat \ {0}

\* amount is a whole number or, when whole is FALSE, a text that is not one.
ASSUME OptionsAssumption ==
    Options \subseteq [network : STRING, asset : STRING, scheme : STRING,
                       celestia : BOOLEAN, whole : BOOLEAN, amount : Int]

VARIABLES
    mu,        \* the call that holds p.mu, or NoCall
    stage,     \* where that call stands in Pay
    want,      \* its price
    asking,    \* resolveOpen: the payments it has not decided yet
    kept,      \* resolveOpen: the ones it keeps open
    outcome,   \* waitForTx: the outcome so far for Head(asking)
    acct,      \* the account sequence it read
    ctxEnded,  \* its context has ended
    nextSeq, haveSeq, spent, count, open,
    amount,    \* amount[c], sequence[c]: the payment that call c signed
    sequence,
    fate       \* history: what became of it, as in PaymentLedger

frame == <<mu, stage, want, asking, kept, outcome, acct, ctxEnded>>
payments == <<amount, sequence, fate>>
payerVars == <<frame, nextSeq, haveSeq, spent, count, open, payments>>

Sequences == 0 .. (SeqSpan - 1)

\* The code of a transaction in a block: 0, or an error of the chain.
TxCodes == {0, 1}

Ledger == INSTANCE PaymentLedger WITH Payments <- Calls, price <- amount
-----------------------------------------------------------------------------
\* Definitions named Bad... are slips that a change of the code could make;
\* no specification uses them.  Each shows that a property can fail.

BadCheckOption(option) ==
    /\ option.network = Network
    /\ option.asset = Asset
    /\ option.scheme \in {"exact", "upto"}
    /\ option.celestia
    /\ option.whole
    /\ option.amount > 0

\* Every rule of the configuration that an option has to pass.
checkOption(option) ==
    /\ option.network = Network
    /\ option.asset = Asset
    /\ option.scheme \in {"exact", "upto"}
    /\ option.celestia
    /\ option.whole
    /\ option.amount > 0
    /\ option.amount <= MaxPerCall

BadCheckBudget(price) == Budget = 0 \/ spent + price <= Budget

checkBudget(price) == Budget = 0 \/ spent + price + Fee <= Budget

BadRelease(c) ==
    /\ haveSeq' = FALSE
    /\ spent' = spent - amount[c]
    /\ count' = count - 1
    /\ fate' = [fate EXCEPT ![c] = "returned"]

\* release: the price, the fee, the count and the sequence go back.
release(c) ==
    /\ haveSeq' = FALSE
    /\ spent' = spent - amount[c] - Fee
    /\ count' = count - 1
    /\ fate' = [fate EXCEPT ![c] = "returned"]

BadFree ==
    /\ mu' = NoCall
    /\ UNCHANGED <<stage, want, asking, kept, outcome, acct, ctxEnded>>

\* The mutex is free again, and the locals of Pay are gone.
Free ==
    /\ mu' = NoCall
    /\ stage' = "unlocked"
    /\ want' = 0
    /\ asking' = << >>
    /\ kept' = << >>
    /\ outcome' = "unknown"
    /\ acct' = 0
    /\ ctxEnded' = FALSE

PayerInit ==
    /\ mu = NoCall
    /\ stage = "unlocked"
    /\ want = 0
    /\ asking = << >>
    /\ kept = << >>
    /\ outcome = "unknown"
    /\ acct = 0
    /\ ctxEnded = FALSE
    /\ nextSeq = 0
    /\ haveSeq = FALSE
    /\ spent = 0
    /\ count = 0
    /\ open = << >>
    /\ amount = [c \in Calls |-> 0]
    /\ sequence = [c \in Calls |-> 0]
    /\ fate = [c \in Calls |-> "none"]
-----------------------------------------------------------------------------
\* Pay, up to the loop of resolveOpen: the option passes, the lock is taken.
PayLock(c, option) ==
    /\ mu = NoCall
    /\ checkOption(option)
    /\ mu' = c
    /\ stage' = "resolve"
    /\ want' = option.amount
    /\ asking' = open
    /\ UNCHANGED <<kept, outcome, acct, ctxEnded>>
    /\ UNCHANGED <<nextSeq, haveSeq, spent, count, open, payments>>

\* The context of the running Pay ends: the caller left, or the 180 seconds of
\* the call command are over.
CtxEnds ==
    /\ mu # NoCall
    /\ ~ctxEnded
    /\ ctxEnded' = TRUE
    /\ UNCHANGED <<mu, stage, want, asking, kept, outcome, acct>>
    /\ UNCHANGED <<nextSeq, haveSeq, spent, count, open, payments>>

\* waitForTx is under way.  A question to the chain fails once the context
\* has ended; a failed question changes nothing.
Waiting == stage = "resolve" /\ asking # << >>

BadPollFound(code) ==
    /\ Waiting
    /\ ~ctxEnded
    /\ LET c == Head(asking) IN
       /\ fate' = [fate EXCEPT ![c] = IF code = 0 THEN "landed" ELSE "feeOnly"]
       /\ spent' = IF code = 0 THEN spent ELSE spent - amount[c] - Fee
    /\ asking' = Tail(asking)
    /\ outcome' = "unknown"
    /\ UNCHANGED <<mu, stage, want, kept, acct, ctxEnded>>
    /\ UNCHANGED <<nextSeq, haveSeq, count, open, amount, sequence>>

\* TxStatus: the chain holds the transaction in a block, with this code.
PollFound(code) ==
    /\ Waiting
    /\ ~ctxEnded
    /\ LET c == Head(asking) IN
       IF code = 0
       THEN /\ fate' = [fate EXCEPT ![c] = "landed"]
            /\ UNCHANGED spent
       ELSE /\ fate' = [fate EXCEPT ![c] = "feeOnly"]
            /\ spent' = spent - amount[c]
    /\ asking' = Tail(asking)
    /\ outcome' = "unknown"
    /\ UNCHANGED <<mu, stage, want, kept, acct, ctxEnded>>
    /\ UNCHANGED <<nextSeq, haveSeq, count, open, amount, sequence>>

\* TxStatus: the chain answers that it holds no such transaction.
PollAbsent ==
    /\ Waiting
    /\ ~ctxEnded
    /\ outcome' = "absent"
    /\ UNCHANGED <<mu, stage, want, asking, kept, acct, ctxEnded>>
    /\ UNCHANGED <<nextSeq, haveSeq, spent, count, open, payments>>

BadWaitEnds ==
    /\ Waiting
    /\ release(Head(asking))
    /\ asking' = Tail(asking)
    /\ outcome' = "unknown"
    /\ UNCHANGED <<mu, stage, want, kept, acct, ctxEnded>>
    /\ UNCHANGED <<nextSeq, open, amount, sequence>>

\* waitForTx returns at its time limit, or because the context ended, and
\* resolveOpen decides by the outcome so far.
WaitEnds ==
    /\ Waiting
    /\ \/ /\ outcome = "unknown"
          /\ kept' = Append(kept, Head(asking))
          /\ UNCHANGED <<haveSeq, spent, count, fate>>
       \/ /\ outcome = "absent"
          /\ release(Head(asking))
          /\ UNCHANGED kept
    /\ asking' = Tail(asking)
    /\ outcome' = "unknown"
    /\ UNCHANGED <<mu, stage, want, acct, ctxEnded>>
    /\ UNCHANGED <<nextSeq, open, amount, sequence>>

\* resolveOpen is done; the budget admits the payment.
BudgetAdmits ==
    /\ stage = "resolve"
    /\ asking = << >>
    /\ checkBudget(want)
    /\ open' = kept
    /\ stage' = "account"
    /\ kept' = << >>
    /\ UNCHANGED <<mu, want, asking, outcome, acct, ctxEnded>>
    /\ UNCHANGED <<nextSeq, haveSeq, spent, count, payments>>

BadBudgetRefuses ==
    /\ stage = "resolve"
    /\ asking = << >>
    /\ ~checkBudget(want)
    /\ Free
    /\ UNCHANGED <<nextSeq, haveSeq, spent, count, open, payments>>

\* resolveOpen is done; the budget does not admit the payment.
BudgetRefuses ==
    /\ stage = "resolve"
    /\ asking = << >>
    /\ ~checkBudget(want)
    /\ open' = kept
    /\ Free
    /\ UNCHANGED <<nextSeq, haveSeq, spent, count, payments>>

\* Account answers with a sequence.
AccountReads(s) ==
    /\ stage = "account"
    /\ ~ctxEnded
    /\ acct' = s
    /\ stage' = "sign"
    /\ UNCHANGED <<mu, want, asking, kept, outcome, ctxEnded>>
    /\ UNCHANGED <<nextSeq, haveSeq, spent, count, open, payments>>

BadAccountFails ==
    /\ stage = "account"
    /\ stage' = "unlocked"
    /\ UNCHANGED <<mu, want, asking, kept, outcome, acct, ctxEnded>>
    /\ UNCHANGED <<nextSeq, haveSeq, spent, count, open, payments>>

\* Account fails: no answer, another network, a text that is no number.
AccountFails ==
    /\ stage = "account"
    /\ Free
    /\ UNCHANGED <<nextSeq, haveSeq, spent, count, open, payments>>

\* signTx or EncodeHeader fails.
SignFails ==
    /\ stage = "sign"
    /\ Free
    /\ UNCHANGED <<nextSeq, haveSeq, spent, count, open, payments>>

BadPickSequence == acct

\* The sequence of the next payment: the chain's, unless memory is ahead.
pickSequence == IF haveSeq /\ nextSeq > acct THEN nextSeq ELSE acct

\* Pay signs, counts the payment and returns it.
SignTx ==
    /\ stage = "sign"
    /\ amount' = [amount EXCEPT ![mu] = want]
    /\ sequence' = [sequence EXCEPT ![mu] = pickSequence]
    /\ fate' = [fate EXCEPT ![mu] = "held"]
    /\ nextSeq' = (pickSequence + 1) % SeqSpan
    /\ haveSeq' = TRUE
    /\ spent' = spent + want + Fee
    /\ count' = count + 1
    /\ Free
    /\ UNCHANGED open

\* The sidecar refused the payment of c.
Rollback(c) ==
    /\ mu = NoCall
    /\ release(c)
    /\ UNCHANGED <<frame, nextSeq, open, amount, sequence>>

\* The answer to the payment of c did not arrive.
Unresolved(c) ==
    /\ mu = NoCall
    /\ open' = Append(open, c)
    /\ fate' = [fate EXCEPT ![c] = "lost"]
    /\ UNCHANGED <<frame, nextSeq, haveSeq, spent, count, amount, sequence>>

\* The process ends, in a crash or at the time limit of Shutdown, and a new one
\* builds its Payer.  All that the payer knew was in memory; the payments that
\* were signed stay valid.
Restart ==
    /\ Free
    /\ nextSeq' = 0
    /\ haveSeq' = FALSE
    /\ spent' = 0
    /\ count' = 0
    /\ open' = << >>
    /\ fate' = [c \in Calls |-> Ledger!Forgotten(fate[c])]
    /\ UNCHANGED <<amount, sequence>>

\* Nobody holds the mutex and nobody calls.
Quiet == mu = NoCall /\ UNCHANGED payerVars

\* A caller settles a payment once, and only one whose answer it waits for.
PayerNext ==
    \/ \E c \in Calls, option \in Options : fate[c] = "none" /\ PayLock(c, option)
    \/ CtxEnds
    \/ \E code \in TxCodes : PollFound(code)
    \/ PollAbsent
    \/ WaitEnds
    \/ BudgetAdmits
    \/ BudgetRefuses
    \/ \E s \in Sequences : AccountReads(s)
    \/ AccountFails
    \/ SignFails
    \/ SignTx
    \/ \E c \in Calls : fate[c] = "held" /\ Rollback(c)
    \/ \E c \in Calls : fate[c] = "held" /\ Unresolved(c)
    \/ Restart
    \/ Quiet

PayerSpec == PayerInit /\ [][PayerNext]_payerVars
-----------------------------------------------------------------------------
Stages == {"unlocked", "resolve", "account", "sign"}

FlagsOK == ctxEnded \in BOOLEAN /\ haveSeq \in BOOLEAN

\* Type invariant: the mutex is held exactly while a Pay is in a stage, its
\* locals are reset outside it, and the counters are whole numbers.
PayerTypeOK ==
    /\ mu \in Calls \cup {NoCall}
    /\ stage \in Stages
    /\ (mu = NoCall) <=> (stage = "unlocked")
    /\ want \in 0 .. MaxPerCall
    /\ asking \in Seq(Calls)
    /\ kept \in Seq(Calls)
    /\ outcome \in {"unknown", "absent"}
    /\ acct \in Sequences
    /\ nextSeq \in Sequences
    /\ spent \in Int
    /\ count \in Int
    /\ open \in Seq(Calls)
    /\ amount \in [Calls -> 0 .. MaxPerCall]
    /\ sequence \in [Calls -> Sequences]
    /\ fate \in [Calls -> Ledger!Fates]
    /\ FlagsOK

\* The sum stays inside the budget in every order of payments, refusals, lost
\* answers and late decisions (checkBudget reads spent before Account and
\* signTx run; only the mutex keeps that reading fresh).
WithinBudget == Budget = 0 \/ spent <= Budget

\* The running counters never drift: spent and count are what the payments
\* that stand add up to, however they were released, kept or charged the fee.
LedgerExact == /\ spent = Ledger!Total
               /\ count = Cardinality(Ledger!Made)

\* The payments in a list, and a list that names none of them twice.
Listed(s) == {s[i] : i \in DOMAIN s}
NoTwice(s) == \A i, j \in DOMAIN s : s[i] = s[j] => i = j

\* The list that the payer still has to ask the chain about.
OpenNow == IF stage = "resolve" THEN kept \o asking ELSE open

\* The open list holds exactly the payments whose answer is missing, each one
\* time: resolveOpen forgets none of them, and releases none of them twice.
OpenExact ==
    /\ NoTwice(OpenNow)
    /\ \A c \in Calls : fate[c] = "lost" <=> c \in Listed(OpenNow)

\* Two payments share an account sequence only after some payment was given
\* back (release forgets the sequence), a restart forgot it, or the uint64 ran
\* out.
Signed == {c \in Calls : fate[c] # "none"}
NoReuseWithoutRelease ==
    \/ \A c, d \in Signed : sequence[c] = sequence[d] => c = d
    \/ \E c \in Calls : fate[c] \in {"returned", "forgotten"}
    \/ \E c \in Signed : sequence[c] = SeqSpan - 1

\* The payer implements the abstract ledger: its budget check on the running
\* counter, made before it asks for the account, is a check on the true sum.
LedgerSpec == Ledger!Spec
-----------------------------------------------------------------------------
\* The inductive strengthening behind the theorems of Payer_proofs.

\* What the lists hold in each stage.  The running Pay has signed nothing.
ListsExact ==
    /\ mu # NoCall => fate[mu] = "none"
    /\ stage = "resolve" =>
        /\ NoTwice(asking)
        /\ NoTwice(kept)
        /\ Listed(asking) \cap Listed(kept) = {}
        /\ \A c \in Calls : fate[c] = "lost" <=> c \in Listed(asking) \cup Listed(kept)
    /\ stage # "resolve" =>
        /\ asking = << >>
        /\ kept = << >>
        /\ NoTwice(open)
        /\ \A c \in Calls : fate[c] = "lost" <=> c \in Listed(open)

\* An admitted payment still fits the budget when it is signed.
BudgetHeld ==
    \/ Budget = 0
    \/ /\ spent <= Budget
       /\ stage \in {"account", "sign"} => spent + want + Fee <= Budget

\* Until a payment is given back or forgotten, memory is ahead of every signed
\* sequence.
MemoryAhead ==
    \/ \E c \in Calls : fate[c] \in {"returned", "forgotten"}
    \/ \E c \in Signed : sequence[c] = SeqSpan - 1
    \/ /\ \A c \in Signed : haveSeq /\ sequence[c] < nextSeq
       /\ \A c, d \in Signed : sequence[c] = sequence[d] => c = d

\* An admitted price is a price, so a signed payment counts for itself.
WantIsPrice == stage # "unlocked" => want > 0
=============================================================================

----------------------------- MODULE PaidCalls -----------------------------
(***************************************************************************)
(* The paid call end to end: Client.Do (src/payer/client.go) of several    *)
(* concurrent callers, the proxy that makes the calls and serves a status  *)
(* route (src/payer/proxy.go), the Payer they share, the process of serve  *)
(* (cmd/x402-celestia-rpc-payer/main.go) that may end and start again, and *)
(* outside the repository the sidecar, the network and the chain.          *)
(*                                                                         *)
(* Always possible: a send that fails, an answer that is lost before or    *)
(* after the sidecar acted, a refusal, a 5xx answer, a question to the     *)
(* chain that fails, a transaction that fails in its block.  Faults names  *)
(* what may happen beyond that:                                            *)
(*                                                                         *)
(*   ctx        the context of a call ends while the payer asks the chain  *)
(*   drop       the chain stops answering after it answered "not there"    *)
(*   late       a payment reaches a block after the time limit of the wait *)
(*   redeliver  the HTTP transport sends the paid request a second time    *)
(***************************************************************************)
EXTENDS Payer, PaymentRequired

CONSTANTS
    NoOption,  \* a call that holds no payment option
    NoAnswer,  \* no answer is on its way to the call
    Readers,   \* the readers of /x402/payer/status
    Required,  \* the 402 answers that the sidecar may give
    Faults,
    MaxRestarts  \* the bound on the number of restarts of the process

ASSUME FaultsAssumption ==
    Faults \subseteq {"ctx", "drop", "late", "redeliver"} /\ MaxRestarts \in Nat
ASSUME NoOptionAssumption == NoOption \notin Options
ASSUME RequiredAssumption ==
    \A a \in Required : Listed(readPaymentRequired(a)) \subseteq Options

VARIABLES
    pc,        \* pc[c]: where the call stands in Do, and how it ended
    cmu,       \* the call that holds c.mu, or NoCall
    option,    \* option[c]: what pickOption returned
    answer,    \* answer[c]: the sidecar's answer to the paid request
    inbox,     \* the paid requests that the sidecar has not handled
    mempool,   \* the broadcast transactions, each named by its call
    code,      \* code[c]: the code in the block, NoAnswer before that
    chainSeq,  \* the account sequence of the last block
    report,    \* report[r]: what a status answer holds so far
    restarts   \* how often the process ended

clientVars == <<pc, cmu, option>>
worldVars == <<answer, inbox, mempool, code, chainSeq>>
vars == <<payerVars, clientVars, worldVars, report, restarts>>
-----------------------------------------------------------------------------
\* An answer: its status and the status in its Payment-Response header.
Answers == {<<200, "success">>, <<500, "nil">>, <<402, "nil">>, <<200, "failed">>}

ASSUME NoAnswerAssumption == NoAnswer \notin Answers /\ NoAnswer \notin TxCodes

BadPaymentWorked(a) == a[1] < 400 /\ a[2] # "failed"

paymentWorked(a) == a[1] # 402 /\ a[2] # "failed"

\* The call is over, and with what: an answer without a payment, an error (502
\* of the proxy), the first 402, a paid answer, a refused payment, a lost answer
\* (502 again), or it ended with its process.
Ended == {"free", "error", "gave402", "paid", "refused", "lost", "killed"}

\* The chain knows a transaction by its hash, so by its bytes.  Only payments
\* with the same price and sequence can have the same bytes; whom they pay and
\* the account number, which are not modelled, may still tell them apart.
SameTx(c, d) == amount[c] = amount[d] /\ sequence[c] = sequence[d]
InBlock == {c \in Calls : code[c] # NoAnswer}

\* The payment of c can no longer reach a block that does not hold it yet.
Settled(c) == c \notin inbox /\ \A i \in DOMAIN mempool : mempool[i] # c

\* What a status answer holds so far.
Report(step, sum, list) == [step |-> step, spent |-> sum, open |-> list]

Init ==
    /\ PayerInit
    /\ pc = [c \in Calls |-> "first"]
    /\ cmu = NoCall
    /\ option = [c \in Calls |-> NoOption]
    /\ answer = [c \in Calls |-> NoAnswer]
    /\ inbox = {}
    /\ mempool = << >>
    /\ code = [c \in Calls |-> NoAnswer]
    /\ chainSeq = 0
    /\ report = [r \in Readers |-> Report("none", 0, << >>)]
    /\ restarts = 0
-----------------------------------------------------------------------------
\* ServeHTTP answers the call itself: a path below /x402/payer, /websocket, or
\* a body that it cannot read.
ServesItself(c) ==
    /\ pc[c] = "first"
    /\ pc' = [pc EXCEPT ![c] = "free"]
    /\ UNCHANGED <<payerVars, cmu, option, worldVars, report, restarts>>

\* Do: the first send.  It fails, or its answer needs no payment, or the body
\* of its 402 cannot be read or there is no wallet, or it is a 402 from which
\* pickOption takes an option or none.
FirstTry(c) ==
    /\ pc[c] = "first"
    /\ \/ /\ \E e \in {"error", "free", "gave402"} : pc' = [pc EXCEPT ![c] = e]
          /\ UNCHANGED option
       \/ \E a \in Required :
             LET picked == pickOption(readPaymentRequired(a), Network) IN
             \/ /\ picked = {}
                /\ pc' = [pc EXCEPT ![c] = "gave402"]
                /\ UNCHANGED option
             \/ /\ pc' = [pc EXCEPT ![c] = "lock"]
                /\ \E o \in picked : option' = [option EXCEPT ![c] = o]
    /\ UNCHANGED <<payerVars, cmu, worldVars, report, restarts>>

BadLockClient(c) ==
    /\ pc[c] = "lock"
    /\ cmu' = c
    /\ pc' = [pc EXCEPT ![c] = "pay"]
    /\ UNCHANGED <<payerVars, option, worldVars, report, restarts>>

\* c.mu.Lock()
LockClient(c) ==
    /\ pc[c] = "lock"
    /\ cmu = NoCall
    /\ cmu' = c
    /\ pc' = [pc EXCEPT ![c] = "pay"]
    /\ UNCHANGED <<payerVars, option, worldVars, report, restarts>>

\* Do returns with result e: the deferred unlock runs, the option is gone.
Return(c, e) ==
    /\ pc' = [pc EXCEPT ![c] = e]
    /\ cmu' = NoCall
    /\ option' = [option EXCEPT ![c] = NoOption]

BadOptionRefused(c) ==
    /\ pc[c] = "pay"
    /\ ~checkOption(option[c])
    /\ pc' = [pc EXCEPT ![c] = "gave402"]
    /\ UNCHANGED <<payerVars, cmu, option, worldVars, report, restarts>>

\* Pay returns an error before it takes p.mu: a rule of checkOption fails.
OptionRefused(c) ==
    /\ pc[c] = "pay"
    /\ ~checkOption(option[c])
    /\ Return(c, "gave402")
    /\ UNCHANGED <<payerVars, worldVars, report, restarts>>

\* Pay takes p.mu.
Pay(c) ==
    /\ pc[c] = "pay"
    /\ PayLock(c, option[c])
    /\ UNCHANGED <<clientVars, worldVars, report, restarts>>

\* The context of the call ends while it asks the chain.  Elsewhere an ended
\* context is one of the failures that are always possible.
CallerLeaves ==
    /\ "ctx" \in Faults
    /\ Waiting
    /\ CtxEnds
    /\ UNCHANGED <<clientVars, worldVars, report, restarts>>

\* A question to the chain about the payment at hand is answered, perhaps by a
\* transaction with the same bytes.
AskChain ==
    /\ Waiting
    /\ \/ \E d \in InBlock : SameTx(Head(asking), d) /\ PollFound(code[d])
       \/ Head(asking) \notin InBlock /\ PollAbsent
    /\ UNCHANGED <<clientVars, worldVars, report, restarts>>

\* The wait for the payment at hand ends.  Without "drop", the last question
\* was answered; without "late", the time limit is long enough for a payment
\* on its way to reach its block.
StopAsking ==
    /\ Waiting
    /\ \/ outcome = "unknown"
       \/ ctxEnded
       \/ /\ "drop" \in Faults \/ Head(asking) \notin InBlock
          /\ "late" \in Faults \/ Settled(Head(asking))
    /\ WaitEnds
    /\ UNCHANGED <<clientVars, worldVars, report, restarts>>

Admitted == BudgetAdmits /\ UNCHANGED <<clientVars, worldVars, report, restarts>>

\* The account route of the sidecar gives the sequence of the last block.  A
\* number that is no uint64 is one of the failures of Account.
ReadAccount ==
    /\ chainSeq \in Sequences
    /\ AccountReads(chainSeq)
    /\ UNCHANGED <<clientVars, worldVars, report, restarts>>

\* Pay returns an error under p.mu; Do gives the first 402 back.
PayFails ==
    /\ BudgetRefuses \/ AccountFails \/ SignFails
    /\ Return(mu, "gave402")
    /\ UNCHANGED <<worldVars, report, restarts>>

Signs ==
    /\ SignTx
    /\ pc' = [pc EXCEPT ![mu] = "send"]
    /\ UNCHANGED <<cmu, option, worldVars, report, restarts>>

\* The paid request leaves.
Send(c) ==
    /\ pc[c] = "send"
    /\ pc' = [pc EXCEPT ![c] = "await"]
    /\ inbox' = inbox \cup {c}
    /\ UNCHANGED <<payerVars, cmu, option, answer, mempool, code, chainSeq, report, restarts>>

BadAnswerLost(c) ==
    /\ pc[c] \in {"send", "await"}
    /\ Rollback(c)
    /\ Return(c, "lost")
    /\ answer' = [answer EXCEPT ![c] = NoAnswer]
    /\ UNCHANGED <<inbox, mempool, code, chainSeq, report, restarts>>

\* The paid send returns an error: it never left, or its answer is lost.
AnswerLost(c) ==
    /\ pc[c] \in {"send", "await"}
    /\ Unresolved(c)
    /\ Return(c, "lost")
    /\ answer' = [answer EXCEPT ![c] = NoAnswer]
    /\ UNCHANGED <<inbox, mempool, code, chainSeq, report, restarts>>

BadAnswerKept(c) ==
    /\ pc[c] = "await"
    /\ answer[c] # NoAnswer
    /\ Return(c, IF paymentWorked(answer[c]) THEN "paid" ELSE "refused")
    /\ answer' = [answer EXCEPT ![c] = NoAnswer]
    /\ UNCHANGED <<payerVars, inbox, mempool, code, chainSeq, report, restarts>>

BadAnswerRetried(c) ==
    /\ pc[c] = "await"
    /\ answer[c] # NoAnswer
    /\ \/ /\ paymentWorked(answer[c])
          /\ Return(c, "paid")
          /\ UNCHANGED payerVars
       \/ /\ ~paymentWorked(answer[c])
          /\ Rollback(c)
          /\ Return(c, "send")
    /\ answer' = [answer EXCEPT ![c] = NoAnswer]
    /\ UNCHANGED <<inbox, mempool, code, chainSeq, report, restarts>>

\* The answer of the paid send arrives.
AnswerArrives(c) ==
    /\ pc[c] = "await"
    /\ answer[c] # NoAnswer
    /\ \/ /\ paymentWorked(answer[c])
          /\ Return(c, "paid")
          /\ UNCHANGED payerVars
       \/ /\ ~paymentWorked(answer[c])
          /\ Rollback(c)
          /\ Return(c, "refused")
    /\ answer' = [answer EXCEPT ![c] = NoAnswer]
    /\ UNCHANGED <<inbox, mempool, code, chainSeq, report, restarts>>
-----------------------------------------------------------------------------
\* The sidecar answers the paid request of c, if somebody still waits.
Answering(c, a) ==
    /\ c \in inbox
    /\ inbox' = inbox \ {c}
    /\ answer' = [answer EXCEPT ![c] = IF pc[c] = "await" THEN a ELSE NoAnswer]

\* The mempool takes only the next sequence of the account.
CheckTx(c) == sequence[c] = chainSeq + Len(mempool)

\* The sidecar broadcasts the payment and serves the call, or breaks after.
AfterBroadcast == {<<200, "success">>, <<500, "nil">>}
SidecarBroadcasts(c) ==
    /\ \E a \in AfterBroadcast : Answering(c, a)
    /\ CheckTx(c)
    /\ mempool' = Append(mempool, c)
    /\ UNCHANGED <<payerVars, clientVars, code, chainSeq, report, restarts>>

\* The sidecar broadcasts nothing: it refuses the payment, or it breaks.
SidecarDeclines(c) ==
    /\ \E a \in Answers : a # <<200, "success">> /\ Answering(c, a)
    /\ UNCHANGED <<payerVars, clientVars, mempool, code, chainSeq, report, restarts>>

\* The first transaction of the mempool reaches a block, with a code.
Block ==
    /\ mempool # << >>
    /\ \E k \in TxCodes : code' = [code EXCEPT ![Head(mempool)] = k]
    /\ mempool' = Tail(mempool)
    /\ chainSeq' = chainSeq + 1
    /\ UNCHANGED <<payerVars, clientVars, answer, inbox, report, restarts>>

\* The connection breaks before the answer, and the transport of Go sends the
\* request again on a new one.
Redeliver(c) ==
    /\ "redeliver" \in Faults
    /\ pc[c] = "await"
    /\ answer[c] # NoAnswer
    /\ answer' = [answer EXCEPT ![c] = NoAnswer]
    /\ inbox' = inbox \cup {c}
    /\ UNCHANGED <<payerVars, clientVars, mempool, code, chainSeq, report, restarts>>
-----------------------------------------------------------------------------
\* The status route: Spent() and then Open(), each under p.mu.
ReadSpent(r) ==
    /\ report[r].step = "none"
    /\ mu = NoCall
    /\ report' = [report EXCEPT ![r] = Report("spent", spent, << >>)]
    /\ UNCHANGED <<payerVars, clientVars, worldVars, restarts>>

ReadOpen(r) ==
    /\ report[r].step = "spent"
    /\ mu = NoCall
    /\ report' = [report EXCEPT ![r] = Report("done", report[r].spent, open)]
    /\ UNCHANGED <<payerVars, clientVars, worldVars, restarts>>
-----------------------------------------------------------------------------
\* serve ends: it crashes, or the 10 seconds of Shutdown pass while calls are
\* in flight, and it is started again.  The payments that were sent stay with
\* the sidecar and the chain.
ProcessEnds ==
    /\ restarts < MaxRestarts
    /\ restarts' = restarts + 1
    /\ Restart
    /\ pc' = [c \in Calls |-> IF pc[c] \in Ended \cup {"first"} THEN pc[c] ELSE "killed"]
    /\ cmu' = NoCall
    /\ option' = [c \in Calls |-> NoOption]
    /\ answer' = [c \in Calls |-> NoAnswer]
    /\ report' = [r \in Readers |->
                    IF report[r].step = "spent" THEN Report("killed", report[r].spent, << >>)
                    ELSE report[r]]
    /\ UNCHANGED <<inbox, mempool, code, chainSeq>>
-----------------------------------------------------------------------------
\* Every call has returned and the world is at rest.
AtRest ==
    /\ \A c \in Calls : pc[c] \in Ended
    /\ \A r \in Readers : report[r].step \in {"done", "killed"}
    /\ inbox = {} /\ mempool = << >>
    /\ UNCHANGED vars

\* The running Pay goes on.
PayerStep == AskChain \/ StopAsking \/ Admitted \/ ReadAccount \/ PayFails \/ Signs

CallStep(c) == ServesItself(c) \/ FirstTry(c) \/ LockClient(c) \/ OptionRefused(c)
               \/ Pay(c) \/ Send(c) \/ AnswerLost(c) \/ AnswerArrives(c)

WorldStep(c) == SidecarBroadcasts(c) \/ SidecarDeclines(c) \/ Redeliver(c)

Next ==
    \/ PayerStep
    \/ CallerLeaves
    \/ ProcessEnds
    \/ \E c \in Calls : CallStep(c) \/ WorldStep(c)
    \/ Block
    \/ \E r \in Readers : ReadSpent(r) \/ ReadOpen(r)
    \/ AtRest

Spec == Init /\ [][Next]_vars

\* The code goes on by itself: Do between its sends, which end at the latest
\* after the 120 seconds of the HTTP client; Pay and its wait, which has a
\* time limit; both mutexes, which Go hands to a waiter that starves.  The
\* sidecar, the chain and the network promise nothing.
Fairness ==
    /\ \A c \in Calls : WF_vars(CallStep(c))
    /\ WF_vars(PayerStep)
    /\ \A r \in Readers : WF_vars(ReadSpent(r)) /\ WF_vars(ReadOpen(r))

FairSpec == Spec /\ Fairness
-----------------------------------------------------------------------------
\* Type invariant of the client, the world and the status answers.  c.mu belongs
\* to a call that is between its Lock and its return.
TypeOK ==
    /\ PayerTypeOK
    /\ pc \in [Calls -> {"first", "lock", "pay", "send", "await"} \cup Ended]
    /\ cmu \in Calls \cup {NoCall}
    /\ cmu # NoCall => pc[cmu] \in {"pay", "send", "await"}
    /\ option \in [Calls -> Options \cup {NoOption}]
    /\ answer \in [Calls -> Answers \cup {NoAnswer}]
    /\ inbox \subseteq Calls
    /\ mempool \in Seq(Calls)
    /\ code \in [Calls -> TxCodes \cup {NoAnswer}]
    /\ chainSeq \in Nat
    /\ report \in [Readers -> [step : {"none", "spent", "done", "killed"},
                              spent : Int, open : Seq(Calls)]]
    /\ restarts \in 0 .. MaxRestarts

\* What the chain took for the payment that call c carried, unless it was an
\* earlier process that signed and counted it.
Took(c) == IF c \notin InBlock \/ fate[c] = "forgotten" THEN 0
           ELSE IF code[c] = 0 THEN amount[c] + Fee
           ELSE Fee
TotalTaken == SumOf(Calls, MaxPerCall + Fee, [c \in Calls |-> Took(c)])

\* The budget stops early and never late: the payer has counted all the money
\* that the chain took of this process, at every moment and for every order of
\* lost answers, refusals, broadcasts, blocks and decisions of resolveOpen, and
\* although payments of an earlier process arrive meanwhile, with sequences and
\* even bytes that the new process signs again.
NeverLate == TotalTaken <= spent

\* What the chain took for payments that the payer has given back.
TakenBack == SumOf(Calls, MaxPerCall + Fee,
                   [c \in Calls |-> IF fate[c] = "returned" THEN Took(c) ELSE 0])

\* Whatever faults happen, giving a payment back is all that makes the budget
\* late: a payment that is held, lost, found or charged its fee is counted with
\* at least what the chain took for it, although the chain is asked by bytes
\* that another payment may share, and answers may come late, twice or never.
LateOnlyByReturns == TotalTaken <= spent + TakenBack

\* A payment that the sidecar refused, and that Do rolled back, never reaches a
\* block, as long as no request is delivered twice: not when the caller leaves
\* or the chain falls silent meanwhile, nor after a restart.
RefusedNeverTaken == \A c \in Calls : pc[c] = "refused" => c \notin InBlock

\* A payment that resolveOpen gives back never reaches a block, as long as each
\* wait runs to its time limit, is answered to its end and is long enough: not
\* even when requests are delivered twice.
WaitedNeverTaken ==
    \A c \in Calls : pc[c] = "lost" /\ fate[c] = "returned" => c \notin InBlock

\* Do tells the caller what the ledger holds: a paid call stays counted in
\* full while its process runs, a call given back is counted as nothing, and
\* only a lost answer leaves the count to the chain.
ReceiptMatchesLedger ==
    \A c \in Calls :
        /\ pc[c] \in {"send", "await"} => fate[c] = "held"
        /\ pc[c] = "paid" => fate[c] \in {"held", "forgotten"}
        /\ pc[c] = "refused" => fate[c] = "returned"
        /\ pc[c] = "lost" => fate[c] \in Ledger!Fates \ {"none", "held"}
        /\ pc[c] = "killed" => fate[c] \in {"none", "forgotten"}
        /\ pc[c] \in {"first", "lock", "pay", "free", "error", "gave402"} => fate[c] = "none"

\* While a payment is on its way nobody signs and nobody is released: the
\* memory of the payer is the sequence that follows it.  That is what c.mu
\* adds to p.mu, which Pay gives up before the paid send.
NewestInFlight ==
    \A c \in Calls : pc[c] \in {"send", "await"} =>
        /\ cmu = c
        /\ haveSeq
        /\ nextSeq = (sequence[c] + 1) % SeqSpan

\* The payment on its way is the one that the 402 of the same call offered for
\* the network of the payer, at that price and inside the limit of one call,
\* although the sidecar writes every field of the offer.
PaysItsOffer ==
    \A c \in Calls : pc[c] \in {"send", "await"} =>
        /\ option[c] # NoOption
        /\ option[c].network = Network /\ option[c].asset = Asset
        /\ amount[c] = option[c].amount
        /\ amount[c] \in 1 .. MaxPerCall

\* Client.Do uses the Payer as PayerSpec expects: it settles every payment at
\* most once, and only while it waits for the answer.
ImplementsPayer == PayerSpec

\* No two payments that count against the budget carry the same sequence.
StandingDistinct ==
    \A c, d \in Calls :
        /\ fate[c] \in Ledger!InFull
        /\ fate[d] \in Ledger!InFull
        /\ sequence[c] = sequence[d]
        => c = d

\* A status answer counts each payment that it lists as unresolved.
ListedIn(r, c) == IF c \in Listed(report[r].open) THEN amount[c] + Fee ELSE 0
StatusCountsOpen ==
    \A r \in Readers : report[r].step = "done" =>
        SumOf(Calls, MaxPerCall + Fee, [c \in Calls |-> ListedIn(r, c)]) <= report[r].spent

\* Every call of Do returns or ends with its process, whatever the sidecar, the
\* chain and the network do, and however long the list of open payments is.
EveryCallEnds == \A c \in Calls : <>(pc[c] \in Ended)

\* The status route answers while its process runs, although it waits for p.mu,
\* which Pay holds while it asks the chain.
StatusAnswers == \A r \in Readers : <>(report[r].step \in {"done", "killed"})
-----------------------------------------------------------------------------
\* The inductive strengthening behind the theorems of PaidCalls_proofs.

\* A call past c.mu.Lock() holds c.mu, so the running Pay is the only one, and
\* it pays for the option of its own call.
LocksHeld ==
    /\ \A c \in Calls : pc[c] \in {"pay", "send", "await"} => cmu = c
    /\ mu # NoCall => /\ pc[mu] = "pay"
                      /\ checkOption(option[mu])
                      /\ want = option[mu].amount

\* A call that wants to pay has an option of the network, and a call that paid
\* has paid that option.
OfferHeld ==
    \A c \in Calls :
        /\ pc[c] \in {"lock", "pay", "send", "await"} =>
              option[c] \in Options /\ option[c].network = Network
        /\ pc[c] \in {"send", "await"} =>
              checkOption(option[c]) /\ amount[c] = option[c].amount

\* The payment of c has not reached the chain and the mempool, and it is not
\* with the sidecar either.
Untouched(c) == c \notin InBlock /\ c \notin Listed(mempool)
Unsent(c) == c \notin inbox /\ Untouched(c)

\* The chain takes one transaction per sequence, in the order of the sequences,
\* and no payment that nobody signed.
ChainOrder ==
    /\ \A i \in DOMAIN mempool : sequence[mempool[i]] = chainSeq + i - 1
    /\ \A c \in InBlock : sequence[c] < chainSeq
    /\ \A c, d \in InBlock : sequence[c] = sequence[d] => c = d
    /\ \A c \in Calls : fate[c] = "none" => Unsent(c)

\* A payment that the payer charged its fee for has failed in its block, or
\* the chain has passed its sequence without it.
FeeCharged ==
    \A c \in Calls : fate[c] = "feeOnly" => sequence[c] < chainSeq /\ code[c] # 0

\* A payment is delivered once, and a refusal says that the chain has not got
\* it and will not get it.
DeliveredOnce ==
    \A c \in Calls :
        /\ pc[c] = "send" => Unsent(c)
        /\ c \in inbox => Untouched(c)
        /\ answer[c] # NoAnswer => pc[c] = "await" /\ c \notin inbox
        /\ answer[c] # NoAnswer /\ ~paymentWorked(answer[c]) => Untouched(c)
        /\ pc[c] = "refused" => Unsent(c)

\* What the payer gave back after a wait is nowhere on its way.
WaitedUnsent ==
    \A c \in Calls : pc[c] = "lost" /\ fate[c] = "returned" => Unsent(c)
=============================================================================

-------------------------- MODULE PaidCalls_proofs --------------------------
(***************************************************************************)
(* The calls of Client.Do use the payer as Payer.tla expects, for every    *)
(* number of calls and under every fault.                                  *)
(***************************************************************************)
EXTENDS PaidCalls, PayerLedger_proofs

\* What every step keeps, under every fault.
CallInv == /\ TypeOK
           /\ ListsExact
           /\ LocksHeld
           /\ OfferHeld
           /\ ReceiptMatchesLedger
           /\ NewestInFlight

\* The steps of the client, the world and the status route that the payer does
\* not see.
Unseen(c) == \/ ServesItself(c) \/ FirstTry(c) \/ LockClient(c)
             \/ OptionRefused(c) \/ Send(c)
             \/ SidecarBroadcasts(c) \/ SidecarDeclines(c) \/ Redeliver(c)

LEMMA UnseenSteps ==
  ASSUME \/ \E c \in Calls : Unseen(c)
         \/ Block \/ AtRest \/ UNCHANGED vars
         \/ \E r \in Readers : ReadSpent(r) \/ ReadOpen(r)
  PROVE  UNCHANGED payerVars
<1>1. ASSUME NEW c \in Calls, Unseen(c)
      PROVE  UNCHANGED payerVars
  BY <1>1 DEF Unseen, ServesItself, FirstTry, LockClient, OptionRefused, Send,
     SidecarBroadcasts, SidecarDeclines, Redeliver
<1>2. ASSUME NEW r \in Readers, ReadSpent(r) \/ ReadOpen(r)
      PROVE  UNCHANGED payerVars
  BY <1>2 DEF ReadSpent, ReadOpen
<1>3. ASSUME Block \/ AtRest \/ UNCHANGED vars
      PROVE  UNCHANGED payerVars
  BY <1>3 DEF Block, AtRest, vars
<1> QED
  BY <1>1, <1>2, <1>3

\* A call that pays has an option, and has signed nothing.
LEMMA PayingCall ==
  ASSUME CallInv, NEW c \in Calls, pc[c] = "pay"
  PROVE  cmu = c /\ option[c] \in Options /\ fate[c] = "none"
  BY DEF CallInv, LocksHeld, OfferHeld, ReceiptMatchesLedger

\* A call whose payment is on its way holds it.
LEMMA SendingCall ==
  ASSUME CallInv, NEW c \in Calls, pc[c] \in {"send", "await"}
  PROVE  cmu = c /\ fate[c] = "held"
  BY DEF CallInv, LocksHeld, ReceiptMatchesLedger

\* The payer allows every step of the calls.
LEMMA UsesPayer == CallInv /\ [Next]_vars => [PayerNext]_payerVars
<1> SUFFICES ASSUME CallInv, [Next]_vars
             PROVE  [PayerNext]_payerVars
  OBVIOUS
<1>1. ASSUME NEW c \in Calls, Pay(c)
      PROVE  PayerNext
  <2>1. option[c] \in Options /\ fate[c] = "none" /\ PayLock(c, option[c])
    BY <1>1, PayingCall DEF Pay
  <2> QED
    BY <2>1 DEF PayerNext
<1>2. CASE AskChain
  <2>1. ASSUME NEW d \in InBlock, PollFound(code[d])
        PROVE  PayerNext
    <3>1. code[d] \in TxCodes
      BY DEF CallInv, TypeOK, InBlock
    <3> QED
      BY <2>1, <3>1 DEF PayerNext
  <2> QED
    BY <1>2, <2>1 DEF AskChain, PayerNext
<1>3. CASE ReadAccount
  BY <1>3 DEF ReadAccount, PayerNext
<1>4. CASE PayFails
  BY <1>4 DEF PayFails, PayerNext
<1>5. CASE CallerLeaves \/ StopAsking \/ Admitted \/ Signs \/ ProcessEnds
  BY <1>5 DEF CallerLeaves, StopAsking, Admitted, Signs, ProcessEnds, PayerNext
<1>6. ASSUME NEW c \in Calls, AnswerLost(c)
      PROVE  PayerNext
  <2>1. fate[c] = "held" /\ Unresolved(c)
    BY <1>6, SendingCall DEF AnswerLost
  <2> QED
    BY <2>1 DEF PayerNext
<1>7. ASSUME NEW c \in Calls, AnswerArrives(c)
      PROVE  PayerNext \/ UNCHANGED payerVars
  <2>1. fate[c] = "held" /\ (Rollback(c) \/ UNCHANGED payerVars)
    BY <1>7, SendingCall DEF AnswerArrives
  <2> QED
    BY <2>1 DEF PayerNext
<1> QED
  BY <1>1, <1>2, <1>3, <1>4, <1>5, <1>6, <1>7, UnseenSteps
  DEF Next, PayerStep, CallStep, WorldStep, Unseen
-----------------------------------------------------------------------------
\* Types.

ClientTypes == /\ pc \in [Calls -> {"first", "lock", "pay", "send", "await"} \cup Ended]
               /\ cmu \in Calls \cup {NoCall}
               /\ cmu # NoCall => pc[cmu] \in {"pay", "send", "await"}
               /\ option \in [Calls -> Options \cup {NoOption}]

WorldTypes == /\ answer \in [Calls -> Answers \cup {NoAnswer}]
              /\ inbox \subseteq Calls
              /\ mempool \in Seq(Calls)
              /\ code \in [Calls -> TxCodes \cup {NoAnswer}]
              /\ chainSeq \in Nat

ReportTypes == /\ report \in [Readers -> [step : {"none", "spent", "done", "killed"},
                                          spent : Int, open : Seq(Calls)]]
               /\ restarts \in 0 .. MaxRestarts

\* An option that pickOption finds is one of the options of the 402 answer.
LEMMA PickedOption ==
  ASSUME NEW a \in Required, NEW o \in pickOption(readPaymentRequired(a), Network)
  PROVE  o \in Options /\ o.network = Network
<1>1. o \in Listed(readPaymentRequired(a)) /\ o.network = Network
  BY DEF pickOption, Listed
<1> QED
  BY <1>1, RequiredAssumption

\* The call that holds p.mu is a call.
LEMMA RunningCall ==
  ASSUME CallInv, mu # NoCall
  PROVE  /\ mu \in Calls /\ pc[mu] = "pay" /\ cmu = mu /\ fate[mu] = "none"
         /\ option[mu] \in Options /\ checkOption(option[mu]) /\ want = option[mu].amount
<1>1. mu \in Calls
  BY DEF CallInv, TypeOK, PayerTypeOK
<1> QED
  BY <1>1, PayingCall DEF CallInv, LocksHeld

\* Pay is under way exactly while p.mu is held.
LEMMA StageRuns ==
  ASSUME CallInv, stage # "unlocked" \/ Waiting
  PROVE  mu # NoCall
  BY DEF CallInv, TypeOK, PayerTypeOK, Waiting

\* Every step keeps the types.
LEMMA ClientTypeStep == CallInv /\ [Next]_vars => ClientTypes'
<1> SUFFICES ASSUME CallInv, [Next]_vars
             PROVE  ClientTypes'
  OBVIOUS
<1>0. ClientTypes
  BY DEF CallInv, TypeOK, ClientTypes
<1>1. CASE UNCHANGED clientVars
  BY <1>0, <1>1 DEF clientVars, ClientTypes
<1>2. ASSUME NEW c \in Calls, NEW e \in Ended, Return(c, e)
      PROVE  ClientTypes'
  BY <1>0, <1>2 DEF Return, ClientTypes
<1>3. ASSUME NEW c \in Calls, FirstTry(c)
      PROVE  ClientTypes'
  <2>1. \/ UNCHANGED option
        \/ \E o \in Options : option' = [option EXCEPT ![c] = o]
    BY <1>3, PickedOption DEF FirstTry
  <2>2. \E e \in {"error", "free", "gave402", "lock"} : pc' = [pc EXCEPT ![c] = e]
    BY <1>3 DEF FirstTry
  <2>3. UNCHANGED cmu /\ cmu # c
    BY <1>0, <1>3, CallsAssumption DEF FirstTry, ClientTypes
  <2>4. option' \in [Calls -> Options \cup {NoOption}]
    BY <1>0, <2>1 DEF ClientTypes
  <2> QED
    BY <1>0, <2>2, <2>3, <2>4 DEF ClientTypes, Ended
<1>4. ASSUME NEW c \in Calls,
             ServesItself(c) \/ LockClient(c) \/ Send(c)
      PROVE  ClientTypes'
  BY <1>0, <1>4 DEF ServesItself, LockClient, Send, ClientTypes, Ended
<1>5. ASSUME NEW c \in Calls, OptionRefused(c) \/ AnswerLost(c) \/ AnswerArrives(c)
      PROVE  ClientTypes'
  BY <1>2, <1>5 DEF OptionRefused, AnswerLost, AnswerArrives, Ended
<1>6. CASE PayFails
  <2>1. mu \in Calls
    BY <1>6, StageRuns, RunningCall
    DEF PayFails, BudgetRefuses, AccountFails, SignFails
  <2> QED
    BY <1>2, <1>6, <2>1 DEF PayFails, Ended
<1>7. CASE Signs
  BY <1>0, <1>7 DEF Signs, ClientTypes
<1>8. CASE ProcessEnds
  BY <1>0, <1>8 DEF ProcessEnds, ClientTypes, Ended
<1>9. ASSUME NEW c \in Calls, Pay(c) \/ WorldStep(c)
      PROVE  UNCHANGED clientVars
  BY <1>9 DEF Pay, WorldStep, SidecarBroadcasts, SidecarDeclines, Redeliver
<1>10. ASSUME NEW r \in Readers, ReadSpent(r) \/ ReadOpen(r)
       PROVE  UNCHANGED clientVars
  BY <1>10 DEF ReadSpent, ReadOpen
<1>11. CASE \/ AskChain \/ StopAsking \/ Admitted \/ ReadAccount
            \/ CallerLeaves \/ Block \/ AtRest \/ UNCHANGED vars
  BY <1>1, <1>11 DEF AskChain, StopAsking, Admitted, ReadAccount, CallerLeaves,
     Block, AtRest, vars
<1> QED
  BY <1>1, <1>3, <1>4, <1>5, <1>6, <1>7, <1>8, <1>9, <1>10, <1>11
  DEF Next, PayerStep, CallStep

\* Do takes an answer that follows a broadcast for a payment that worked.
LEMMA ServedWorked == \A a \in AfterBroadcast : a \in Answers /\ paymentWorked(a)
  BY DEF AfterBroadcast, Answers, paymentWorked

LEMMA WorldTypeStep == CallInv /\ [Next]_vars => WorldTypes'
<1> SUFFICES ASSUME CallInv, [Next]_vars
             PROVE  WorldTypes'
  OBVIOUS
<1>0. WorldTypes
  BY DEF CallInv, TypeOK, WorldTypes
<1>1. CASE UNCHANGED worldVars
  BY <1>0, <1>1 DEF worldVars, WorldTypes
<1>2. ASSUME NEW c \in Calls, Send(c)
      PROVE  WorldTypes'
  BY <1>0, <1>2 DEF Send, WorldTypes
<1>3. ASSUME NEW c \in Calls, AnswerLost(c) \/ AnswerArrives(c) \/ Redeliver(c)
      PROVE  WorldTypes'
  BY <1>0, <1>3 DEF AnswerLost, AnswerArrives, Redeliver, WorldTypes
<1>4. ASSUME NEW c \in Calls, NEW a \in Answers, Answering(c, a)
      PROVE  answer' \in [Calls -> Answers \cup {NoAnswer}] /\ inbox' \subseteq Calls
  BY <1>0, <1>4 DEF Answering, WorldTypes
<1>5. ASSUME NEW c \in Calls, SidecarBroadcasts(c)
      PROVE  WorldTypes'
  <2>1. PICK a \in AfterBroadcast : Answering(c, a)
    BY <1>5 DEF SidecarBroadcasts
  <2>2. answer' \in [Calls -> Answers \cup {NoAnswer}] /\ inbox' \subseteq Calls
    BY <1>4, <2>1, ServedWorked
  <2> QED
    BY <1>0, <1>5, <2>2 DEF SidecarBroadcasts, WorldTypes
<1>6. ASSUME NEW c \in Calls, SidecarDeclines(c)
      PROVE  WorldTypes'
  BY <1>0, <1>4, <1>6 DEF SidecarDeclines, WorldTypes
<1>7. CASE Block
  BY <1>0, <1>7 DEF Block, WorldTypes
<1>8. CASE ProcessEnds
  BY <1>0, <1>8 DEF ProcessEnds, WorldTypes
<1>9. ASSUME NEW c \in Calls,
             ServesItself(c) \/ FirstTry(c) \/ LockClient(c) \/ OptionRefused(c) \/ Pay(c)
      PROVE  UNCHANGED worldVars
  BY <1>9 DEF ServesItself, FirstTry, LockClient, OptionRefused, Pay
<1>10. ASSUME NEW r \in Readers, ReadSpent(r) \/ ReadOpen(r)
       PROVE  UNCHANGED worldVars
  BY <1>10 DEF ReadSpent, ReadOpen
<1>11. CASE \/ PayerStep \/ CallerLeaves \/ AtRest \/ UNCHANGED vars
  BY <1>1, <1>11 DEF PayerStep, AskChain, StopAsking, Admitted, ReadAccount, PayFails,
     Signs, CallerLeaves, AtRest, vars
<1> QED
  BY <1>1, <1>2, <1>3, <1>5, <1>6, <1>7, <1>8, <1>9, <1>10, <1>11
  DEF Next, CallStep, WorldStep

LEMMA ReportTypeStep == CallInv /\ [Next]_vars => ReportTypes'
<1> SUFFICES ASSUME CallInv, [Next]_vars
             PROVE  ReportTypes'
  OBVIOUS
<1>0. ReportTypes /\ spent \in Int /\ open \in Seq(Calls) /\ MaxRestarts \in Nat
  BY FaultsAssumption DEF CallInv, TypeOK, ReportTypes, PayerTypeOK
<1>1. CASE UNCHANGED <<report, restarts>>
  BY <1>0, <1>1 DEF ReportTypes
<1>2. ASSUME NEW r \in Readers, ReadSpent(r)
      PROVE  ReportTypes'
  BY <1>0, <1>2 DEF ReadSpent, Report, ReportTypes
<1>3. ASSUME NEW r \in Readers, ReadOpen(r)
      PROVE  ReportTypes'
  BY <1>0, <1>3 DEF ReadOpen, Report, ReportTypes
<1>4. CASE ProcessEnds
  BY <1>0, <1>4 DEF ProcessEnds, Report, ReportTypes
<1>5. ASSUME NEW c \in Calls, CallStep(c)
      PROVE  UNCHANGED <<report, restarts>>
  BY <1>5 DEF CallStep, ServesItself, FirstTry, LockClient, OptionRefused, Pay, Send,
     AnswerLost, AnswerArrives
<1>6. ASSUME NEW c \in Calls, WorldStep(c)
      PROVE  UNCHANGED <<report, restarts>>
  BY <1>6 DEF WorldStep, SidecarBroadcasts, SidecarDeclines, Redeliver
<1>7. CASE PayerStep \/ CallerLeaves \/ Block \/ AtRest \/ UNCHANGED vars
  BY <1>1, <1>7 DEF PayerStep, AskChain, StopAsking, Admitted, ReadAccount, PayFails,
     Signs, CallerLeaves, Block, AtRest, vars
<1> QED
  BY <1>1, <1>2, <1>3, <1>4, <1>5, <1>6, <1>7 DEF Next

LEMMA CallTypeStep == CallInv /\ [Next]_vars => TypeOK'
<1> SUFFICES ASSUME CallInv, [Next]_vars
             PROVE  TypeOK'
  OBVIOUS
<1>1. PayerTypeOK'
  BY UsesPayer, TypeStep DEF CallInv, TypeOK
<1> QED
  BY <1>1, ClientTypeStep, WorldTypeStep, ReportTypeStep
  DEF TypeOK, ClientTypes, WorldTypes, ReportTypes
-----------------------------------------------------------------------------
\* The two locks.

\* Every step keeps the locks.
LEMMA LocksStep == CallInv /\ [Next]_vars => LocksHeld'
<1> SUFFICES ASSUME CallInv, [Next]_vars
             PROVE  LocksHeld'
  OBVIOUS
<1>0. /\ LocksHeld /\ ClientTypes
      /\ mu # NoCall => mu \in Calls
      /\ NoCall \notin Calls
  BY RunningCall, CallsAssumption DEF CallInv, TypeOK, ClientTypes
<1>1. CASE UNCHANGED <<pc, cmu, option, mu, want>>
  BY <1>0, <1>1 DEF LocksHeld
<1>2. ASSUME NEW c \in Calls, NEW e \in Ended, cmu = c, mu' = NoCall, Return(c, e)
      PROVE  LocksHeld'
  BY <1>0, <1>2 DEF Return, LocksHeld, ClientTypes, Ended
<1>3. ASSUME NEW c \in Calls, pc[c] # "pay", UNCHANGED <<cmu, mu, want>>,
             \E e \in {"first", "lock"} \cup Ended : pc' = [pc EXCEPT ![c] = e],
             \A d \in Calls \ {c} : option'[d] = option[d]
      PROVE  LocksHeld'
  BY <1>0, <1>3 DEF LocksHeld, ClientTypes, Ended
<1>4. ASSUME NEW c \in Calls, ServesItself(c) \/ FirstTry(c)
      PROVE  LocksHeld'
  <2>1. UNCHANGED <<cmu, mu, want>> /\ pc[c] = "first"
    BY <1>4 DEF ServesItself, FirstTry, payerVars, frame
  <2>2. \E e \in {"first", "lock"} \cup Ended : pc' = [pc EXCEPT ![c] = e]
    BY <1>4 DEF ServesItself, FirstTry, Ended
  <2>3. \A d \in Calls \ {c} : option'[d] = option[d]
    BY <1>0, <1>4 DEF ServesItself, FirstTry, ClientTypes
  <2> QED
    BY <1>3, <2>1, <2>2, <2>3
<1>5. ASSUME NEW c \in Calls, LockClient(c)
      PROVE  LocksHeld'
  BY <1>0, <1>5 DEF LockClient, payerVars, frame, LocksHeld, ClientTypes
<1>6. ASSUME NEW c \in Calls, Pay(c)
      PROVE  LocksHeld'
  BY <1>0, <1>6 DEF Pay, PayLock, clientVars, LocksHeld
<1>7. ASSUME NEW c \in Calls, Send(c)
      PROVE  LocksHeld'
  BY <1>0, <1>7 DEF Send, payerVars, frame, LocksHeld, ClientTypes
<1>8. ASSUME NEW c \in Calls, OptionRefused(c)
      PROVE  LocksHeld'
  <2>1. cmu = c /\ mu = NoCall
    BY <1>0, <1>8 DEF OptionRefused, LocksHeld
  <2> QED
    BY <1>2, <1>8, <2>1 DEF OptionRefused, Ended, payerVars, frame
<1>9. ASSUME NEW c \in Calls, AnswerLost(c) \/ AnswerArrives(c)
      PROVE  LocksHeld'
  <2>1. cmu = c /\ mu = NoCall
    BY <1>0, <1>9 DEF AnswerLost, AnswerArrives, LocksHeld
  <2>2. mu' = NoCall
    BY <1>9, <2>1 DEF AnswerLost, AnswerArrives, Unresolved, Rollback, payerVars, frame
  <2> QED
    BY <1>2, <1>9, <2>1, <2>2 DEF AnswerLost, AnswerArrives, Ended
<1>10. CASE PayFails
  <2>1. mu \in Calls /\ cmu = mu
    BY <1>10, StageRuns, RunningCall
    DEF PayFails, BudgetRefuses, AccountFails, SignFails
  <2>2. mu' = NoCall
    BY <1>10 DEF PayFails, BudgetRefuses, AccountFails, SignFails, Free
  <2> QED
    BY <1>2, <1>10, <2>1, <2>2 DEF PayFails, Ended
<1>11. CASE Signs
  <2>1. mu \in Calls /\ cmu = mu
    BY <1>11, StageRuns, RunningCall DEF Signs, SignTx
  <2> QED
    BY <1>0, <1>11, <2>1 DEF Signs, SignTx, Free, LocksHeld, ClientTypes
<1>12. CASE ProcessEnds
  BY <1>0, <1>12 DEF ProcessEnds, Restart, Free, LocksHeld, Ended
<1>13. ASSUME NEW c \in Calls, WorldStep(c)
       PROVE  UNCHANGED <<pc, cmu, option, mu, want>>
  BY <1>13 DEF WorldStep, SidecarBroadcasts, SidecarDeclines, Redeliver,
     clientVars, payerVars, frame
<1>14. ASSUME NEW r \in Readers, ReadSpent(r) \/ ReadOpen(r)
       PROVE  UNCHANGED <<pc, cmu, option, mu, want>>
  BY <1>14 DEF ReadSpent, ReadOpen, clientVars, payerVars, frame
<1>15. CASE Block \/ AtRest \/ UNCHANGED vars
  BY <1>1, <1>15 DEF Block, AtRest, vars, clientVars, payerVars, frame
<1>16. CASE AskChain \/ StopAsking \/ Admitted \/ ReadAccount \/ CallerLeaves
  <2>1. UNCHANGED clientVars
    BY <1>16 DEF AskChain, StopAsking, Admitted, ReadAccount, CallerLeaves
  <2>2. UNCHANGED <<mu, want>>
    BY <1>16 DEF AskChain, StopAsking, Admitted, ReadAccount, CallerLeaves, PollFound,
       PollAbsent, WaitEnds, BudgetAdmits, AccountReads, CtxEnds
  <2> QED
    BY <1>1, <2>1, <2>2 DEF clientVars
<1> QED
  BY <1>1, <1>4, <1>5, <1>6, <1>7, <1>8, <1>9, <1>10, <1>11, <1>12, <1>13, <1>14,
     <1>15, <1>16 DEF Next, PayerStep, CallStep
-----------------------------------------------------------------------------
\* What the steps do to the payments.

\* A Pay that goes on asks the chain about lost payments and decides them.
Asks == AskChain \/ StopAsking \/ Admitted \/ ReadAccount \/ CallerLeaves

LEMMA AskingSteps ==
  ASSUME CallInv, Asks
  PROVE  /\ mu # NoCall
         /\ UNCHANGED <<clientVars, worldVars, amount, sequence, nextSeq>>
         /\ fate' \in [Calls -> Ledger!Fates]
         /\ \A c \in Calls :
               \/ fate'[c] = fate[c]
               \/ fate[c] = "lost" /\ fate'[c] \in {"landed", "feeOnly", "returned"}
<1>1. mu # NoCall
  BY StageRuns DEF Asks, AskChain, StopAsking, Admitted, ReadAccount, CallerLeaves,
     BudgetAdmits, AccountReads
<1>2. UNCHANGED <<clientVars, worldVars, amount, sequence, nextSeq>>
  BY DEF Asks, AskChain, StopAsking, Admitted, ReadAccount, CallerLeaves, PollFound,
     PollAbsent, WaitEnds, BudgetAdmits, AccountReads, CtxEnds, payments
<1>3. \/ UNCHANGED fate
      \/ /\ Waiting
         /\ \E k \in {"landed", "feeOnly", "returned"} : fate' = [fate EXCEPT ![Head(asking)] = k]
  BY DEF Asks, AskChain, StopAsking, Admitted, ReadAccount, CallerLeaves, PollFound,
     PollAbsent, WaitEnds, release, BudgetAdmits, AccountReads, CtxEnds, payments
<1>4. fate \in [Calls -> Ledger!Fates] /\ asking \in Seq(Calls)
  BY DEF CallInv, TypeOK, PayerTypeOK
<1>5. ASSUME Waiting
      PROVE  Head(asking) \in Calls /\ fate[Head(asking)] = "lost"
  <2>1. Head(asking) \in Calls /\ Head(asking) \in Listed(asking)
    BY <1>4, <1>5, AtHand, TailListed DEF Waiting, ListsExact, CallInv
  <2> QED
    BY <1>5, <2>1 DEF Waiting, ListsExact, CallInv
<1>6. fate' \in [Calls -> Ledger!Fates]
  BY <1>3, <1>4 DEF Ledger!Fates
<1>7. \A c \in Calls :
         \/ fate'[c] = fate[c]
         \/ fate[c] = "lost" /\ fate'[c] \in {"landed", "feeOnly", "returned"}
  BY <1>3, <1>4, <1>5
<1> QED
  BY <1>1, <1>2, <1>6, <1>7

\* A Pay that fails changes no payment; one that signs makes its own.
LEMMA FailingSteps ==
  ASSUME CallInv, PayFails
  PROVE  /\ mu \in Calls /\ pc[mu] = "pay" /\ cmu = mu /\ fate[mu] = "none"
         /\ Return(mu, "gave402")
         /\ UNCHANGED <<worldVars, amount, sequence, fate>>
<1>1. mu # NoCall
  BY StageRuns DEF PayFails, BudgetRefuses, AccountFails, SignFails
<1>2. UNCHANGED payments
  BY DEF PayFails, BudgetRefuses, AccountFails, SignFails
<1> QED
  BY <1>1, <1>2, RunningCall DEF PayFails, payments

LEMMA SigningSteps ==
  ASSUME CallInv, Signs
  PROVE  /\ mu \in Calls /\ pc[mu] = "pay" /\ cmu = mu /\ fate[mu] = "none"
         /\ option[mu] \in Options /\ checkOption(option[mu]) /\ want = option[mu].amount
         /\ pc' = [pc EXCEPT ![mu] = "send"]
         /\ amount' = [amount EXCEPT ![mu] = want]
         /\ sequence' = [sequence EXCEPT ![mu] = pickSequence]
         /\ fate' = [fate EXCEPT ![mu] = "held"]
         /\ UNCHANGED <<cmu, option, worldVars>>
<1>1. mu # NoCall
  BY StageRuns DEF Signs, SignTx
<1> QED
  BY <1>1, RunningCall DEF Signs, SignTx

\* Every step keeps the offers.
LEMMA OfferStep == CallInv /\ [Next]_vars => OfferHeld'
<1> SUFFICES ASSUME CallInv, [Next]_vars
             PROVE  OfferHeld'
  OBVIOUS
<1>0. /\ OfferHeld /\ ClientTypes
      /\ amount \in [Calls -> 0 .. MaxPerCall]
  BY DEF CallInv, TypeOK, ClientTypes, PayerTypeOK
<1>1. CASE UNCHANGED <<pc, option, amount>>
  BY <1>0, <1>1 DEF OfferHeld
<1>2. ASSUME NEW c \in Calls, NEW e \in Ended, Return(c, e), UNCHANGED amount
      PROVE  OfferHeld'
  BY <1>0, <1>2 DEF Return, OfferHeld, ClientTypes, Ended
<1>3. ASSUME NEW c \in Calls, FirstTry(c)
      PROVE  OfferHeld'
  <2>1. \/ \E e \in Ended : pc' = [pc EXCEPT ![c] = e] /\ UNCHANGED option
        \/ /\ pc' = [pc EXCEPT ![c] = "lock"]
           /\ \E o \in Options : o.network = Network /\ option' = [option EXCEPT ![c] = o]
    BY <1>3, PickedOption DEF FirstTry, Ended
  <2>2. UNCHANGED amount
    BY <1>3 DEF FirstTry, payerVars, payments
  <2> QED
    BY <1>0, <2>1, <2>2 DEF OfferHeld, ClientTypes, Ended
<1>4. ASSUME NEW c \in Calls, ServesItself(c)
      PROVE  OfferHeld'
  BY <1>0, <1>4 DEF ServesItself, payerVars, payments, OfferHeld, ClientTypes
<1>5. ASSUME NEW c \in Calls, LockClient(c)
      PROVE  OfferHeld'
  BY <1>0, <1>5 DEF LockClient, payerVars, payments, OfferHeld, ClientTypes
<1>6. ASSUME NEW c \in Calls, Send(c)
      PROVE  OfferHeld'
  BY <1>0, <1>6 DEF Send, payerVars, payments, OfferHeld, ClientTypes
<1>7. ASSUME NEW c \in Calls, OptionRefused(c) \/ AnswerLost(c) \/ AnswerArrives(c)
      PROVE  OfferHeld'
  <2>1. UNCHANGED amount
    BY <1>7 DEF OptionRefused, AnswerLost, AnswerArrives, Unresolved, Rollback, payerVars,
       payments
  <2> QED
    BY <1>2, <1>7, <2>1 DEF OptionRefused, AnswerLost, AnswerArrives, Ended
<1>8. CASE PayFails
  BY <1>2, <1>8, FailingSteps DEF Ended
<1>9. CASE Signs
  BY <1>0, <1>9, SigningSteps DEF OfferHeld, ClientTypes
<1>10. CASE ProcessEnds
  BY <1>0, <1>10 DEF ProcessEnds, OfferHeld, Ended
<1>11. ASSUME NEW c \in Calls, Pay(c)
       PROVE  UNCHANGED <<pc, option, amount>>
  BY <1>11 DEF Pay, PayLock, clientVars, payments
<1>12. ASSUME NEW c \in Calls, WorldStep(c)
       PROVE  UNCHANGED <<pc, option, amount>>
  BY <1>12 DEF WorldStep, SidecarBroadcasts, SidecarDeclines, Redeliver,
     clientVars, payerVars, payments
<1>13. ASSUME NEW r \in Readers, ReadSpent(r) \/ ReadOpen(r)
       PROVE  UNCHANGED <<pc, option, amount>>
  BY <1>13 DEF ReadSpent, ReadOpen, clientVars, payerVars, payments
<1>14. CASE Block \/ AtRest \/ UNCHANGED vars
  BY <1>1, <1>14 DEF Block, AtRest, vars, clientVars, payerVars, payments
<1>15. CASE Asks
  BY <1>1, <1>15, AskingSteps DEF clientVars
<1> QED
  BY <1>1, <1>3, <1>4, <1>5, <1>6, <1>7, <1>8, <1>9, <1>10, <1>11, <1>12, <1>13,
     <1>14, <1>15 DEF Next, PayerStep, CallStep, Asks

\* Every step keeps the receipts and the ledger in agreement.
LEMMA ReceiptStep == CallInv /\ [Next]_vars => ReceiptMatchesLedger'
<1> SUFFICES ASSUME CallInv, [Next]_vars
             PROVE  ReceiptMatchesLedger'
  OBVIOUS
<1>0. /\ ReceiptMatchesLedger /\ ClientTypes
      /\ fate \in [Calls -> Ledger!Fates]
  BY DEF CallInv, TypeOK, ClientTypes, PayerTypeOK
<1>1. CASE UNCHANGED <<pc, fate>>
  BY <1>0, <1>1 DEF ReceiptMatchesLedger, Ledger!Fates
<1>2. ASSUME NEW c \in Calls,
             NEW e \in {"first", "lock", "pay", "free", "error", "gave402"},
             pc[c] \in {"first", "lock", "pay"}, pc' = [pc EXCEPT ![c] = e], UNCHANGED fate
      PROVE  ReceiptMatchesLedger'
  BY <1>0, <1>2 DEF ReceiptMatchesLedger, ClientTypes, Ledger!Fates
<1>3. ASSUME NEW c \in Calls, ServesItself(c) \/ FirstTry(c) \/ LockClient(c) \/ OptionRefused(c)
      PROVE  ReceiptMatchesLedger'
  <2>1. UNCHANGED fate /\ pc[c] \in {"first", "lock", "pay"}
    BY <1>3 DEF ServesItself, FirstTry, LockClient, OptionRefused, payerVars, payments
  <2>2. \E e \in {"first", "lock", "pay", "free", "error", "gave402"} :
            pc' = [pc EXCEPT ![c] = e]
    BY <1>3 DEF ServesItself, FirstTry, LockClient, OptionRefused, Return
  <2> QED
    BY <1>2, <2>1, <2>2
<1>4. ASSUME NEW c \in Calls, Send(c)
      PROVE  ReceiptMatchesLedger'
  BY <1>0, <1>4 DEF Send, payerVars, payments, ReceiptMatchesLedger, ClientTypes, Ledger!Fates
<1>5. ASSUME NEW c \in Calls, AnswerLost(c)
      PROVE  ReceiptMatchesLedger'
  BY <1>0, <1>5 DEF AnswerLost, Unresolved, Return, ReceiptMatchesLedger, ClientTypes,
     Ledger!Fates
<1>6. ASSUME NEW c \in Calls, AnswerArrives(c)
      PROVE  ReceiptMatchesLedger'
  <2>1. fate[c] = "held"
    BY <1>0, <1>6 DEF AnswerArrives, ReceiptMatchesLedger
  <2>2. \/ pc' = [pc EXCEPT ![c] = "paid"] /\ UNCHANGED fate
        \/ /\ pc' = [pc EXCEPT ![c] = "refused"]
           /\ fate' = [fate EXCEPT ![c] = "returned"]
    BY <1>6 DEF AnswerArrives, Rollback, release, Return, payerVars, payments
  <2> QED
    BY <1>0, <2>1, <2>2 DEF ReceiptMatchesLedger, ClientTypes, Ledger!Fates
<1>7. CASE PayFails
  BY <1>2, <1>7, FailingSteps DEF Return
<1>8. CASE Signs
  BY <1>0, <1>8, SigningSteps DEF ReceiptMatchesLedger, ClientTypes, Ledger!Fates
<1>9. CASE ProcessEnds
  BY <1>0, <1>9 DEF ProcessEnds, Restart, Ledger!Forgotten, ReceiptMatchesLedger,
     ClientTypes, Ended, Ledger!Fates
<1>10. CASE Asks
  BY <1>0, <1>10, AskingSteps DEF clientVars, ReceiptMatchesLedger, Ledger!Fates
<1>11. ASSUME NEW c \in Calls, Pay(c)
       PROVE  UNCHANGED <<pc, fate>>
  BY <1>11 DEF Pay, PayLock, clientVars, payments
<1>12. ASSUME NEW c \in Calls, WorldStep(c)
       PROVE  UNCHANGED <<pc, fate>>
  BY <1>12 DEF WorldStep, SidecarBroadcasts, SidecarDeclines, Redeliver,
     clientVars, payerVars, payments
<1>13. ASSUME NEW r \in Readers, ReadSpent(r) \/ ReadOpen(r)
       PROVE  UNCHANGED <<pc, fate>>
  BY <1>13 DEF ReadSpent, ReadOpen, clientVars, payerVars, payments
<1>14. CASE Block \/ AtRest \/ UNCHANGED vars
  BY <1>1, <1>14 DEF Block, AtRest, vars, clientVars, payerVars, payments
<1> QED
  BY <1>1, <1>3, <1>4, <1>5, <1>6, <1>7, <1>8, <1>9, <1>10, <1>11, <1>12, <1>13,
     <1>14 DEF Next, PayerStep, CallStep, Asks

\* Every step keeps the memory of the payer next to the payment on its way.
LEMMA NewestStep == CallInv /\ [Next]_vars => NewestInFlight'
<1> SUFFICES ASSUME CallInv, [Next]_vars
             PROVE  NewestInFlight'
  OBVIOUS
<1> DEFINE OnItsWay(c) == pc[c] \in {"send", "await"}
           Remembered(c) == haveSeq /\ nextSeq = (sequence[c] + 1) % SeqSpan
<1>0. /\ ClientTypes
      /\ sequence \in [Calls -> Sequences]
      /\ \A c \in Calls : OnItsWay(c) => Remembered(c)
      /\ \A c \in Calls : OnItsWay(c) \/ pc[c] = "pay" => cmu = c
  BY DEF CallInv, TypeOK, ClientTypes, PayerTypeOK, NewestInFlight, LocksHeld
<1>1. SUFFICES \A c \in Calls : OnItsWay(c)' => Remembered(c)'
  BY LocksStep DEF LocksHeld, NewestInFlight
<1>2. ASSUME UNCHANGED <<haveSeq, nextSeq, sequence>>,
             \A c \in Calls : OnItsWay(c)' => OnItsWay(c)
      PROVE  \A c \in Calls : OnItsWay(c)' => Remembered(c)'
  BY <1>0, <1>2
<1>3. ASSUME \A c \in Calls : ~ OnItsWay(c)'
      PROVE  \A c \in Calls : OnItsWay(c)' => Remembered(c)'
  BY <1>3
<1>4. ASSUME NEW c \in Calls, Unseen(c) \/ Pay(c)
      PROVE  UNCHANGED <<haveSeq, nextSeq, sequence>>
  <2>1. CASE Unseen(c)
    BY <2>1, UnseenSteps DEF payerVars, payments
  <2>2. CASE Pay(c)
    BY <2>2 DEF Pay, PayLock, payments
  <2> QED
    BY <1>4, <2>1, <2>2
<1>5. ASSUME NEW c \in Calls, Unseen(c) \/ Pay(c)
      PROVE  \A d \in Calls : OnItsWay(d)' => OnItsWay(d)
  BY <1>0, <1>5 DEF Unseen, Pay, ServesItself, FirstTry, LockClient, OptionRefused, Send,
     SidecarBroadcasts, SidecarDeclines, Redeliver, Return, clientVars, ClientTypes
<1>6. ASSUME NEW c \in Calls, cmu = c, NEW e \in Ended, pc' = [pc EXCEPT ![c] = e],
             OnItsWay(c) \/ pc[c] = "pay"
      PROVE  \A d \in Calls : ~ OnItsWay(d)'
  BY <1>0, <1>6 DEF ClientTypes, Ended
<1>7. ASSUME NEW c \in Calls, AnswerLost(c) \/ AnswerArrives(c)
      PROVE  \A d \in Calls : ~ OnItsWay(d)'
  <2>1. OnItsWay(c) /\ cmu = c
    BY <1>0, <1>7 DEF AnswerLost, AnswerArrives
  <2>2. \E e \in Ended : pc' = [pc EXCEPT ![c] = e]
    BY <1>7 DEF AnswerLost, AnswerArrives, Return, Ended
  <2> QED
    BY <1>6, <2>1, <2>2
<1>8. CASE PayFails
  <2>1. \A d \in Calls : ~ OnItsWay(d)'
    BY <1>6, <1>8, FailingSteps DEF Return, Ended
  <2> QED
    BY <1>3, <2>1
<1>9. CASE Signs
  <2>1. mu \in Calls /\ pc[mu] = "pay" /\ cmu = mu /\ pc' = [pc EXCEPT ![mu] = "send"]
    BY <1>9, SigningSteps
  <2>2. \A d \in Calls : OnItsWay(d)' => d = mu
    BY <1>0, <2>1 DEF ClientTypes
  <2>3. nextSeq' = (sequence'[mu] + 1) % SeqSpan
    BY <1>0, <1>9, <2>1 DEF Signs, SignTx
  <2>4. haveSeq'
    BY <1>9, Zenon DEF Signs, SignTx
  <2> QED
    BY <2>2, <2>3, <2>4, Zenon
<1>10. CASE ProcessEnds
  <2>1. \A d \in Calls : ~ OnItsWay(d)'
    BY <1>0, <1>10 DEF ProcessEnds, ClientTypes, Ended
  <2> QED
    BY <1>3, <2>1
<1>11. CASE Asks
  <2>1. \A d \in Calls : ~ OnItsWay(d)
    BY <1>0, <1>11, AskingSteps, RunningCall
  <2>2. UNCHANGED pc
    BY <1>11, AskingSteps DEF clientVars
  <2> QED
    BY <1>3, <2>1, <2>2
<1>12. ASSUME \/ Block \/ AtRest \/ UNCHANGED vars
              \/ \E r \in Readers : ReadSpent(r) \/ ReadOpen(r)
       PROVE  \A c \in Calls : OnItsWay(c)' => Remembered(c)'
  <2>1. UNCHANGED payerVars
    BY <1>12, UnseenSteps
  <2>2. UNCHANGED pc
    BY <1>12 DEF Block, AtRest, vars, ReadSpent, ReadOpen, clientVars
  <2> QED
    BY <1>2, <2>1, <2>2 DEF payerVars, payments
<1> HIDE DEF OnItsWay, Remembered
<1> QED
  BY <1>2, <1>3, <1>4, <1>5, <1>7, <1>8, <1>9, <1>10, <1>11, <1>12
  DEF Next, PayerStep, CallStep, WorldStep, Asks, Unseen
-----------------------------------------------------------------------------
\* The theorems.

\* The invariant holds before the first call.
LEMMA CallInit == Init => CallInv
<1> SUFFICES ASSUME Init PROVE CallInv
  OBVIOUS
<1>1. PayerTypeOK /\ ListsExact
  BY TypeInit, ListsInit DEF Init
<1>2. TypeOK
  <2>1. ClientTypes
    BY DEF Init, ClientTypes
  <2>2. WorldTypes
    BY DEF Init, WorldTypes
  <2>3. ReportTypes
    BY FaultsAssumption DEF Init, Report, ReportTypes
  <2> QED
    BY <1>1, <2>1, <2>2, <2>3 DEF TypeOK, ClientTypes, WorldTypes, ReportTypes
<1>3. LocksHeld /\ OfferHeld /\ NewestInFlight
  BY DEF Init, PayerInit, LocksHeld, OfferHeld, NewestInFlight
<1>4. ReceiptMatchesLedger
  BY DEF Init, PayerInit, ReceiptMatchesLedger
<1> QED
  BY <1>1, <1>2, <1>3, <1>4 DEF CallInv

\* Every step keeps the invariant.
LEMMA CallStepKeeps == CallInv /\ [Next]_vars => CallInv'
<1> SUFFICES ASSUME CallInv, [Next]_vars
             PROVE  CallInv'
  OBVIOUS
<1>1. ListsExact'
  BY UsesPayer, ListsStep DEF CallInv, TypeOK
<1> QED
  BY <1>1, CallTypeStep, LocksStep, OfferStep, ReceiptStep, NewestStep DEF CallInv

LEMMA CallsInvariant == Spec => []CallInv
  BY CallInit, CallStepKeeps, PTL DEF Spec

\* The variables of the client, the sidecar, the chain and the status answers
\* keep their types under every fault.
THEOREM CallTypes == Spec => []TypeOK
<1>1. CallInv => TypeOK
  BY DEF CallInv
<1> QED
  BY <1>1, CallsInvariant, PTL

\* Client.Do uses the Payer as PayerSpec expects: it settles every payment at
\* most once, and only while it waits for the answer.  So what is proved of
\* PayerSpec holds of the calls too, for any number of them.
THEOREM DoUsesPayer == Spec => ImplementsPayer
<1>1. Init => PayerInit
  BY DEF Init
<1> QED
  BY <1>1, UsesPayer, CallsInvariant, PTL DEF Spec, ImplementsPayer, PayerSpec

\* What Do tells the caller is what the ledger holds.
THEOREM ReceiptsMatch == Spec => []ReceiptMatchesLedger
<1>1. CallInv => ReceiptMatchesLedger
  BY DEF CallInv
<1> QED
  BY <1>1, CallsInvariant, PTL

\* While a payment is on its way, c.mu keeps everybody else from signing and
\* from giving a payment back.
THEOREM NewestOnItsWay == Spec => []NewestInFlight
<1>1. CallInv => NewestInFlight
  BY DEF CallInv
<1> QED
  BY <1>1, CallsInvariant, PTL

\* A call pays the offer of its own 402, at its price and inside maxPerCall.
THEOREM OffersPaid == Spec => []PaysItsOffer
<1>1. CallInv => PaysItsOffer
  <2> SUFFICES ASSUME CallInv, NEW c \in Calls, pc[c] \in {"send", "await"}
               PROVE  /\ option[c] # NoOption
                      /\ option[c].network = Network /\ option[c].asset = Asset
                      /\ amount[c] = option[c].amount
                      /\ amount[c] \in 1 .. MaxPerCall
    BY DEF PaysItsOffer
  <2>1. option[c] \in Options /\ checkOption(option[c]) /\ amount[c] = option[c].amount
    BY DEF CallInv, OfferHeld
  <2>2. amount[c] \in 0 .. MaxPerCall
    BY DEF CallInv, TypeOK, PayerTypeOK
  <2> QED
    BY <2>1, <2>2, NoOptionAssumption, MoneyAssumption DEF checkOption
<1> QED
  BY <1>1, CallsInvariant, PTL

\* So the calls stay inside the budget, the counters stay exact for them, and
\* they implement the abstract ledger.
THEOREM CallsKeepLedger == Spec => []WithinBudget /\ []LedgerExact /\ LedgerSpec
<1>1. Spec => PayerSpec
  BY DoUsesPayer DEF ImplementsPayer
<1> QED
  BY <1>1, BudgetHolds, CountersExact, PayerImplementsLedger, PTL
=============================================================================

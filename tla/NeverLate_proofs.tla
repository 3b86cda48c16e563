-------------------------- MODULE NeverLate_proofs --------------------------
(***************************************************************************)
(* How late the budget can be, for every number of calls and restarts: by  *)
(* no more than the payments that were given back and taken nevertheless,  *)
(* whatever faults happen; a refusal is right unless a request is          *)
(* delivered twice, a wait is right without the three other faults of      *)
(* PaidCalls.tla, and without all four the budget is never late.           *)
(***************************************************************************)
EXTENDS PaidCalls_proofs

\* The mempool behind its first transaction, and with one more.
LEMMA TailOrder ==
  ASSUME NEW S, NEW s \in Seq(S), s # << >>
  PROVE  /\ Head(s) \in S /\ Head(s) = s[1] /\ 1 \in DOMAIN s
         /\ Tail(s) \in Seq(S)
         /\ \A i \in DOMAIN Tail(s) : i \in Nat /\ i + 1 \in DOMAIN s /\ Tail(s)[i] = s[i + 1]
  OBVIOUS

LEMMA AppendOrder ==
  ASSUME NEW S, NEW s \in Seq(S), NEW e \in S
  PROVE  \A i \in DOMAIN Append(s, e) :
            \/ i \in DOMAIN s /\ Append(s, e)[i] = s[i]
            \/ i = Len(s) + 1 /\ Append(s, e)[i] = e
  OBVIOUS

\* No step makes a signed payment unsigned, and nobody sends an unsigned one.
LEMMA SignedStays ==
  ASSUME CallInv, [Next]_vars, NEW c \in Calls, fate'[c] = "none"
  PROVE  fate[c] = "none" /\ (c \in inbox' => c \in inbox)
<1>0. /\ ReceiptMatchesLedger /\ ClientTypes
      /\ fate \in [Calls -> Ledger!Fates]
  BY DEF CallInv, TypeOK, ClientTypes, PayerTypeOK
<1>1. ASSUME NEW d \in Calls, Send(d) \/ Redeliver(d)
      PROVE  fate[c] = "none" /\ (c \in inbox' => c \in inbox)
  <2>1. fate[d] = "held"
    BY <1>1, SendingCall DEF Send, Redeliver
  <2> QED
    BY <1>1, <2>1 DEF Send, Redeliver, payerVars, payments
<1>2. ASSUME NEW d \in Calls, AnswerLost(d) \/ AnswerArrives(d)
      PROVE  fate[c] = "none" /\ (c \in inbox' => c \in inbox)
  BY <1>0, <1>2 DEF AnswerLost, AnswerArrives, Unresolved, Rollback, release, payerVars,
     payments
<1>3. CASE Signs
  BY <1>0, <1>3, SigningSteps DEF worldVars
<1>4. CASE ProcessEnds
  BY <1>0, <1>4 DEF ProcessEnds, Restart, Ledger!Forgotten
<1>5. CASE Asks
  BY <1>5, AskingSteps DEF worldVars
<1>6. CASE PayFails
  BY <1>6, FailingSteps DEF worldVars
<1>7. ASSUME NEW d \in Calls, Pay(d)
      PROVE  fate[c] = "none" /\ (c \in inbox' => c \in inbox)
  BY <1>7 DEF Pay, PayLock, worldVars, payments
<1>8. ASSUME NEW d \in Calls, Unseen(d), ~ Send(d), ~ Redeliver(d)
      PROVE  fate[c] = "none" /\ (c \in inbox' => c \in inbox)
  <2>1. UNCHANGED fate
    BY <1>8, UnseenSteps DEF payerVars, payments
  <2> QED
    BY <1>8, <2>1 DEF Unseen, ServesItself, FirstTry, LockClient, OptionRefused,
       SidecarBroadcasts, SidecarDeclines, Answering, worldVars
<1>9. CASE \/ Block \/ AtRest \/ UNCHANGED vars
           \/ \E r \in Readers : ReadSpent(r) \/ ReadOpen(r)
  <2>1. UNCHANGED fate
    BY <1>9, UnseenSteps DEF payerVars, payments
  <2> QED
    BY <1>9, <2>1 DEF Block, AtRest, ReadSpent, ReadOpen, vars, worldVars
<1> QED
  BY <1>1, <1>2, <1>3, <1>4, <1>5, <1>6, <1>7, <1>8, <1>9
  DEF Next, PayerStep, CallStep, WorldStep, Asks, Unseen

\* A step that is no signature, no broadcast and no block leaves the chain and
\* the sequences alone.
LEMMA ChainStays ==
  ASSUME CallInv, [Next]_vars, ~ Signs, ~ Block, \A c \in Calls : ~ SidecarBroadcasts(c)
  PROVE  UNCHANGED <<sequence, code, mempool, chainSeq>>
<1>1. ASSUME NEW c \in Calls, AnswerLost(c) \/ AnswerArrives(c)
      PROVE  UNCHANGED <<sequence, code, mempool, chainSeq>>
  BY <1>1 DEF AnswerLost, AnswerArrives, Unresolved, Rollback, payerVars, payments
<1>2. CASE ProcessEnds
  BY <1>2 DEF ProcessEnds, Restart
<1>3. CASE Asks
  BY <1>3, AskingSteps DEF worldVars
<1>4. CASE PayFails
  BY <1>4, FailingSteps DEF worldVars
<1>5. ASSUME NEW c \in Calls, Pay(c)
      PROVE  UNCHANGED <<sequence, code, mempool, chainSeq>>
  BY <1>5 DEF Pay, PayLock, worldVars, payments
<1>6. ASSUME NEW c \in Calls, Unseen(c)
      PROVE  UNCHANGED <<sequence, code, mempool, chainSeq>>
  <2>1. UNCHANGED sequence
    BY <1>6, UnseenSteps DEF payerVars, payments
  <2> QED
    BY <1>6, <2>1 DEF Unseen, ServesItself, FirstTry, LockClient, OptionRefused, Send,
       SidecarDeclines, Redeliver, worldVars
<1>7. CASE \/ AtRest \/ UNCHANGED vars
           \/ \E r \in Readers : ReadSpent(r) \/ ReadOpen(r)
  <2>1. UNCHANGED sequence
    BY <1>7, UnseenSteps DEF payerVars, payments
  <2> QED
    BY <1>7, <2>1 DEF AtRest, ReadSpent, ReadOpen, vars, worldVars
<1> QED
  BY <1>1, <1>2, <1>3, <1>4, <1>5, <1>6, <1>7
  DEF Next, PayerStep, CallStep, WorldStep, Asks, Unseen

\* The types that the steps of the chain rest on.
LEMMA TypesAtHand ==
  ASSUME CallInv
  PROVE  /\ ClientTypes /\ WorldTypes
         /\ sequence \in [Calls -> Sequences] /\ fate \in [Calls -> Ledger!Fates]
         /\ \A c \in Calls : sequence[c] \in Int
<1>1. TypeOK
  BY DEF CallInv
<1>2. PayerTypeOK
  BY <1>1 DEF TypeOK
<1>3. ClientTypes
  BY <1>1 DEF TypeOK, ClientTypes
<1>4. WorldTypes
  BY <1>1 DEF TypeOK, WorldTypes
<1>5. sequence \in [Calls -> Sequences] /\ fate \in [Calls -> Ledger!Fates]
  BY <1>2 DEF PayerTypeOK
<1>6. ASSUME NEW c \in Calls PROVE sequence[c] \in Int
  <2>1. sequence[c] \in Sequences
    BY <1>5
  <2> QED
    BY <2>1, SeqAssumption DEF Sequences
<1> QED
  BY <1>3, <1>4, <1>5, <1>6

\* Every step keeps the order of the chain.
LEMMA ChainStep == CallInv /\ ChainOrder /\ [Next]_vars => ChainOrder'
<1> SUFFICES ASSUME CallInv, ChainOrder, [Next]_vars
             PROVE  ChainOrder'
  OBVIOUS
<1>0. /\ WorldTypes
      /\ sequence \in [Calls -> Sequences] /\ fate \in [Calls -> Ledger!Fates]
      /\ \A c \in Calls : sequence[c] \in Int
  BY TypesAtHand
<1>1. ASSUME NEW c \in Calls, fate'[c] = "none"
      PROVE  fate[c] = "none" /\ Unsent(c) /\ c \notin inbox'
  BY <1>1, SignedStays DEF ChainOrder, Unsent
<1>2. CASE UNCHANGED <<sequence, code, mempool, chainSeq>>
  BY <1>1, <1>2 DEF ChainOrder, Unsent, Untouched, InBlock
<1>3. CASE Signs
  <2>1. /\ mu \in Calls /\ Unsent(mu)
        /\ sequence' = [sequence EXCEPT ![mu] = pickSequence]
        /\ UNCHANGED <<code, mempool, chainSeq>>
    BY <1>3, SigningSteps DEF ChainOrder, worldVars
  <2>2. \A c \in Calls : c # mu => sequence'[c] = sequence[c]
    BY <1>0, <2>1
  <2>3. \A i \in DOMAIN mempool : mempool[i] \in Calls /\ mempool[i] # mu
    BY <1>0, <2>1 DEF Unsent, Untouched, Listed, WorldTypes
  <2>4. \A i \in DOMAIN mempool : sequence'[mempool[i]] = chainSeq + i - 1
    BY <2>2, <2>3 DEF ChainOrder
  <2>5. \A c \in InBlock : c # mu /\ c \in Calls
    BY <2>1 DEF Unsent, Untouched, InBlock
  <2>6. InBlock' = InBlock
    BY <2>1 DEF InBlock
  <2>7. /\ \A c \in InBlock : sequence'[c] < chainSeq
        /\ \A c, d \in InBlock : sequence'[c] = sequence'[d] => c = d
    BY <2>2, <2>5 DEF ChainOrder
  <2>8. \A c \in Calls : fate'[c] = "none" => Unsent(c)'
    BY <1>1, <2>1, <2>6 DEF Unsent, Untouched
  <2> QED
    BY <2>1, <2>4, <2>6, <2>7, <2>8 DEF ChainOrder
<1>4. ASSUME NEW c \in Calls, SidecarBroadcasts(c)
      PROVE  ChainOrder'
  <2>1. /\ c \in inbox
        /\ sequence[c] = chainSeq + Len(mempool)
        /\ mempool' = Append(mempool, c)
        /\ UNCHANGED <<sequence, code, chainSeq>>
    BY <1>4 DEF SidecarBroadcasts, Answering, CheckTx, payerVars, payments
  <2>2. \A i \in DOMAIN mempool' : sequence'[mempool'[i]] = chainSeq' + i - 1
    <3>1. ASSUME NEW i \in DOMAIN mempool'
          PROVE  \/ i \in DOMAIN mempool /\ mempool'[i] = mempool[i]
                 \/ i = Len(mempool) + 1 /\ mempool'[i] = c
      BY <1>0, <2>1, AppendOrder DEF WorldTypes
    <3>2. Len(mempool) \in Int /\ chainSeq \in Int
      BY <1>0 DEF WorldTypes
    <3>3. chainSeq + Len(mempool) = chainSeq + (Len(mempool) + 1) - 1
      BY <3>2
    <3> QED
      BY <2>1, <3>1, <3>3 DEF ChainOrder
  <2>3. InBlock' = InBlock
    BY <2>1 DEF InBlock
  <2>4. Listed(mempool') = Listed(mempool) \cup {c}
    BY <1>0, <2>1, AppendListed DEF WorldTypes
  <2>5. fate[c] # "none"
    BY <2>1 DEF ChainOrder, Unsent
  <2>6. \A d \in Calls : fate'[d] = "none" => Unsent(d)'
    BY <1>1, <2>3, <2>4, <2>5 DEF Unsent, Untouched
  <2> QED
    BY <2>1, <2>2, <2>3, <2>6 DEF ChainOrder
<1>5. CASE Block
  <2>1. PICK h \in Calls, k \in TxCodes :
           /\ h = Head(mempool)
           /\ code' = [code EXCEPT ![h] = k]
    BY <1>0, <1>5, TailOrder DEF Block, WorldTypes
  <2>2. /\ mempool # << >> /\ mempool \in Seq(Calls)
        /\ mempool' = Tail(mempool)
        /\ chainSeq' = chainSeq + 1 /\ chainSeq \in Int
        /\ UNCHANGED <<sequence, inbox, fate>>
    BY <1>0, <1>5 DEF Block, WorldTypes, payerVars, payments
  <2>3. sequence[h] = chainSeq /\ h \in Listed(mempool)
    BY <2>1, <2>2, TailOrder DEF ChainOrder, Listed
  <2>4. InBlock' = InBlock \cup {h}
    BY <1>0, <2>1, NoAnswerAssumption DEF InBlock, WorldTypes
  <2>5. \A i \in DOMAIN mempool' : sequence'[mempool'[i]] = chainSeq' + i - 1
    <3>1. ASSUME NEW i \in DOMAIN mempool'
          PROVE  i \in Nat /\ i + 1 \in DOMAIN mempool /\ mempool'[i] = mempool[i + 1]
      BY <2>2, TailOrder
    <3>2. \A i \in DOMAIN mempool' : sequence[mempool[i + 1]] = chainSeq + (i + 1) - 1
      BY <3>1 DEF ChainOrder
    <3> QED
      BY <2>2, <3>1, <3>2
  <2>6. \A c \in InBlock' : sequence'[c] < chainSeq'
    BY <1>0, <2>2, <2>3, <2>4 DEF ChainOrder, InBlock
  <2>7. \A c, d \in InBlock' : sequence'[c] = sequence'[d] => c = d
    BY <2>2, <2>3, <2>4 DEF ChainOrder
  <2>8. Listed(mempool') \subseteq Listed(mempool)
    BY <2>2, TailOrder DEF Listed
  <2>9. fate[h] # "none"
    BY <2>3 DEF ChainOrder, Unsent, Untouched
  <2>10. \A d \in Calls : fate'[d] = "none" => Unsent(d)'
    BY <1>1, <2>4, <2>8, <2>9 DEF Unsent, Untouched
  <2> QED
    BY <2>5, <2>6, <2>7, <2>10 DEF ChainOrder
<1> QED
  BY <1>2, <1>3, <1>4, <1>5, ChainStays
\* A payment that the chain holds with an error took no more than the fee,
\* although the chain is asked by the bytes, and it cannot arrive again.
LEMMA FindsOwnCode ==
  ASSUME CallInv, ChainOrder, AskChain, NEW c \in Calls, fate'[c] # fate[c]
  PROVE  \/ fate'[c] = "landed"
         \/ fate'[c] = "feeOnly" /\ sequence[c] < chainSeq /\ code[c] # 0
<1>0. fate \in [Calls -> Ledger!Fates] /\ code \in [Calls -> TxCodes \cup {NoAnswer}]
  BY DEF CallInv, TypeOK, PayerTypeOK
<1>1. PICK d \in InBlock : SameTx(Head(asking), d) /\ PollFound(code[d])
  BY DEF AskChain, PollAbsent, payments
<1>2. \/ fate' = [fate EXCEPT ![Head(asking)] = "landed"]
      \/ fate' = [fate EXCEPT ![Head(asking)] = "feeOnly"] /\ code[d] # 0
  BY <1>1 DEF PollFound
<1>3. c = Head(asking) /\ (fate'[c] = "landed" \/ (fate'[c] = "feeOnly" /\ code[d] # 0))
  BY <1>0, <1>2
<1>4. sequence[c] = sequence[d] /\ sequence[d] < chainSeq
  BY <1>1, <1>3 DEF SameTx, ChainOrder
<1>5. code[c] = 0 => c = d
  BY <1>0, <1>1, <1>4, NoAnswerAssumption DEF ChainOrder, InBlock, TxCodes
<1> QED
  BY <1>3, <1>4, <1>5

\* Only an answer of the chain makes the payer charge the fee alone.
LEMMA OnlyTheChainCharges ==
  ASSUME CallInv, [Next]_vars, ~ AskChain, NEW c \in Calls, fate'[c] = "feeOnly"
  PROVE  fate[c] = "feeOnly"
<1>0. fate \in [Calls -> Ledger!Fates]
  BY TypesAtHand
<1>1. ASSUME NEW d \in Calls, AnswerLost(d) \/ AnswerArrives(d)
      PROVE  fate[c] = "feeOnly"
  BY <1>0, <1>1 DEF AnswerLost, AnswerArrives, Unresolved, Rollback, release, payerVars,
     payments
<1>2. CASE Signs
  BY <1>0, <1>2, SigningSteps
<1>3. CASE ProcessEnds
  BY <1>3 DEF ProcessEnds, Restart, Ledger!Forgotten
<1>4. CASE StopAsking
  <2>1. UNCHANGED fate \/ fate' = [fate EXCEPT ![Head(asking)] = "returned"]
    BY <1>4 DEF StopAsking, WaitEnds, release, payments
  <2> QED
    BY <1>0, <2>1
<1>5. CASE Admitted \/ ReadAccount \/ CallerLeaves
  BY <1>5 DEF Admitted, BudgetAdmits, ReadAccount, AccountReads, CallerLeaves, CtxEnds, payments
<1>6. CASE PayFails
  BY <1>6, FailingSteps
<1>7. ASSUME NEW d \in Calls, Pay(d)
      PROVE  fate[c] = "feeOnly"
  BY <1>7 DEF Pay, PayLock, payments
<1>8. CASE \/ \E d \in Calls : Unseen(d)
           \/ Block \/ AtRest \/ UNCHANGED vars
           \/ \E r \in Readers : ReadSpent(r) \/ ReadOpen(r)
  BY <1>8, UnseenSteps DEF payerVars, payments
<1> QED
  BY <1>1, <1>2, <1>3, <1>4, <1>5, <1>6, <1>7, <1>8
  DEF Next, PayerStep, CallStep, WorldStep, Unseen

\* Every step keeps a fee that was charged right.
LEMMA FeeStep == CallInv /\ ChainOrder /\ FeeCharged /\ [Next]_vars => FeeCharged'
<1> SUFFICES ASSUME CallInv, ChainOrder, FeeCharged, [Next]_vars,
                    NEW c \in Calls, fate'[c] = "feeOnly"
             PROVE  (sequence[c] < chainSeq /\ code[c] # 0)'
  BY DEF FeeCharged
<1>0. /\ WorldTypes /\ chainSeq \in Int
      /\ sequence \in [Calls -> Sequences] /\ fate \in [Calls -> Ledger!Fates]
      /\ \A d \in Calls : sequence[d] \in Int
  BY TypesAtHand DEF WorldTypes
<1>1. CASE AskChain
  <2>1. UNCHANGED <<sequence, code, chainSeq>>
    BY <1>1, AskingSteps DEF Asks, worldVars
  <2>2. sequence[c] < chainSeq /\ code[c] # 0
    BY <1>1, FindsOwnCode DEF FeeCharged
  <2> QED
    BY <2>1, <2>2
<1>2. CASE ~ AskChain
  <2>1. fate[c] = "feeOnly" /\ sequence[c] < chainSeq /\ code[c] # 0
    BY <1>2, OnlyTheChainCharges DEF FeeCharged
  <2>2. CASE Signs
    <3>1. /\ mu \in Calls /\ mu # c
          /\ sequence' = [sequence EXCEPT ![mu] = pickSequence]
          /\ UNCHANGED <<code, chainSeq>>
      BY <2>1, <2>2, SigningSteps DEF worldVars
    <3> QED
      BY <1>0, <2>1, <3>1
  <2>3. CASE Block
    <3>1. PICK k \in TxCodes : code' = [code EXCEPT ![Head(mempool)] = k]
      BY <2>3 DEF Block
    <3>2. /\ mempool # << >> /\ mempool \in Seq(Calls)
          /\ chainSeq' = chainSeq + 1
          /\ UNCHANGED sequence
      BY <1>0, <2>3 DEF Block, WorldTypes, payerVars, payments
    <3>3. sequence[Head(mempool)] = chainSeq + 1 - 1
      BY <3>2, TailOrder DEF ChainOrder
    <3>4. Head(mempool) # c
      BY <1>0, <2>1, <3>3
    <3>5. code'[c] = code[c]
      BY <1>0, <3>1, <3>4 DEF WorldTypes
    <3> QED
      BY <1>0, <2>1, <3>2, <3>5
  <2>4. ASSUME NEW d \in Calls, SidecarBroadcasts(d)
        PROVE  UNCHANGED <<sequence, code, chainSeq>>
    BY <2>4 DEF SidecarBroadcasts, payerVars, payments
  <2> QED
    BY <2>1, <2>2, <2>3, <2>4, ChainStays
<1> QED
  BY <1>1, <1>2
-----------------------------------------------------------------------------
\* Without some of the four faults.

\* The context of no call ends while it asks the chain.
LEMMA ContextStays ==
  ASSUME "ctx" \notin Faults, CallInv, ctxEnded = FALSE, [Next]_vars
  PROVE  ctxEnded' = FALSE
<1>1. ASSUME NEW c \in Calls, Unseen(c)
      PROVE  ctxEnded' = FALSE
  <2>1. UNCHANGED payerVars
    BY <1>1, UnseenSteps
  <2> QED
    BY <2>1, Zenon DEF payerVars, frame
<1>2. CASE \/ Block \/ AtRest \/ UNCHANGED vars
           \/ \E r \in Readers : ReadSpent(r) \/ ReadOpen(r)
  <2>1. UNCHANGED payerVars
    BY <1>2, UnseenSteps
  <2> QED
    BY <2>1, Zenon DEF payerVars, frame
<1>3. CASE PayFails \/ Signs \/ ProcessEnds
  BY <1>3, Zenon DEF PayFails, BudgetRefuses, AccountFails, SignFails, Signs, SignTx,
     ProcessEnds, Restart, Free
<1>4. CASE AskChain \/ StopAsking \/ Admitted \/ ReadAccount
  BY <1>4, Zenon DEF AskChain, StopAsking, Admitted, ReadAccount, PollFound, PollAbsent,
     WaitEnds, BudgetAdmits, AccountReads
<1>5. ASSUME NEW c \in Calls, Pay(c)
      PROVE  ctxEnded' = FALSE
  BY <1>5, Zenon DEF Pay, PayLock
<1>6. ASSUME NEW c \in Calls, AnswerLost(c) \/ AnswerArrives(c)
      PROVE  ctxEnded' = FALSE
  BY <1>6, Zenon DEF AnswerLost, AnswerArrives, Unresolved, Rollback, payerVars, frame
<1>7. ~ CallerLeaves
  BY DEF CallerLeaves
<1> QED
  BY <1>1, <1>2, <1>3, <1>4, <1>5, <1>6, <1>7
  DEF Next, PayerStep, CallStep, WorldStep, Unseen

\* The decision of resolveOpen to give a payment back is right: the payment is
\* not in a block and will reach none.
LEMMA GivesBackUnsent ==
  ASSUME Faults \subseteq {"redeliver"}, CallInv, ctxEnded = FALSE, StopAsking,
         NEW c \in Calls, fate'[c] # fate[c]
  PROVE  fate'[c] = "returned" /\ Unsent(c)
<1>0. "drop" \notin Faults /\ "late" \notin Faults
  OBVIOUS
<1>1. /\ Waiting /\ WaitEnds
      /\ outcome = "unknown" \/ (Head(asking) \notin InBlock /\ Settled(Head(asking)))
  BY <1>0, Zenon DEF StopAsking
<1>2. fate \in [Calls -> Ledger!Fates]
  BY DEF CallInv, TypeOK, PayerTypeOK
<1>3. outcome = "absent" /\ fate' = [fate EXCEPT ![Head(asking)] = "returned"]
  BY <1>1 DEF WaitEnds, release
<1>4. c = Head(asking) /\ fate'[c] = "returned"
  BY <1>2, <1>3
<1>5. c \notin InBlock /\ Settled(c)
  BY <1>1, <1>3, <1>4
<1> QED
  BY <1>4, <1>5 DEF Settled, Unsent, Untouched, Listed

\* Every step keeps a payment delivered once.
LEMMA DeliveredStep ==
  ASSUME "redeliver" \notin Faults, CallInv, ChainOrder, DeliveredOnce, [Next]_vars
  PROVE  DeliveredOnce'
<1>0. /\ ClientTypes /\ WorldTypes
      /\ sequence \in [Calls -> Sequences] /\ fate \in [Calls -> Ledger!Fates]
      /\ \A c \in Calls : sequence[c] \in Int
      /\ chainSeq \in Int /\ Len(mempool) \in Nat
  <2>1. ClientTypes /\ WorldTypes
    BY TypesAtHand
  <2>2. chainSeq \in Int /\ Len(mempool) \in Nat
    BY <2>1 DEF WorldTypes
  <2> QED
    BY <2>1, <2>2, TypesAtHand
<1>1. ASSUME UNCHANGED worldVars,
             \A c \in Calls : /\ pc'[c] \in {"send", "refused"} => pc'[c] = pc[c]
                              /\ pc[c] = "await" => pc'[c] = "await"
      PROVE  DeliveredOnce'
  BY <1>1 DEF worldVars, DeliveredOnce, Unsent, Untouched, InBlock
<1>2. ASSUME NEW c \in Calls,
             ServesItself(c) \/ FirstTry(c) \/ LockClient(c) \/ OptionRefused(c) \/ Pay(c)
      PROVE  DeliveredOnce'
  <2>1. UNCHANGED <<worldVars, sequence, fate>>
    BY <1>2 DEF ServesItself, FirstTry, LockClient, OptionRefused, Pay, PayLock, payerVars,
       payments
  <2>2. pc[c] \notin {"send", "await"}
    BY <1>2 DEF ServesItself, FirstTry, LockClient, OptionRefused, Pay
  <2>3. \/ UNCHANGED pc
        \/ \E e \in {"free", "error", "gave402", "lock", "pay"} : pc' = [pc EXCEPT ![c] = e]
    BY <1>2 DEF ServesItself, FirstTry, LockClient, OptionRefused, Pay, Return, clientVars
  <2> QED
    BY <1>0, <1>1, <2>1, <2>2, <2>3 DEF ClientTypes
<1>3. CASE PayFails
  <2>1. UNCHANGED <<worldVars, sequence, fate>> /\ mu \in Calls /\ pc[mu] = "pay"
        /\ pc' = [pc EXCEPT ![mu] = "gave402"]
    BY <1>3, FailingSteps DEF Return
  <2> QED
    BY <1>0, <1>1, <2>1 DEF ClientTypes
<1>4. CASE \/ AtRest \/ UNCHANGED vars
           \/ \E r \in Readers : ReadSpent(r) \/ ReadOpen(r)
  <2>1. UNCHANGED <<sequence, fate>>
    BY <1>4, UnseenSteps DEF payerVars, payments
  <2>2. UNCHANGED <<worldVars, pc>>
    BY <1>4 DEF AtRest, ReadSpent, ReadOpen, vars, clientVars
  <2> QED
    BY <1>1, <2>1, <2>2
<1>5. ASSUME NEW c \in Calls, Send(c)
      PROVE  DeliveredOnce'
  <2>1. Unsent(c) /\ answer[c] = NoAnswer /\ fate[c] = "held"
    BY <1>5, SendingCall DEF Send, DeliveredOnce
  <2> QED
    BY <1>0, <1>5, <2>1 DEF Send, payerVars, payments, ClientTypes, DeliveredOnce, Unsent,
       Untouched, InBlock
<1>6. CASE Signs
  <2>1. /\ mu \in Calls /\ Unsent(mu) /\ pc[mu] = "pay"
        /\ pc' = [pc EXCEPT ![mu] = "send"]
        /\ sequence' = [sequence EXCEPT ![mu] = pickSequence]
        /\ fate' = [fate EXCEPT ![mu] = "held"]
        /\ UNCHANGED worldVars
    BY <1>6, SigningSteps DEF ChainOrder
  <2> QED
    BY <1>0, <2>1 DEF worldVars, ClientTypes, DeliveredOnce, Unsent, Untouched, InBlock
<1>7. ASSUME NEW c \in Calls, AnswerLost(c) \/ AnswerArrives(c)
      PROVE  DeliveredOnce'
  <2>1. /\ \E e \in {"lost", "paid", "refused"} : pc' = [pc EXCEPT ![c] = e]
        /\ answer' = [answer EXCEPT ![c] = NoAnswer]
        /\ UNCHANGED <<inbox, mempool, code, chainSeq, sequence>>
    BY <1>7 DEF AnswerLost, AnswerArrives, Return, Unresolved, Rollback, payerVars, payments
  <2>2. pc' = [pc EXCEPT ![c] = "refused"] => Unsent(c)
    <3>1. AnswerLost(c) => pc'[c] = "lost"
      BY <1>0 DEF AnswerLost, Return, ClientTypes
    <3>2. AnswerArrives(c) =>
            pc'[c] = "paid" \/ (answer[c] # NoAnswer /\ ~ paymentWorked(answer[c]))
      BY <1>0 DEF AnswerArrives, Return, ClientTypes
    <3>3. pc' = [pc EXCEPT ![c] = "refused"] => pc'[c] = "refused"
      BY <1>0 DEF ClientTypes
    <3> QED
      BY <1>7, <3>1, <3>2, <3>3 DEF DeliveredOnce, Unsent
  <2> QED
    BY <1>0, <2>1, <2>2 DEF ClientTypes, WorldTypes, DeliveredOnce, Unsent, Untouched, InBlock
<1>8. ASSUME NEW c \in Calls, SidecarBroadcasts(c) \/ SidecarDeclines(c)
      PROVE  DeliveredOnce'
  <2>1. PICK a \in Answers :
          /\ Answering(c, a)
          /\ \/ paymentWorked(a) /\ CheckTx(c) /\ mempool' = Append(mempool, c)
             \/ UNCHANGED mempool
    BY <1>8, ServedWorked DEF SidecarBroadcasts, SidecarDeclines
  <2>2. UNCHANGED <<pc, code, chainSeq, sequence, fate>>
    BY <1>8 DEF SidecarBroadcasts, SidecarDeclines, clientVars, payerVars, payments
  <2>3. /\ c \in inbox /\ inbox' = inbox \ {c}
        /\ answer'[c] # NoAnswer => answer'[c] = a /\ pc[c] = "await"
        /\ \A d \in Calls : d # c => answer'[d] = answer[d]
    BY <1>0, <2>1 DEF Answering, WorldTypes
  <2>4. Untouched(c) /\ pc[c] \notin {"send", "refused"}
    BY <2>3 DEF DeliveredOnce, Unsent
  <2>5. /\ Listed(mempool') \subseteq Listed(mempool) \cup {c}
        /\ ~ paymentWorked(a) => mempool' = mempool
    <3>1. mempool \in Seq(Calls)
      BY <1>0 DEF WorldTypes
    <3>2. CASE paymentWorked(a) /\ mempool' = Append(mempool, c)
      <4>1. Listed(mempool') = Listed(mempool) \cup {c}
        BY <3>1, <3>2, AppendListed
      <4> QED
        BY <3>2, <4>1
    <3>3. CASE mempool' = mempool
      BY <3>3
    <3> QED
      BY <2>1, <3>2, <3>3
  <2>6. InBlock' = InBlock
    BY <2>2 DEF InBlock
  <2> QED
    BY <2>2, <2>3, <2>4, <2>5, <2>6 DEF DeliveredOnce, Unsent, Untouched
<1>9. CASE Block
  <2>1. PICK h \in Calls, k \in TxCodes :
           /\ h = Head(mempool)
           /\ code' = [code EXCEPT ![h] = k]
    BY <1>0, <1>9, TailOrder DEF Block, WorldTypes
  <2>2. /\ mempool # << >> /\ mempool \in Seq(Calls)
        /\ mempool' = Tail(mempool)
        /\ chainSeq' = chainSeq + 1
        /\ UNCHANGED <<pc, answer, inbox, sequence, fate>>
    BY <1>0, <1>9 DEF Block, WorldTypes, payerVars, payments, clientVars
  <2>3. sequence[h] = chainSeq /\ h \in Listed(mempool)
    <3>1. sequence[h] = chainSeq + 1 - 1 /\ h \in Listed(mempool)
      BY <2>1, <2>2, TailOrder DEF ChainOrder, Listed
    <3> QED
      BY <1>0, <3>1
  <2>4. InBlock' = InBlock \cup {h}
    BY <1>0, <2>1, NoAnswerAssumption DEF InBlock, WorldTypes
  <2>5. Listed(mempool') \subseteq Listed(mempool)
    BY <2>2, TailOrder DEF Listed
  <2>6. \A c \in Calls : Untouched(c) => Untouched(c)'
    BY <2>3, <2>4, <2>5 DEF Untouched
  <2> QED
    BY <2>2, <2>6 DEF DeliveredOnce, Unsent
<1>10. CASE Asks
  <2>1. UNCHANGED <<worldVars, pc>>
    BY <1>10, AskingSteps DEF clientVars
  <2> QED
    BY <1>1, <2>1
<1>11. CASE ProcessEnds
  <2>1. UNCHANGED <<inbox, mempool, code>>
    BY <1>11 DEF ProcessEnds
  <2>2. ASSUME NEW c \in Calls
        PROVE  /\ answer'[c] = NoAnswer
               /\ pc'[c] = "killed" \/ (pc'[c] = pc[c] /\ pc[c] \in Ended \cup {"first"})
    BY <1>11 DEF ProcessEnds
  <2>3. \A c \in Calls : /\ pc'[c] # "send" /\ answer'[c] = NoAnswer
                         /\ pc'[c] = "refused" => pc[c] = "refused"
    BY <2>2 DEF Ended
  <2>4. \A c \in Calls : Untouched(c) => Untouched(c)'
    BY <2>1 DEF Untouched, InBlock
  <2> QED
    BY <2>1, <2>3, <2>4 DEF DeliveredOnce, Unsent
<1>12. \A c \in Calls : ~ Redeliver(c)
  BY DEF Redeliver
<1> QED
  BY <1>2, <1>3, <1>4, <1>5, <1>6, <1>7, <1>8, <1>9, <1>10, <1>11, <1>12
  DEF Next, PayerStep, CallStep, WorldStep, Asks

\* A payment that has not left stays where it is, once its call no longer sends.
LEMMA UnsentStays ==
  ASSUME CallInv, [Next]_vars, NEW c \in Calls, Unsent(c), pc[c] \notin {"pay", "send", "await"}
  PROVE  Unsent(c)'
<1>0. WorldTypes
  BY TypesAtHand
<1>1. c \notin inbox'
  <2>1. ASSUME NEW d \in Calls, Send(d) \/ Redeliver(d)
        PROVE  c \notin inbox'
    BY <2>1 DEF Send, Redeliver, Unsent
  <2>2. ASSUME NEW d \in Calls, SidecarBroadcasts(d) \/ SidecarDeclines(d)
        PROVE  c \notin inbox'
    BY <2>2 DEF SidecarBroadcasts, SidecarDeclines, Answering, Unsent
  <2>3. CASE UNCHANGED inbox
    BY <2>3 DEF Unsent
  <2>4. CASE PayFails \/ Signs \/ Asks
    BY <2>3, <2>4, FailingSteps, SigningSteps, AskingSteps DEF worldVars
  <2>5. ASSUME NEW d \in Calls, CallStep(d), ~ Send(d)
        PROVE  UNCHANGED inbox
    BY <2>5 DEF CallStep, ServesItself, FirstTry, LockClient, OptionRefused, Pay, AnswerLost,
       AnswerArrives, worldVars
  <2>6. CASE \/ ProcessEnds \/ Block \/ AtRest \/ UNCHANGED vars
             \/ \E r \in Readers : ReadSpent(r) \/ ReadOpen(r)
    BY <2>3, <2>6 DEF ProcessEnds, Block, AtRest, ReadSpent, ReadOpen, vars, worldVars
  <2> QED
    BY <2>1, <2>2, <2>3, <2>4, <2>5, <2>6 DEF Next, PayerStep, WorldStep, Asks
<1>2. Untouched(c)'
  <2>1. CASE UNCHANGED <<code, mempool>>
    BY <2>1 DEF Unsent, Untouched, InBlock
  <2>2. CASE Signs
    BY <2>1, <2>2, SigningSteps DEF worldVars
  <2>3. ASSUME NEW d \in Calls, SidecarBroadcasts(d)
        PROVE  Untouched(c)'
    <3>1. /\ d \in inbox /\ d # c
          /\ mempool' = Append(mempool, d) /\ UNCHANGED code
      BY <2>3 DEF SidecarBroadcasts, Answering, Unsent
    <3>2. Listed(mempool') = Listed(mempool) \cup {d}
      BY <1>0, <3>1, AppendListed DEF WorldTypes
    <3> QED
      BY <3>1, <3>2 DEF Unsent, Untouched, InBlock
  <2>4. CASE Block
    <3>1. /\ mempool # << >> /\ mempool \in Seq(Calls) /\ mempool' = Tail(mempool)
          /\ \E k \in TxCodes : code' = [code EXCEPT ![Head(mempool)] = k]
      BY <1>0, <2>4 DEF Block, WorldTypes
    <3>2. Head(mempool) \in Listed(mempool) /\ Listed(mempool') \subseteq Listed(mempool)
      BY <3>1, TailOrder DEF Listed
    <3>3. code'[c] = code[c] /\ c \notin Listed(mempool')
      BY <1>0, <3>1, <3>2 DEF Unsent, Untouched, WorldTypes
    <3> QED
      BY <3>3 DEF Unsent, Untouched, InBlock
  <2> QED
    BY <2>1, <2>2, <2>3, <2>4, ChainStays
<1> QED
  BY <1>1, <1>2 DEF Unsent

\* Only the end of a wait gives the payment of a lost answer back.
LEMMA OnlyWaitsGiveBack ==
  ASSUME CallInv, [Next]_vars, NEW c \in Calls, pc'[c] = "lost", fate'[c] = "returned"
  PROVE  /\ pc[c] = "lost"
         /\ fate[c] = "returned" \/ (StopAsking /\ fate'[c] # fate[c])
<1>0. ClientTypes /\ fate \in [Calls -> Ledger!Fates]
  BY TypesAtHand
<1>1. ASSUME NEW d \in Calls, AnswerLost(d)
      PROVE  pc[c] = "lost" /\ fate[c] = "returned"
  BY <1>0, <1>1 DEF AnswerLost, Return, Unresolved, ClientTypes
<1>2. ASSUME NEW d \in Calls, AnswerArrives(d)
      PROVE  pc[c] = "lost" /\ fate[c] = "returned"
  <2>1. \E e \in {"paid", "refused"} : pc' = [pc EXCEPT ![d] = e]
    BY <1>2 DEF AnswerArrives, Return
  <2>2. c # d /\ pc[c] = "lost"
    BY <1>0, <2>1 DEF ClientTypes
  <2>3. UNCHANGED fate \/ fate' = [fate EXCEPT ![d] = "returned"]
    BY <1>2 DEF AnswerArrives, Rollback, release, payerVars, payments
  <2> QED
    BY <1>0, <2>2, <2>3
<1>3. CASE Signs
  BY <1>0, <1>3, SigningSteps DEF ClientTypes
<1>4. CASE ProcessEnds
  <2>1. pc[c] = "lost"
    BY <1>4 DEF ProcessEnds, Ended
  <2>2. fate[c] = "returned"
    BY <1>4 DEF ProcessEnds, Restart, Ledger!Forgotten
  <2> QED
    BY <2>1, <2>2
<1>5. CASE Asks
  <2>1. UNCHANGED pc
    BY <1>5, AskingSteps DEF clientVars
  <2>2. ASSUME AskChain PROVE fate[c] = "returned"
    <3>1. \/ UNCHANGED fate
          \/ \E k \in {"landed", "feeOnly"} : fate' = [fate EXCEPT ![Head(asking)] = k]
      BY <2>2 DEF AskChain, PollFound, PollAbsent, payments
    <3> QED
      BY <1>0, <3>1
  <2>3. ASSUME Admitted \/ ReadAccount \/ CallerLeaves PROVE fate[c] = "returned"
    BY <2>3 DEF Admitted, BudgetAdmits, ReadAccount, AccountReads, CallerLeaves, CtxEnds, payments
  <2> QED
    BY <1>5, <2>1, <2>2, <2>3 DEF Asks
<1>6. CASE PayFails
  BY <1>0, <1>6, FailingSteps DEF Return, ClientTypes
<1>7. ASSUME NEW d \in Calls, Pay(d)
      PROVE  pc[c] = "lost" /\ fate[c] = "returned"
  BY <1>7 DEF Pay, PayLock, payments, clientVars
<1>8. ASSUME NEW d \in Calls, Unseen(d)
      PROVE  pc[c] = "lost" /\ fate[c] = "returned"
  <2>1. UNCHANGED fate
    BY <1>8, UnseenSteps DEF payerVars, payments
  <2>2. \/ UNCHANGED pc
        \/ \E e \in {"free", "error", "gave402", "lock", "pay", "await"} : pc' = [pc EXCEPT ![d] = e]
    BY <1>8 DEF Unseen, ServesItself, FirstTry, LockClient, OptionRefused, Return, Send,
       SidecarBroadcasts, SidecarDeclines, Redeliver, clientVars
  <2> QED
    BY <1>0, <2>1, <2>2 DEF ClientTypes
<1>9. CASE \/ Block \/ AtRest \/ UNCHANGED vars
           \/ \E r \in Readers : ReadSpent(r) \/ ReadOpen(r)
  <2>1. UNCHANGED fate
    BY <1>9, UnseenSteps DEF payerVars, payments
  <2>2. UNCHANGED pc
    BY <1>9 DEF Block, AtRest, ReadSpent, ReadOpen, vars, clientVars
  <2> QED
    BY <2>1, <2>2
<1> QED
  BY <1>1, <1>2, <1>3, <1>4, <1>5, <1>6, <1>7, <1>8, <1>9
  DEF Next, PayerStep, CallStep, WorldStep, Asks, Unseen

\* Every step keeps what was given back after a wait off its way.
LEMMA WaitedStep ==
  ASSUME Faults \subseteq {"redeliver"}, CallInv, ctxEnded = FALSE, WaitedUnsent, [Next]_vars
  PROVE  WaitedUnsent'
<1> SUFFICES ASSUME NEW c \in Calls, pc'[c] = "lost", fate'[c] = "returned"
             PROVE  Unsent(c)'
  BY DEF WaitedUnsent
<1>1. /\ pc[c] = "lost"
      /\ fate[c] = "returned" \/ (StopAsking /\ fate'[c] # fate[c])
  BY OnlyWaitsGiveBack
<1>2. Unsent(c)
  BY <1>1, GivesBackUnsent DEF WaitedUnsent
<1> QED
  BY <1>1, <1>2, UnsentStays
-----------------------------------------------------------------------------
\* The budget is late by no more than the payments that were given back.

\* What every step keeps, whatever faults happen.
ChargedInv == /\ CallInv
              /\ LedgerExact
              /\ ChainOrder
              /\ FeeCharged

LEMMA ChargedInit == Init => ChargedInv
<1> SUFFICES ASSUME Init PROVE ChargedInv
  OBVIOUS
<1>1. CallInv /\ LedgerExact
  BY CallInit, LedgerInit DEF Init
<1>2. InBlock = {} /\ Listed(mempool) = {} /\ DOMAIN mempool = {} /\ inbox = {}
  BY EmptyListed DEF Init, InBlock
<1>3. ChainOrder
  BY <1>2 DEF ChainOrder, Unsent, Untouched
<1>4. FeeCharged
  BY DEF Init, PayerInit, FeeCharged
<1> QED
  BY <1>1, <1>3, <1>4 DEF ChargedInv

LEMMA ChargedStep == ChargedInv /\ [Next]_vars => ChargedInv'
<1> SUFFICES ASSUME ChargedInv, [Next]_vars
             PROVE  ChargedInv'
  OBVIOUS
<1>1. LedgerExact'
  BY UsesPayer, LedgerStep DEF ChargedInv, CallInv, TypeOK
<1>2. CallInv' /\ ChainOrder' /\ FeeCharged'
  BY CallStepKeeps, ChainStep, FeeStep DEF ChargedInv
<1> QED
  BY <1>1, <1>2 DEF ChargedInv

\* The chain took no more for a payment than the payer counts for it, unless
\* the payer gave it back.
LEMMA TookCounted ==
  ASSUME ChargedInv, NEW c \in Calls
  PROVE  /\ Took(c) \in 0 .. (MaxPerCall + Fee)
         /\ Ledger!Counted(c) \in 0 .. (MaxPerCall + Fee)
         /\ fate[c] # "returned" => Took(c) <= Ledger!Counted(c)
<1>0. /\ fate[c] \in Ledger!Fates
      /\ amount[c] \in 0 .. MaxPerCall /\ MaxPerCall \in Nat /\ Fee \in Nat
  BY MoneyAssumption DEF ChargedInv, CallInv, TypeOK, PayerTypeOK
<1>1. fate[c] \in {"none", "forgotten"} => Took(c) = 0 /\ Ledger!Counted(c) = 0
  BY DEF ChargedInv, ChainOrder, Unsent, Untouched, Took, Ledger!Counted, Ledger!InFull
<1>2. fate[c] = "feeOnly" => Took(c) \in {0, Fee} /\ Ledger!Counted(c) = Fee
  BY DEF ChargedInv, FeeCharged, Took, Ledger!Counted, Ledger!InFull
<1>3. fate[c] \in Ledger!InFull => /\ Took(c) \in {0, Fee, amount[c] + Fee}
                                   /\ Ledger!Counted(c) = amount[c] + Fee
  BY DEF Took, Ledger!Counted, Ledger!InFull
<1>4. fate[c] = "returned" => /\ Took(c) \in {0, Fee, amount[c] + Fee}
                              /\ Ledger!Counted(c) = 0
  BY DEF Took, Ledger!Counted, Ledger!InFull
<1> QED
  BY <1>0, <1>1, <1>2, <1>3, <1>4 DEF Ledger!Fates, Ledger!InFull

\* A sum whose terms are the terms of one or of the other of two sums.
LEMMA SumSplit ==
  ASSUME NEW S, IsFiniteSet(S), NEW k \in Nat,
         NEW f \in [S -> 0 .. k], NEW g \in [S -> 0 .. k], NEW h \in [S -> 0 .. k],
         \A d \in S : \/ g[d] = f[d] /\ h[d] = 0
                      \/ g[d] = 0 /\ h[d] = f[d]
  PROVE  /\ SumOf(S, k, g) \in Nat /\ SumOf(S, k, h) \in Nat
         /\ SumOf(S, k, f) = SumOf(S, k, g) + SumOf(S, k, h)
<1>1. IsFiniteSet(CoinsOf(S, k, g)) /\ IsFiniteSet(CoinsOf(S, k, h))
  BY FiniteCoins
<1>2. CoinsOf(S, k, f) = CoinsOf(S, k, g) \cup CoinsOf(S, k, h)
  BY DEF CoinsOf
<1>3. CoinsOf(S, k, g) \cap CoinsOf(S, k, h) = {}
  BY DEF CoinsOf
<1>4. /\ Cardinality(CoinsOf(S, k, g)) \in Nat
      /\ Cardinality(CoinsOf(S, k, h)) \in Nat
      /\ Cardinality(CoinsOf(S, k, g) \cap CoinsOf(S, k, h)) = 0
  BY <1>1, <1>3, FS_CardinalityType, FS_EmptySet
<1>5. Cardinality(CoinsOf(S, k, f))
        = Cardinality(CoinsOf(S, k, g)) + Cardinality(CoinsOf(S, k, h))
          - Cardinality(CoinsOf(S, k, g) \cap CoinsOf(S, k, h))
  BY <1>1, <1>2, FS_Union
<1> QED
  BY <1>4, <1>5 DEF SumOf

\* The sums behind both theorems.
LEMMA TakenSums ==
  ASSUME ChargedInv
  PROVE  /\ TakenBack \in Nat /\ TotalTaken \in Nat /\ spent \in Int
         /\ TotalTaken <= spent + TakenBack
<1> DEFINE k == MaxPerCall + Fee
           f == [c \in Calls |-> Took(c)]
           g == [c \in Calls |-> IF fate[c] = "returned" THEN Took(c) ELSE 0]
           h == [c \in Calls |-> IF fate[c] = "returned" THEN 0 ELSE Took(c)]
           n == [c \in Calls |-> Ledger!Counted(c)]
<1>1. k \in Nat /\ IsFiniteSet(Calls)
  BY MoneyAssumption, CallsAssumption
<1>2. /\ f \in [Calls -> 0 .. k] /\ g \in [Calls -> 0 .. k]
      /\ h \in [Calls -> 0 .. k] /\ n \in [Calls -> 0 .. k]
      /\ \A c \in Calls : h[c] <= n[c]
  BY <1>1, TookCounted
<1>3. \A c \in Calls : \/ g[c] = f[c] /\ h[c] = 0
                       \/ g[c] = 0 /\ h[c] = f[c]
  OBVIOUS
<1>4. /\ TotalTaken = SumOf(Calls, k, f) /\ TakenBack = SumOf(Calls, k, g)
      /\ Ledger!Total = SumOf(Calls, k, n)
  BY LedgerCardinality
  DEF TotalTaken, TakenBack, Ledger!Total, Ledger!SumOf, Ledger!CoinsOf, SumOf, CoinsOf
<1> HIDE DEF k, f, g, h, n
<1>5. /\ SumOf(Calls, k, g) \in Nat /\ SumOf(Calls, k, h) \in Nat
      /\ SumOf(Calls, k, f) = SumOf(Calls, k, g) + SumOf(Calls, k, h)
  BY <1>1, <1>2, <1>3, SumSplit
<1>6. SumOf(Calls, k, h) <= SumOf(Calls, k, n)
  BY <1>1, <1>2, SumMonotone
<1>7. spent = SumOf(Calls, k, n) /\ spent \in Int
  BY <1>4 DEF ChargedInv, LedgerExact, CallInv, TypeOK, PayerTypeOK
<1> QED
  BY <1>4, <1>5, <1>6, <1>7

\* The sum that the chain took of this process is never above what the payer
\* counts and what the chain took for payments that the payer gave back, for
\* every number of calls and restarts, every price, fee and budget, and in
\* every order of faults: ended contexts, silence, late arrivals and requests
\* that are delivered twice.
THEOREM ReturnsAloneMakeLate == Spec => []LateOnlyByReturns
<1>1. ChargedInv => LateOnlyByReturns
  BY TakenSums DEF LateOnlyByReturns
<1> QED
  BY <1>1, ChargedInit, ChargedStep, PTL DEF Spec

\* So with a budget the chain never takes more of a process than the budget and
\* the payments that the process gave back, whatever faults happen.
THEOREM BudgetHoldsUpToReturns == Spec => [](Budget = 0 \/ TotalTaken <= Budget + TakenBack)
<1>1. ChargedInv /\ BudgetHeld => Budget = 0 \/ TotalTaken <= Budget + TakenBack
  <2> SUFFICES ASSUME ChargedInv, BudgetHeld, Budget # 0
               PROVE  TotalTaken <= Budget + TakenBack
    OBVIOUS
  <2>1. spent <= Budget
    BY DEF BudgetHeld
  <2> QED
    BY <2>1, TakenSums, MoneyAssumption
<1>2. ChargedInv /\ BudgetHeld /\ [Next]_vars => BudgetHeld'
  BY UsesPayer, BudgetStep DEF ChargedInv, CallInv, TypeOK
<1>3. Init => BudgetHeld
  BY MoneyAssumption DEF Init, PayerInit, BudgetHeld
<1> QED
  BY <1>1, <1>2, <1>3, ChargedInit, ChargedStep, PTL DEF Spec
-----------------------------------------------------------------------------
\* Which fault makes which return wrong.

\* A payment that the sidecar refused and Do rolled back never reaches a block,
\* for every number of calls and restarts, whenever no request is delivered
\* twice: callers that leave, a chain that falls silent and payments that arrive
\* late do no harm here.
THEOREM RefusalsAreRight ==
  ASSUME "redeliver" \notin Faults
  PROVE  Spec => []RefusedNeverTaken
<1> DEFINE I == ChargedInv /\ DeliveredOnce
<1>1. Init => I
  BY ChargedInit DEF Init, PayerInit, DeliveredOnce
<1>2. I /\ [Next]_vars => I'
  <2> SUFFICES ASSUME I, [Next]_vars PROVE I'
    OBVIOUS
  <2>1. DeliveredOnce'
    BY DeliveredStep DEF ChargedInv
  <2> QED
    BY <2>1, ChargedStep
<1>3. I => RefusedNeverTaken
  BY DEF DeliveredOnce, Unsent, Untouched, RefusedNeverTaken
<1> QED
  BY <1>1, <1>2, <1>3, PTL DEF Spec

\* A payment that resolveOpen gave back after a wait never reaches a block, for
\* every number of calls and restarts, whenever no context ends while the payer
\* asks, the chain keeps answering and the wait is long enough: a request that
\* is delivered twice does no harm here.
THEOREM WaitsAreRight ==
  ASSUME Faults \subseteq {"redeliver"}
  PROVE  Spec => []WaitedNeverTaken
<1> DEFINE I == CallInv /\ ctxEnded = FALSE /\ WaitedUnsent
<1>1. Init => I
  BY CallInit DEF Init, PayerInit, WaitedUnsent
<1>2. I /\ [Next]_vars => I'
  <2> SUFFICES ASSUME I, [Next]_vars PROVE I'
    OBVIOUS
  <2>1. WaitedUnsent'
    BY WaitedStep
  <2>2. ctxEnded' = FALSE
    BY ContextStays
  <2> QED
    BY <2>1, <2>2, CallStepKeeps
<1>3. I => WaitedNeverTaken
  BY DEF WaitedUnsent, Unsent, Untouched, WaitedNeverTaken
<1> QED
  BY <1>1, <1>2, <1>3, PTL DEF Spec

\* A payment is given back by a refusal or after a wait, and never otherwise.
LEMMA TwoWaysBack ==
  ASSUME CallInv, NEW c \in Calls, fate[c] = "returned"
  PROVE  pc[c] \in {"refused", "lost"}
<1>1. ReceiptMatchesLedger /\ ClientTypes
  BY TypesAtHand DEF CallInv
<1> QED
  BY <1>1 DEF ReceiptMatchesLedger, ClientTypes, Ended

\* The payer has counted at every moment all the money that the chain took of
\* this process, for every number of calls, budget, fee and price limit and
\* every number of restarts, when no context ends while the payer asks, the
\* chain keeps answering, no payment arrives after the wait for it, and no
\* request is delivered twice: then both ways to give a payment back are right.
\* The runs late_by_... show what single faults do.
THEOREM BudgetNeverLate ==
  ASSUME Faults = {}
  PROVE  Spec => []NeverLate
<1>1. ChargedInv /\ RefusedNeverTaken /\ WaitedNeverTaken => NeverLate
  <2> SUFFICES ASSUME ChargedInv, RefusedNeverTaken, WaitedNeverTaken
               PROVE  NeverLate
    OBVIOUS
  <2> DEFINE k == MaxPerCall + Fee
             g == [c \in Calls |-> IF fate[c] = "returned" THEN Took(c) ELSE 0]
  <2>1. ASSUME NEW c \in Calls, fate[c] = "returned"
        PROVE  Took(c) = 0
    BY <2>1, TwoWaysBack DEF ChargedInv, RefusedNeverTaken, WaitedNeverTaken, Took
  <2>2. k \in Nat /\ g \in [Calls -> 0 .. k] /\ \A c \in Calls : g[c] = 0
    BY <2>1, MoneyAssumption
  <2>3. TakenBack = SumOf(Calls, k, g)
    BY DEF TakenBack
  <2> HIDE DEF k, g
  <2>4. TakenBack = 0
    BY <2>2, <2>3, SumZero
  <2> QED
    BY <2>4, TakenSums DEF NeverLate
<1>2. Spec => []RefusedNeverTaken
  BY RefusalsAreRight
<1>3. Spec => []WaitedNeverTaken
  BY WaitsAreRight
<1> QED
  BY <1>1, <1>2, <1>3, ChargedInit, ChargedStep, PTL DEF Spec
=============================================================================

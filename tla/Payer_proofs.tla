---------------------------- MODULE Payer_proofs ----------------------------
(***************************************************************************)
(* Theorems about Payer.tla, for every number of calls, every budget, fee  *)
(* and price, and every answer of the sidecar and the chain.               *)
(***************************************************************************)
EXTENDS Payer, TLAPS

\* The initial state has the types of the type invariant.
LEMMA TypeInit == PayerInit => PayerTypeOK
<1> SUFFICES ASSUME PayerInit PROVE PayerTypeOK
  OBVIOUS
<1>1. FlagsOK
  BY DEF PayerInit, FlagsOK
<1> QED
  BY <1>1, CallsAssumption, MoneyAssumption, SeqAssumption
  DEF PayerInit, PayerTypeOK, Stages, Sequences, Ledger!Fates

\* The two flags stay flags: every action sets them to a truth value or
\* leaves them alone.
LEMMA FlagsStep == FlagsOK /\ [PayerNext]_payerVars => FlagsOK'
<1> SUFFICES ASSUME FlagsOK, [PayerNext]_payerVars
             PROVE  FlagsOK'
  OBVIOUS
<1> USE DEF FlagsOK, frame, payments
<1>1. ASSUME NEW c \in Calls, NEW o \in Options, PayLock(c, o)
      PROVE  FlagsOK'
  BY <1>1 DEF PayLock
<1>2. CASE CtxEnds
  BY <1>2 DEF CtxEnds
<1>3. ASSUME NEW code \in TxCodes, PollFound(code)
      PROVE  FlagsOK'
  BY <1>3 DEF PollFound
<1>4. CASE PollAbsent
  BY <1>4 DEF PollAbsent
<1>5. CASE WaitEnds
  BY <1>5 DEF WaitEnds, release
<1>6. CASE BudgetAdmits
  BY <1>6 DEF BudgetAdmits
<1>7. CASE BudgetRefuses
  BY <1>7 DEF BudgetRefuses, Free
<1>8. ASSUME NEW s \in Sequences, AccountReads(s)
      PROVE  FlagsOK'
  BY <1>8 DEF AccountReads
<1>9. CASE AccountFails
  BY <1>9 DEF AccountFails, Free
<1>10. CASE SignFails
  BY <1>10 DEF SignFails, Free
<1>11. CASE SignTx
  BY <1>11 DEF SignTx, Free
<1>12. ASSUME NEW c \in Calls, Rollback(c)
       PROVE  FlagsOK'
  BY <1>12 DEF Rollback, release
<1>13. ASSUME NEW c \in Calls, Unresolved(c)
       PROVE  FlagsOK'
  BY <1>13 DEF Unresolved
<1>14. CASE UNCHANGED payerVars
  BY <1>14 DEF payerVars
<1>15. CASE Restart
  BY <1>15 DEF Restart, Free
<1> QED
  BY <1>1, <1>2, <1>3, <1>4, <1>5, <1>6, <1>7, <1>8, <1>9, <1>10, <1>11,
     <1>12, <1>13, <1>14, <1>15 DEF PayerNext, Quiet

\* The payment at hand is a payment, and so are the ones behind it.
LEMMA AtHand == ASSUME asking \in Seq(Calls), Waiting
                PROVE  Head(asking) \in Calls /\ Tail(asking) \in Seq(Calls)
  BY DEF Waiting

\* A transaction in a block charges or returns a whole number.
LEMMA PollFoundTypes ==
  ASSUME NEW code, PollFound(code), Head(asking) \in Calls, spent \in Int,
         amount \in [Calls -> 0 .. MaxPerCall], fate \in [Calls -> Ledger!Fates]
  PROVE  spent' \in Int /\ fate' \in [Calls -> Ledger!Fates]
<1>1. spent' \in Int
  BY MoneyAssumption DEF PollFound
<1>2. fate' \in [Calls -> Ledger!Fates]
  BY DEF PollFound, Ledger!Fates
<1> QED
  BY <1>1, <1>2

\* A wait that ends keeps the payment at hand or releases it.
LEMMA WaitEndsTypes ==
  ASSUME WaitEnds, Head(asking) \in Calls, kept \in Seq(Calls),
         spent \in Int, count \in Int,
         amount \in [Calls -> 0 .. MaxPerCall], fate \in [Calls -> Ledger!Fates]
  PROVE  /\ kept' \in Seq(Calls)
         /\ spent' \in Int
         /\ count' \in Int
         /\ fate' \in [Calls -> Ledger!Fates]
<1>1. kept' \in Seq(Calls)
  <2>1. Append(kept, Head(asking)) \in Seq(Calls)
    OBVIOUS
  <2> QED
    BY <2>1 DEF WaitEnds
<1>2. spent' \in Int /\ count' \in Int
  <2>1. amount[Head(asking)] \in Int /\ Fee \in Int
    BY MoneyAssumption
  <2>2. CASE outcome = "unknown"
    BY <2>2 DEF WaitEnds
  <2>3. CASE outcome = "absent"
    BY <2>1, <2>3 DEF WaitEnds, release
  <2> QED
    BY <2>2, <2>3 DEF WaitEnds
<1>3. fate' \in [Calls -> Ledger!Fates]
  BY DEF WaitEnds, release, Ledger!Fates
<1> QED
  BY <1>1, <1>2, <1>3

\* Every step of the payer keeps the type invariant.
LEMMA TypeStep == PayerTypeOK /\ [PayerNext]_payerVars => PayerTypeOK'
<1> SUFFICES ASSUME PayerTypeOK, [PayerNext]_payerVars
             PROVE  PayerTypeOK'
  OBVIOUS
<1>0. FlagsOK'
  BY FlagsStep DEF PayerTypeOK
<1> USE <1>0, CallsAssumption, MoneyAssumption, SeqAssumption
    DEF PayerTypeOK, Stages, Sequences, Ledger!Fates, frame, payments
<1>1. ASSUME NEW c \in Calls, NEW o \in Options, PayLock(c, o)
      PROVE  PayerTypeOK'
  <2>1. o.amount \in Int
    BY OptionsAssumption
  <2>2. want' \in 0 .. MaxPerCall
    BY <1>1, <2>1 DEF PayLock, checkOption
  <2> QED
    BY <1>1, <2>2 DEF PayLock
<1>2. CASE CtxEnds
  BY <1>2 DEF CtxEnds
<1>3. ASSUME NEW code \in TxCodes, PollFound(code)
      PROVE  PayerTypeOK'
  <2>1. Head(asking) \in Calls /\ Tail(asking) \in Seq(Calls)
    BY <1>3, AtHand DEF PollFound
  <2>2. spent' \in Int /\ fate' \in [Calls -> Ledger!Fates]
    BY <1>3, <2>1, PollFoundTypes
  <2> QED
    BY <1>3, <2>1, <2>2 DEF PollFound
<1>4. CASE PollAbsent
  BY <1>4 DEF PollAbsent
<1>5. CASE WaitEnds
  <2>1. Head(asking) \in Calls /\ Tail(asking) \in Seq(Calls)
    BY <1>5, AtHand DEF WaitEnds
  <2>2. /\ kept' \in Seq(Calls)
        /\ spent' \in Int
        /\ count' \in Int
        /\ fate' \in [Calls -> Ledger!Fates]
    BY <1>5, <2>1, WaitEndsTypes
  <2> QED
    BY <1>5, <2>1, <2>2 DEF WaitEnds
<1>6. CASE BudgetAdmits
  BY <1>6 DEF BudgetAdmits
<1>7. CASE BudgetRefuses
  BY <1>7 DEF BudgetRefuses, Free
<1>8. ASSUME NEW s \in Sequences, AccountReads(s)
      PROVE  PayerTypeOK'
  BY <1>8 DEF AccountReads
<1>9. CASE AccountFails
  BY <1>9 DEF AccountFails, Free
<1>10. CASE SignFails
  BY <1>10 DEF SignFails, Free
<1>11. CASE SignTx
  <2>1. mu \in Calls /\ pickSequence \in Sequences
    BY <1>11 DEF SignTx, pickSequence
  <2>2. nextSeq' \in Sequences
    BY <1>11, <2>1 DEF SignTx
  <2>3. /\ amount' \in [Calls -> 0 .. MaxPerCall]
        /\ sequence' \in [Calls -> Sequences]
        /\ fate' \in [Calls -> Ledger!Fates]
    BY <1>11, <2>1 DEF SignTx
  <2>4. spent' \in Int /\ count' \in Int
    BY <1>11 DEF SignTx
  <2>5. Free /\ UNCHANGED open
    BY <1>11 DEF SignTx
  <2>6. /\ mu' = NoCall /\ stage' = "unlocked" /\ want' \in 0 .. MaxPerCall
        /\ asking' \in Seq(Calls) /\ kept' \in Seq(Calls)
        /\ outcome' = "unknown" /\ acct' \in Sequences
    BY <2>5 DEF Free
  <2>7. open' \in Seq(Calls)
    BY <2>5
  <2> QED
    BY <2>2, <2>3, <2>4, <2>6, <2>7
<1>12. ASSUME NEW c \in Calls, Rollback(c)
       PROVE  PayerTypeOK'
  <2>1. fate' \in [Calls -> Ledger!Fates]
    BY <1>12 DEF Rollback, release
  <2>2. spent' \in Int /\ count' \in Int
    BY <1>12 DEF Rollback, release
  <2> QED
    BY <1>12, <2>1, <2>2 DEF Rollback
<1>13. ASSUME NEW c \in Calls, Unresolved(c)
       PROVE  PayerTypeOK'
  BY <1>13 DEF Unresolved
<1>14. CASE UNCHANGED payerVars
  BY <1>14 DEF payerVars
<1>15. CASE Restart
  BY <1>15 DEF Restart, Free, Ledger!Forgotten
<1> QED
  BY <1>1, <1>2, <1>3, <1>4, <1>5, <1>6, <1>7, <1>8, <1>9, <1>10, <1>11,
     <1>12, <1>13, <1>14, <1>15 DEF PayerNext, Quiet

\* The fields of the payer keep their types, whatever the sidecar answers.
THEOREM PayerTypes == PayerSpec => []PayerTypeOK
  BY TypeInit, TypeStep, PTL DEF PayerSpec
-----------------------------------------------------------------------------
\* What the lists of resolveOpen hold.

\* The payments behind the first one, when no payment is named twice.
LEMMA TailListed ==
  ASSUME NEW S, NEW s \in Seq(S), s # << >>, NoTwice(s)
  PROVE  /\ NoTwice(Tail(s))
         /\ Head(s) \in Listed(s)
         /\ Listed(Tail(s)) = Listed(s) \ {Head(s)}
<1>1. Len(s) \in Nat /\ Len(s) > 0 /\ DOMAIN s = 1 .. Len(s)
  OBVIOUS
<1>2. /\ DOMAIN Tail(s) = 1 .. (Len(s) - 1)
      /\ \A i \in 1 .. (Len(s) - 1) : Tail(s)[i] = s[i + 1]
  BY <1>1
<1>3. Head(s) = s[1]
  OBVIOUS
<1>4. NoTwice(Tail(s))
  BY <1>1, <1>2 DEF NoTwice
<1>5. ASSUME NEW e \in Listed(Tail(s)) PROVE e \in Listed(s) \ {Head(s)}
  BY <1>1, <1>2, <1>3 DEF Listed, NoTwice
<1>6. ASSUME NEW e \in Listed(s), e # Head(s) PROVE e \in Listed(Tail(s))
  <2>1. PICK i \in 1 .. Len(s) : s[i] = e
    BY <1>1 DEF Listed
  <2>2. i # 1 /\ i - 1 \in 1 .. (Len(s) - 1) /\ Tail(s)[i - 1] = e
    BY <1>1, <1>2, <1>3, <1>6, <2>1
  <2> QED
    BY <1>2, <2>2 DEF Listed
<1>7. Head(s) \in Listed(s)
  BY <1>1, <1>3 DEF Listed
<1> QED
  BY <1>4, <1>5, <1>6, <1>7

\* A list with one more payment.
LEMMA AppendListed ==
  ASSUME NEW S, NEW s \in Seq(S), NEW e \in S
  PROVE  /\ Listed(Append(s, e)) = Listed(s) \cup {e}
         /\ NoTwice(s) /\ e \notin Listed(s) => NoTwice(Append(s, e))
<1>1. /\ Len(s) \in Nat /\ DOMAIN s = 1 .. Len(s)
      /\ DOMAIN Append(s, e) = 1 .. (Len(s) + 1)
      /\ \A i \in 1 .. Len(s) : Append(s, e)[i] = s[i]
      /\ Append(s, e)[Len(s) + 1] = e
  OBVIOUS
<1>2. ASSUME NEW x \in Listed(Append(s, e)) PROVE x \in Listed(s) \cup {e}
  BY <1>1 DEF Listed
<1>3. ASSUME NEW x \in Listed(s) \cup {e} PROVE x \in Listed(Append(s, e))
  BY <1>1 DEF Listed
<1>4. ASSUME NoTwice(s), e \notin Listed(s) PROVE NoTwice(Append(s, e))
  BY <1>1, <1>4 DEF Listed, NoTwice
<1> QED
  BY <1>2, <1>3, <1>4

\* The empty list.
LEMMA EmptyListed == Listed(<< >>) = {} /\ NoTwice(<< >>)
  BY DEF Listed, NoTwice

\* Every step keeps the lists exact.  Only the steps that move a payment into
\* or out of a list, or change a fate, have anything to show.
LEMMA ListsStep ==
  PayerTypeOK /\ ListsExact /\ [PayerNext]_payerVars => ListsExact'
<1> SUFFICES ASSUME PayerTypeOK, ListsExact, [PayerNext]_payerVars
             PROVE  ListsExact'
  OBVIOUS
<1> USE CallsAssumption DEF frame, payments
<1>0. /\ mu \in Calls \cup {NoCall}
      /\ (mu = NoCall) <=> (stage = "unlocked")
      /\ asking \in Seq(Calls) /\ kept \in Seq(Calls) /\ open \in Seq(Calls)
      /\ fate \in [Calls -> Ledger!Fates]
  BY DEF PayerTypeOK
<1>1. ASSUME NEW c \in Calls, NEW o \in Options, fate[c] = "none", PayLock(c, o)
      PROVE  ListsExact'
  BY <1>0, <1>1, EmptyListed DEF PayLock, ListsExact
<1>2. CASE CtxEnds
  BY <1>2 DEF CtxEnds, ListsExact
<1>3. ASSUME NEW code \in TxCodes, PollFound(code)
      PROVE  ListsExact'
  <2>1. Head(asking) \in Calls /\ stage = "resolve" /\ asking # << >>
    BY <1>0, <1>3, AtHand DEF PollFound, Waiting
  <2>2. /\ NoTwice(Tail(asking)) /\ Head(asking) \in Listed(asking)
        /\ Listed(Tail(asking)) = Listed(asking) \ {Head(asking)}
    BY <1>0, <2>1, TailListed DEF ListsExact
  <2>3. \E f \in {"landed", "feeOnly"} : fate' = [fate EXCEPT ![Head(asking)] = f]
    BY <1>3 DEF PollFound
  <2>4. asking' = Tail(asking) /\ UNCHANGED <<mu, stage, kept>>
    BY <1>3 DEF PollFound
  <2> QED
    BY <1>0, <2>1, <2>2, <2>3, <2>4 DEF ListsExact
<1>4. CASE PollAbsent
  BY <1>4 DEF PollAbsent, ListsExact
<1>5. CASE WaitEnds
  <2>1. Head(asking) \in Calls /\ stage = "resolve" /\ asking # << >>
    BY <1>0, <1>5, AtHand DEF WaitEnds, Waiting
  <2>2. /\ NoTwice(Tail(asking)) /\ Head(asking) \in Listed(asking)
        /\ Listed(Tail(asking)) = Listed(asking) \ {Head(asking)}
    BY <1>0, <2>1, TailListed DEF ListsExact
  <2>3. asking' = Tail(asking) /\ UNCHANGED <<mu, stage>>
    BY <1>5 DEF WaitEnds
  <2>4. CASE outcome = "unknown"
    <3>1. kept' = Append(kept, Head(asking)) /\ UNCHANGED fate
      BY <1>5, <2>4 DEF WaitEnds
    <3>2. /\ Listed(kept') = Listed(kept) \cup {Head(asking)}
          /\ NoTwice(kept')
      BY <1>0, <2>1, <2>2, <3>1, AppendListed DEF ListsExact
    <3> QED
      BY <1>0, <2>1, <2>2, <2>3, <3>1, <3>2 DEF ListsExact
  <2>5. CASE outcome = "absent"
    <3>1. fate' = [fate EXCEPT ![Head(asking)] = "returned"] /\ UNCHANGED kept
      BY <1>5, <2>5 DEF WaitEnds, release
    <3> QED
      BY <1>0, <2>1, <2>2, <2>3, <3>1 DEF ListsExact
  <2> QED
    BY <1>5, <2>4, <2>5 DEF WaitEnds
<1>6. CASE BudgetAdmits
  BY <1>0, <1>6, EmptyListed DEF BudgetAdmits, ListsExact
<1>7. CASE BudgetRefuses
  BY <1>0, <1>7, EmptyListed DEF BudgetRefuses, Free, ListsExact
<1>8. ASSUME NEW s \in Sequences, AccountReads(s)
      PROVE  ListsExact'
  BY <1>0, <1>8 DEF AccountReads, ListsExact
<1>9. CASE AccountFails
  BY <1>0, <1>9 DEF AccountFails, Free, ListsExact
<1>10. CASE SignFails
  BY <1>0, <1>10 DEF SignFails, Free, ListsExact
<1>11. CASE SignTx
  BY <1>0, <1>11 DEF SignTx, Free, ListsExact
<1>12. ASSUME NEW c \in Calls, fate[c] = "held", Rollback(c)
       PROVE  ListsExact'
  BY <1>0, <1>12 DEF Rollback, release, ListsExact
<1>13. ASSUME NEW c \in Calls, fate[c] = "held", Unresolved(c)
       PROVE  ListsExact'
  <2>1. stage = "unlocked" /\ c \notin Listed(open)
    BY <1>0, <1>13 DEF Unresolved, ListsExact
  <2>2. /\ Listed(open') = Listed(open) \cup {c}
        /\ NoTwice(open')
    BY <1>0, <1>13, <2>1, AppendListed DEF Unresolved, ListsExact
  <2>3. fate' = [fate EXCEPT ![c] = "lost"] /\ UNCHANGED <<mu, stage, asking, kept>>
    BY <1>13 DEF Unresolved
  <2> QED
    BY <1>0, <1>13, <2>1, <2>2, <2>3 DEF ListsExact
<1>14. CASE UNCHANGED payerVars
  BY <1>14 DEF payerVars, ListsExact
<1>15. CASE Restart
  BY <1>0, <1>15, EmptyListed DEF Restart, Free, Ledger!Forgotten, ListsExact
<1> QED
  BY <1>1, <1>2, <1>3, <1>4, <1>5, <1>6, <1>7, <1>8, <1>9, <1>10, <1>11,
     <1>12, <1>13, <1>14, <1>15 DEF PayerNext, Quiet

\* The list under way in resolveOpen is the kept part and the undecided part.
LEMMA ListsGiveOpen == PayerTypeOK /\ ListsExact => OpenExact
<1> SUFFICES ASSUME PayerTypeOK, ListsExact
             PROVE  OpenExact
  OBVIOUS
<1>0. asking \in Seq(Calls) /\ kept \in Seq(Calls)
  BY DEF PayerTypeOK
<1>1. CASE stage # "resolve"
  BY <1>1 DEF OpenExact, OpenNow, ListsExact
<1>2. CASE stage = "resolve"
  <2> DEFINE both == kept \o asking
  <2>1. /\ DOMAIN kept = 1 .. Len(kept) /\ DOMAIN asking = 1 .. Len(asking)
        /\ Len(kept) \in Nat /\ Len(asking) \in Nat
        /\ DOMAIN both = 1 .. (Len(kept) + Len(asking))
        /\ \A i \in 1 .. (Len(kept) + Len(asking)) :
              both[i] = IF i <= Len(kept) THEN kept[i] ELSE asking[i - Len(kept)]
    BY <1>0
  <2>2. NoTwice(both)
    <3> SUFFICES ASSUME NEW i \in DOMAIN both, NEW j \in DOMAIN both, both[i] = both[j]
                 PROVE  i = j
      BY DEF NoTwice
    <3>1. i \in 1 .. (Len(kept) + Len(asking)) /\ j \in 1 .. (Len(kept) + Len(asking))
      BY <2>1
    <3>2. CASE i <= Len(kept) /\ j <= Len(kept)
      BY <1>2, <2>1, <3>1, <3>2 DEF ListsExact, NoTwice
    <3>3. CASE ~(i <= Len(kept)) /\ ~(j <= Len(kept))
      <4>1. /\ i - Len(kept) \in DOMAIN asking /\ j - Len(kept) \in DOMAIN asking
            /\ asking[i - Len(kept)] = asking[j - Len(kept)]
        BY <2>1, <3>1, <3>3
      <4>2. i - Len(kept) = j - Len(kept)
        BY <1>2, <4>1 DEF ListsExact, NoTwice
      <4> QED
        BY <2>1, <3>1, <4>2
    <3>4. ASSUME NEW a \in DOMAIN both, NEW b \in DOMAIN both,
                 a <= Len(kept), ~(b <= Len(kept))
          PROVE  both[a] # both[b]
      <4>1. both[a] \in Listed(kept)
        BY <2>1, <3>4 DEF Listed
      <4>2. both[b] \in Listed(asking)
        BY <2>1, <3>4 DEF Listed
      <4> QED
        BY <1>2, <4>1, <4>2 DEF ListsExact
    <3> QED
      BY <3>2, <3>3, <3>4
  <2>3. ASSUME NEW e \in Listed(both) PROVE e \in Listed(asking) \cup Listed(kept)
    <3>1. PICK i \in DOMAIN both : both[i] = e
      BY DEF Listed
    <3>2. CASE i <= Len(kept)
      BY <2>1, <3>1, <3>2 DEF Listed
    <3>3. CASE ~(i <= Len(kept))
      BY <2>1, <3>1, <3>3 DEF Listed
    <3> QED
      BY <3>2, <3>3
  <2>4. ASSUME NEW e \in Listed(kept) PROVE e \in Listed(both)
    <3>1. PICK i \in 1 .. Len(kept) : kept[i] = e
      BY <2>1 DEF Listed
    <3>2. i \in DOMAIN both /\ both[i] = e
      BY <2>1, <3>1
    <3> QED
      BY <3>2 DEF Listed
  <2>5. ASSUME NEW e \in Listed(asking) PROVE e \in Listed(both)
    <3>1. PICK i \in 1 .. Len(asking) : asking[i] = e
      BY <2>1 DEF Listed
    <3>2. i + Len(kept) \in DOMAIN both /\ both[i + Len(kept)] = e
      BY <2>1, <3>1
    <3> QED
      BY <3>2 DEF Listed
  <2>6. \A e : e \in Listed(both) <=> e \in Listed(asking) \cup Listed(kept)
    BY <2>3, <2>4, <2>5
  <2>7. OpenNow = both
    BY <1>2 DEF OpenNow
  <2> QED
    BY <1>2, <2>2, <2>6, <2>7 DEF OpenExact, ListsExact
<1> QED
  BY <1>1, <1>2

\* The initial lists are empty.
LEMMA ListsInit == PayerInit => ListsExact
  BY CallsAssumption, EmptyListed DEF PayerInit, ListsExact

\* The open list is exactly the payments whose answer is missing: none is
\* forgotten and none is asked about twice, for any number of calls and any
\* sequence of answers.
THEOREM OpenListExact == PayerSpec => []OpenExact
<1>1. PayerInit => PayerTypeOK /\ ListsExact
  BY TypeInit, ListsInit
<1>2. PayerTypeOK /\ ListsExact /\ [PayerNext]_payerVars => (PayerTypeOK /\ ListsExact)'
  BY TypeStep, ListsStep
<1> QED
  BY <1>1, <1>2, ListsGiveOpen, PTL DEF PayerSpec
-----------------------------------------------------------------------------
\* The budget.

\* Every step keeps the sum, and the admitted payment on top of it, in the
\* budget.  Only SignTx adds to the sum, and only a Pay that checkBudget let
\* through reaches it.
LEMMA BudgetStep ==
  PayerTypeOK /\ BudgetHeld /\ [PayerNext]_payerVars => BudgetHeld'
<1> SUFFICES ASSUME PayerTypeOK, BudgetHeld, [PayerNext]_payerVars
             PROVE  BudgetHeld'
  OBVIOUS
<1> USE MoneyAssumption DEF frame, payments, BudgetHeld
<1>0. /\ spent \in Int /\ want \in 0 .. MaxPerCall
      /\ mu \in Calls \cup {NoCall}
      /\ (mu = NoCall) <=> (stage = "unlocked")
      /\ asking \in Seq(Calls)
      /\ \A c \in Calls : amount[c] \in 0 .. MaxPerCall
  BY DEF PayerTypeOK
<1>1. ASSUME NEW c \in Calls, NEW o \in Options, PayLock(c, o)
      PROVE  BudgetHeld'
  BY <1>0, <1>1 DEF PayLock
<1>2. CASE CtxEnds
  BY <1>2 DEF CtxEnds
<1>3. ASSUME NEW code \in TxCodes, PollFound(code)
      PROVE  BudgetHeld'
  <2>1. Head(asking) \in Calls /\ stage = "resolve"
    BY <1>0, <1>3, AtHand DEF PollFound, Waiting
  <2>2. spent' \in Int /\ spent' <= spent /\ stage' = stage
    BY <1>0, <1>3, <2>1 DEF PollFound
  <2> QED
    BY <1>0, <2>1, <2>2
<1>4. CASE PollAbsent
  BY <1>4 DEF PollAbsent
<1>5. CASE WaitEnds
  <2>1. Head(asking) \in Calls /\ stage = "resolve"
    BY <1>0, <1>5, AtHand DEF WaitEnds, Waiting
  <2>2. spent' \in Int /\ spent' <= spent /\ stage' = stage
    <3>1. amount[Head(asking)] \in Nat /\ Fee \in Nat /\ spent \in Int
      BY <1>0, <2>1
    <3>2. /\ stage' = stage
          /\ \/ spent' = spent
             \/ spent' = spent - amount[Head(asking)] - Fee
      BY <1>5 DEF WaitEnds, release
    <3> QED
      BY <3>1, <3>2
  <2> QED
    BY <1>0, <2>1, <2>2
<1>6. CASE BudgetAdmits
  BY <1>0, <1>6 DEF BudgetAdmits, checkBudget
<1>7. CASE BudgetRefuses
  BY <1>7 DEF BudgetRefuses, Free
<1>8. ASSUME NEW s \in Sequences, AccountReads(s)
      PROVE  BudgetHeld'
  BY <1>8 DEF AccountReads
<1>9. CASE AccountFails
  BY <1>9 DEF AccountFails, Free
<1>10. CASE SignFails
  BY <1>10 DEF SignFails, Free
<1>11. CASE SignTx
  BY <1>0, <1>11 DEF SignTx, Free
<1>12. ASSUME NEW c \in Calls, Rollback(c)
       PROVE  BudgetHeld'
  BY <1>0, <1>12 DEF Rollback, release
<1>13. ASSUME NEW c \in Calls, Unresolved(c)
       PROVE  BudgetHeld'
  BY <1>13 DEF Unresolved
<1>14. CASE UNCHANGED payerVars
  BY <1>14 DEF payerVars
<1>15. CASE Restart
  BY <1>15 DEF Restart, Free
<1> QED
  BY <1>1, <1>2, <1>3, <1>4, <1>5, <1>6, <1>7, <1>8, <1>9, <1>10, <1>11,
     <1>12, <1>13, <1>14, <1>15 DEF PayerNext, Quiet

\* The sum never passes the budget: checkBudget runs before Account and
\* signTx, and the mutex keeps what it saw true until the payment is counted.
THEOREM BudgetHolds == PayerSpec => []WithinBudget
<1>1. PayerInit => PayerTypeOK /\ BudgetHeld
  BY TypeInit, MoneyAssumption DEF PayerInit, BudgetHeld
<1>2. PayerTypeOK /\ BudgetHeld /\ [PayerNext]_payerVars => (PayerTypeOK /\ BudgetHeld)'
  BY TypeStep, BudgetStep
<1>3. BudgetHeld => WithinBudget
  BY DEF BudgetHeld, WithinBudget
<1> QED
  BY <1>1, <1>2, <1>3, PTL DEF PayerSpec
-----------------------------------------------------------------------------
\* The account sequence.

\* A step that moves fates among the signed ones, and gives none back, leaves
\* the memory of the payer ahead.
LEMMA MemoryKept ==
  ASSUME MemoryAhead, NEW c \in Calls, NEW f \in Ledger!Fates,
         fate \in [Calls -> Ledger!Fates],
         fate[c] \notin {"none", "returned", "forgotten"}, f # "none",
         fate' = [fate EXCEPT ![c] = f],
         UNCHANGED <<sequence, nextSeq, haveSeq>>
  PROVE  MemoryAhead'
<1>1. Signed' = Signed
  BY DEF Signed
<1>2. \A d \in Calls : fate[d] \in {"returned", "forgotten"} => fate'[d] = fate[d]
  OBVIOUS
<1> QED
  BY <1>1, <1>2 DEF MemoryAhead

\* The next payment takes a sequence above every signed one.
LEMMA MemorySigns ==
  ASSUME PayerTypeOK, ListsExact, MemoryAhead, SignTx
  PROVE  MemoryAhead'
<1>0. /\ mu \in Calls /\ fate[mu] = "none"
      /\ acct \in Sequences /\ nextSeq \in Sequences
      /\ sequence \in [Calls -> Sequences] /\ fate \in [Calls -> Ledger!Fates]
  BY CallsAssumption DEF PayerTypeOK, ListsExact, SignTx
<1>1. pickSequence \in Sequences
  BY <1>0 DEF pickSequence
<1>2. /\ sequence' = [sequence EXCEPT ![mu] = pickSequence]
      /\ fate' = [fate EXCEPT ![mu] = "held"]
      /\ nextSeq' = (pickSequence + 1) % SeqSpan
      /\ haveSeq' = TRUE
  BY DEF SignTx
<1>3. Signed' = Signed \cup {mu} /\ mu \notin Signed
  BY <1>0, <1>2 DEF Signed
<1>4. CASE \E d \in Calls : fate[d] \in {"returned", "forgotten"}
  <2>1. PICK d \in Calls : fate[d] \in {"returned", "forgotten"}
    BY <1>4
  <2>2. fate'[d] \in {"returned", "forgotten"}
    BY <1>0, <1>2, <2>1
  <2> QED
    BY <2>2 DEF MemoryAhead
<1>5. CASE \E d \in Signed : sequence[d] = SeqSpan - 1
  <2>1. PICK d \in Signed : sequence[d] = SeqSpan - 1
    BY <1>5
  <2>2. d \in Signed' /\ sequence'[d] = SeqSpan - 1
    BY <1>0, <1>2, <1>3, <2>1 DEF Signed
  <2> QED
    BY <2>2 DEF MemoryAhead
<1>6. CASE /\ \A c \in Signed : haveSeq /\ sequence[c] < nextSeq
           /\ \A c, d \in Signed : sequence[c] = sequence[d] => c = d
  <2>1. Signed \subseteq Calls
    BY DEF Signed
  <2>2. \A c \in Signed : sequence[c] < pickSequence
    BY <1>0, <1>6, <2>1 DEF pickSequence, Sequences
  <2>3. \A c \in Signed : sequence'[c] = sequence[c]
    BY <1>0, <1>2, <1>3, <2>1
  <2>4. sequence'[mu] = pickSequence
    BY <1>0, <1>2
  <2>5. \A c, d \in Signed' : sequence'[c] = sequence'[d] => c = d
    BY <1>0, <1>1, <1>3, <1>6, <2>1, <2>2, <2>3, <2>4 DEF Sequences
  <2>6. CASE pickSequence = SeqSpan - 1
    BY <1>3, <2>4, <2>6 DEF MemoryAhead
  <2>7. CASE pickSequence # SeqSpan - 1
    <3>1. nextSeq' = pickSequence + 1
      BY <1>1, <1>2, <2>7, SeqAssumption DEF Sequences
    <3>2. \A c \in Signed' : sequence'[c] < nextSeq'
      BY <1>0, <1>1, <1>3, <2>1, <2>2, <2>3, <2>4, <3>1, SeqAssumption DEF Sequences
    <3> QED
      BY <1>2, <2>5, <3>2 DEF MemoryAhead
  <2> QED
    BY <2>6, <2>7
<1> QED
  BY <1>4, <1>5, <1>6 DEF MemoryAhead

\* Every step keeps the memory ahead of the signed sequences.
LEMMA MemoryStep ==
  PayerTypeOK /\ ListsExact /\ MemoryAhead /\ [PayerNext]_payerVars => MemoryAhead'
<1> SUFFICES ASSUME PayerTypeOK, ListsExact, MemoryAhead, [PayerNext]_payerVars
             PROVE  MemoryAhead'
  OBVIOUS
<1> USE DEF frame, payments
<1>0. /\ asking \in Seq(Calls)
      /\ fate \in [Calls -> Ledger!Fates]
  BY DEF PayerTypeOK
<1>1. ASSUME UNCHANGED <<fate, sequence, nextSeq, haveSeq>>
      PROVE  MemoryAhead'
  BY <1>1 DEF MemoryAhead, Signed
<1>2. ASSUME NEW c \in Calls, fate' = [fate EXCEPT ![c] = "returned"]
      PROVE  MemoryAhead'
  <2>1. fate'[c] = "returned"
    BY <1>0, <1>2
  <2> QED
    BY <2>1 DEF MemoryAhead
<1>3. ASSUME Waiting
      PROVE  Head(asking) \in Calls /\ fate[Head(asking)] = "lost"
  <2>1. Head(asking) \in Calls /\ Head(asking) \in Listed(asking)
    BY <1>0, <1>3, AtHand, TailListed DEF Waiting, ListsExact
  <2> QED
    BY <1>3, <2>1 DEF Waiting, ListsExact
<1>4. ASSUME NEW code \in TxCodes, PollFound(code)
      PROVE  MemoryAhead'
  <2>1. PICK f \in {"landed", "feeOnly"} : fate' = [fate EXCEPT ![Head(asking)] = f]
    BY <1>4 DEF PollFound
  <2>2. Waiting /\ UNCHANGED <<sequence, nextSeq, haveSeq>>
    BY <1>4 DEF PollFound
  <2>3. f \in Ledger!Fates /\ f # "none"
    BY DEF Ledger!Fates
  <2> QED
    BY <1>0, <1>3, <2>1, <2>2, <2>3, MemoryKept
<1>5. CASE WaitEnds
  <2>1. CASE outcome = "unknown"
    BY <1>1, <1>5, <2>1 DEF WaitEnds
  <2>2. CASE outcome = "absent"
    BY <1>2, <1>3, <1>5, <2>2 DEF WaitEnds, release
  <2> QED
    BY <1>5, <2>1, <2>2 DEF WaitEnds
<1>6. CASE SignTx
  BY <1>6, MemorySigns
<1>7. ASSUME NEW c \in Calls, fate[c] = "held", Rollback(c)
      PROVE  MemoryAhead'
  BY <1>2, <1>7 DEF Rollback, release
<1>8. ASSUME NEW c \in Calls, fate[c] = "held", Unresolved(c)
      PROVE  MemoryAhead'
  <2>1. /\ fate' = [fate EXCEPT ![c] = "lost"]
        /\ UNCHANGED <<sequence, nextSeq, haveSeq>>
    BY <1>8 DEF Unresolved
  <2> QED
    BY <1>0, <1>8, <2>1, MemoryKept DEF Ledger!Fates
<1>9. CASE \/ \E c \in Calls, o \in Options : PayLock(c, o)
           \/ CtxEnds \/ PollAbsent \/ BudgetAdmits \/ BudgetRefuses
           \/ \E s \in Sequences : AccountReads(s)
           \/ AccountFails \/ SignFails \/ UNCHANGED payerVars
  BY <1>1, <1>9 DEF PayLock, CtxEnds, PollAbsent, BudgetAdmits, BudgetRefuses,
     AccountReads, AccountFails, SignFails, payerVars
<1>10. CASE Restart
  <2>1. fate' = [c \in Calls |-> Ledger!Forgotten(fate[c])]
    BY <1>10 DEF Restart
  <2>2. CASE Signed = {}
    <3>1. Signed' = {}
      BY <2>1, <2>2 DEF Signed, Ledger!Forgotten
    <3> QED
      BY <3>1 DEF MemoryAhead
  <2>3. CASE Signed # {}
    <3>1. PICK c \in Calls : fate[c] # "none"
      BY <2>3 DEF Signed
    <3>2. fate'[c] \in {"returned", "forgotten"}
      BY <2>1, <3>1 DEF Ledger!Forgotten
    <3> QED
      BY <3>2 DEF MemoryAhead
  <2> QED
    BY <2>2, <2>3
<1> QED
  BY <1>4, <1>5, <1>6, <1>7, <1>8, <1>9, <1>10 DEF PayerNext, Quiet

\* Without a release and short of 2^64 no sequence is signed two times, even
\* when the sidecar lies about the sequence of the account.
THEOREM SequencesFresh == PayerSpec => []NoReuseWithoutRelease
<1>1. PayerInit => PayerTypeOK /\ ListsExact /\ MemoryAhead
  BY TypeInit, ListsInit DEF PayerInit, MemoryAhead, Signed
<1>2. PayerTypeOK /\ ListsExact /\ MemoryAhead /\ [PayerNext]_payerVars
      => (PayerTypeOK /\ ListsExact /\ MemoryAhead)'
  BY TypeStep, ListsStep, MemoryStep
<1>3. MemoryAhead => NoReuseWithoutRelease
  BY DEF MemoryAhead, NoReuseWithoutRelease
<1> QED
  BY <1>1, <1>2, <1>3, PTL DEF PayerSpec
=============================================================================

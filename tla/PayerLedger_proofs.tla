------------------------- MODULE PayerLedger_proofs -------------------------
(***************************************************************************)
(* The running counters of the payer are exact, and the payer implements   *)
(* PaymentLedger.tla.                                                      *)
(***************************************************************************)
EXTENDS Payer_proofs, FiniteSetTheorems

\* The coins of one member and the coins of the others.
LEMMA CoinsSplit ==
  ASSUME NEW S, IsFiniteSet(S), NEW k \in Nat, NEW f \in [S -> 0 .. k], NEW c \in S
  PROVE  LET rest == {u \in CoinsOf(S, k, f) : u[1] # c}
         IN  /\ IsFiniteSet(CoinsOf(S, k, f))
             /\ Cardinality(rest) \in Nat
             /\ SumOf(S, k, f) = Cardinality(rest) + f[c]
<1> DEFINE rest == {u \in CoinsOf(S, k, f) : u[1] # c}
           mine == {c} \X (1 .. f[c])
<1>1. IsFiniteSet(CoinsOf(S, k, f))
  <2>1. IsFiniteSet(1 .. k)
    BY FS_Interval
  <2>2. IsFiniteSet(S \X (1 .. k))
    BY <2>1, FS_Product
  <2>3. CoinsOf(S, k, f) \in SUBSET (S \X (1 .. k))
    BY DEF CoinsOf
  <2> QED
    BY <2>2, <2>3, FS_Subset
<1>2. IsFiniteSet(rest) /\ Cardinality(rest) \in Nat
  <2>1. rest \in SUBSET CoinsOf(S, k, f)
    OBVIOUS
  <2> QED
    BY <1>1, <2>1, FS_Subset, FS_CardinalityType
<1>3. f[c] \in Nat
  OBVIOUS
<1>4. IsFiniteSet(mine) /\ Cardinality(mine) = f[c]
  <2>1. IsFiniteSet({c}) /\ Cardinality({c}) = 1
    BY FS_Singleton
  <2>2. IsFiniteSet(1 .. f[c]) /\ Cardinality(1 .. f[c]) = f[c]
    BY <1>3, FS_Interval
  <2>3. IsFiniteSet(mine) /\ Cardinality(mine) = Cardinality({c}) * Cardinality(1 .. f[c])
    BY <2>1, <2>2, FS_Product
  <2> QED
    BY <1>3, <2>1, <2>2, <2>3
<1>5. CoinsOf(S, k, f) = rest \cup mine /\ rest \cap mine = {}
  BY DEF CoinsOf
<1> HIDE DEF rest, mine
<1>6. Cardinality(rest \cup mine) = Cardinality(rest) + Cardinality(mine) - 0
  <2>1. Cardinality(rest \cup mine)
          = Cardinality(rest) + Cardinality(mine) - Cardinality(rest \cap mine)
    BY <1>2, <1>4, FS_Union
  <2>2. Cardinality(rest \cap mine) = 0
    BY <1>5, FS_EmptySet
  <2> QED
    BY <2>1, <2>2
<1>7. SumOf(S, k, f) = Cardinality(rest) + f[c]
  BY <1>2, <1>3, <1>4, <1>5, <1>6 DEF SumOf
<1> QED
  BY <1>1, <1>2, <1>7 DEF rest

\* Two amounts that differ in one member: the sums differ as it does.
LEMMA SumChange ==
  ASSUME NEW S, IsFiniteSet(S), NEW k \in Nat,
         NEW f \in [S -> 0 .. k], NEW g \in [S -> 0 .. k],
         NEW c \in S, \A d \in S \ {c} : f[d] = g[d]
  PROVE  /\ SumOf(S, k, f) \in Nat
         /\ SumOf(S, k, g) = SumOf(S, k, f) - f[c] + g[c]
<1> DEFINE restf == {u \in CoinsOf(S, k, f) : u[1] # c}
           restg == {u \in CoinsOf(S, k, g) : u[1] # c}
<1>1. restf = restg
  BY DEF CoinsOf
<1>2. Cardinality(restf) \in Nat /\ SumOf(S, k, f) = Cardinality(restf) + f[c]
  BY CoinsSplit
<1>3. SumOf(S, k, g) = Cardinality(restg) + g[c]
  BY CoinsSplit
<1>4. f[c] \in Nat /\ g[c] \in Nat
  OBVIOUS
<1> HIDE DEF restf, restg
<1> QED
  BY <1>1, <1>2, <1>3, <1>4

\* The sum of nothing.
LEMMA SumZero ==
  ASSUME NEW S, NEW k \in Nat, NEW f \in [S -> 0 .. k], \A d \in S : f[d] = 0
  PROVE  SumOf(S, k, f) = 0
<1>1. CoinsOf(S, k, f) = {}
  BY DEF CoinsOf
<1> QED
  BY <1>1, FS_EmptySet DEF SumOf

\* The coins of a finite set are finitely many.
LEMMA FiniteCoins ==
  ASSUME NEW S, IsFiniteSet(S), NEW k \in Nat, NEW g \in [S -> 0 .. k]
  PROVE  IsFiniteSet(CoinsOf(S, k, g))
<1>1. CASE S = {}
  BY <1>1, FS_EmptySet DEF CoinsOf
<1>2. CASE S # {}
  BY <1>2, CoinsSplit
<1> QED
  BY <1>1, <1>2

\* A sum of smaller amounts is smaller.
LEMMA SumMonotone ==
  ASSUME NEW S, IsFiniteSet(S), NEW k \in Nat,
         NEW f \in [S -> 0 .. k], NEW g \in [S -> 0 .. k],
         \A d \in S : f[d] <= g[d]
  PROVE  SumOf(S, k, f) <= SumOf(S, k, g)
<1>1. IsFiniteSet(CoinsOf(S, k, g))
  BY FiniteCoins
<1>2. CoinsOf(S, k, f) \in SUBSET CoinsOf(S, k, g)
  BY DEF CoinsOf
<1> QED
  BY <1>1, <1>2, FS_Subset DEF SumOf
-----------------------------------------------------------------------------
\* The counters.

\* The cardinality of the instantiated ledger is the cardinality.
LEMMA LedgerCardinality == \A S : Ledger!Cardinality(S) = Cardinality(S)
  BY DEF Ledger!Cardinality, Cardinality, Ledger!IsFiniteSet, IsFiniteSet

\* A step that touches one payment changes the sum as it changes the payment.
LEMMA TotalChange ==
  ASSUME PayerTypeOK, PayerTypeOK', NEW c \in Calls,
         \A d \in Calls \ {c} : fate'[d] = fate[d] /\ amount'[d] = amount[d]
  PROVE  /\ Ledger!Total \in Nat
         /\ Ledger!Total' = Ledger!Total - Ledger!Counted(c) + Ledger!Counted(c)'
<1> DEFINE f == [p \in Calls |-> Ledger!Counted(p)]
           g == [p \in Calls |-> Ledger!Counted(p)']
           k == MaxPerCall + Fee
<1>1. k \in Nat /\ IsFiniteSet(Calls)
  BY MoneyAssumption, CallsAssumption
<1>2. f \in [Calls -> 0 .. k] /\ g \in [Calls -> 0 .. k]
  <2>1. \A p \in Calls : Ledger!Counted(p) \in 0 .. k /\ Ledger!Counted(p)' \in 0 .. k
    <3>1. \A p \in Calls : amount[p] \in 0 .. MaxPerCall /\ amount'[p] \in 0 .. MaxPerCall
      BY DEF PayerTypeOK
    <3> QED
      BY <3>1, MoneyAssumption DEF Ledger!Counted
  <2> QED
    BY <2>1
<1>3. \A d \in Calls \ {c} : f[d] = g[d]
  BY DEF Ledger!Counted
<1>4. f[c] = Ledger!Counted(c) /\ g[c] = Ledger!Counted(c)'
  OBVIOUS
<1>5. Ledger!Total = SumOf(Calls, k, f) /\ Ledger!Total' = SumOf(Calls, k, g)
  BY LedgerCardinality DEF Ledger!Total, Ledger!SumOf, Ledger!CoinsOf, SumOf, CoinsOf
<1> HIDE DEF f, g, k
<1>6. SumOf(Calls, k, f) \in Nat /\ SumOf(Calls, k, g) = SumOf(Calls, k, f) - f[c] + g[c]
  BY <1>1, <1>2, <1>3, SumChange
<1> QED
  BY <1>4, <1>5, <1>6

\* A step that leaves the fates and the amounts alone leaves the sum alone.
LEMMA TotalSame ==
  ASSUME UNCHANGED <<fate, amount>>
  PROVE  UNCHANGED <<Ledger!Total, Ledger!Made>>
  BY DEF Ledger!Total, Ledger!Made, Ledger!Counted, Ledger!SumOf, Ledger!CoinsOf

\* The payments that stand are finitely many.
LEMMA MadeFinite == IsFiniteSet(Ledger!Made) /\ Cardinality(Ledger!Made) \in Nat
<1>1. Ledger!Made \in SUBSET Calls
  BY DEF Ledger!Made
<1> QED
  BY <1>1, CallsAssumption, FS_Subset, FS_CardinalityType

\* When no payment stands, the sum and the number of the payments are 0.
LEMMA NothingCounted ==
  ASSUME \A c \in Calls : fate[c] \in {"none", "returned", "forgotten"}
  PROVE  Ledger!Total = 0 /\ Cardinality(Ledger!Made) = 0
<1> DEFINE f == [p \in Calls |-> Ledger!Counted(p)]
           k == MaxPerCall + Fee
<1>1. k \in Nat /\ f \in [Calls -> 0 .. k] /\ \A d \in Calls : f[d] = 0
  BY MoneyAssumption DEF Ledger!Counted, Ledger!InFull
<1>2. Ledger!Total = SumOf(Calls, k, f)
  BY LedgerCardinality DEF Ledger!Total, Ledger!SumOf, Ledger!CoinsOf, SumOf, CoinsOf
<1>3. Ledger!Made = {}
  BY DEF Ledger!Made, Ledger!InFull
<1> HIDE DEF f, k
<1>4. Ledger!Total = 0
  BY <1>1, <1>2, SumZero
<1> QED
  BY <1>3, <1>4, FS_EmptySet

\* A restart counts nothing, and nothing stands after it.
LEMMA RestartExact ==
  ASSUME PayerTypeOK, PayerTypeOK', Restart
  PROVE  LedgerExact'
<1>1. \A c \in Calls : fate'[c] \in {"none", "returned", "forgotten"}
  BY DEF Restart, Ledger!Forgotten
<1>2. Ledger!Total' = 0 /\ Cardinality(Ledger!Made)' = 0
  <2> DEFINE f == [p \in Calls |-> Ledger!Counted(p)']
             k == MaxPerCall + Fee
  <2>1. k \in Nat /\ f \in [Calls -> 0 .. k] /\ \A d \in Calls : f[d] = 0
    BY <1>1, MoneyAssumption DEF Ledger!Counted, Ledger!InFull
  <2>2. Ledger!Total' = SumOf(Calls, k, f)
    BY LedgerCardinality DEF Ledger!Total, Ledger!SumOf, Ledger!CoinsOf, SumOf, CoinsOf
  <2>3. Ledger!Made' = {}
    BY <1>1 DEF Ledger!Made, Ledger!InFull
  <2> HIDE DEF f, k
  <2>4. Ledger!Total' = 0
    BY <2>1, <2>2, SumZero
  <2> QED
    BY <2>3, <2>4, FS_EmptySet
<1> QED
  BY <1>2 DEF Restart, LedgerExact

\* One payment is given back: what release does to the counters is exact.
LEMMA ReleaseExact ==
  ASSUME PayerTypeOK, PayerTypeOK', LedgerExact, NEW c \in Calls,
         fate[c] \in {"held", "lost"}, release(c), UNCHANGED amount
  PROVE  LedgerExact'
<1>0. /\ fate \in [Calls -> Ledger!Fates] /\ amount[c] \in Int /\ Fee \in Int
      /\ fate' = [fate EXCEPT ![c] = "returned"]
  BY MoneyAssumption DEF PayerTypeOK, release
<1>1. /\ Ledger!Counted(c) = amount[c] + Fee
      /\ Ledger!Counted(c)' = 0
  BY <1>0 DEF Ledger!Counted, Ledger!InFull
<1>2. \A d \in Calls \ {c} : fate'[d] = fate[d] /\ amount'[d] = amount[d]
  BY <1>0
<1>3. Ledger!Total \in Nat /\ Ledger!Total' = Ledger!Total - (amount[c] + Fee) + 0
  BY <1>1, <1>2, TotalChange
<1>4. spent' = Ledger!Total'
  BY <1>0, <1>3 DEF LedgerExact, release
<1>5. Ledger!Made' = Ledger!Made \ {c} /\ c \in Ledger!Made
  BY <1>0 DEF Ledger!Made, Ledger!InFull
<1>6. Cardinality(Ledger!Made)' = Cardinality(Ledger!Made) - 1
  BY <1>5, MadeFinite, FS_RemoveElement
<1> QED
  BY <1>4, <1>6 DEF LedgerExact, release

\* Every step keeps the counters exact.
LEMMA LedgerStep ==
  PayerTypeOK /\ ListsExact /\ LedgerExact /\ [PayerNext]_payerVars => LedgerExact'
<1> SUFFICES ASSUME PayerTypeOK, ListsExact, LedgerExact, [PayerNext]_payerVars
             PROVE  LedgerExact'
  OBVIOUS
<1> USE DEF frame, payments
<1>0. /\ PayerTypeOK'
      /\ asking \in Seq(Calls) /\ fate \in [Calls -> Ledger!Fates]
      /\ amount \in [Calls -> 0 .. MaxPerCall]
  BY TypeStep DEF PayerTypeOK
<1>1. ASSUME UNCHANGED <<fate, amount, spent, count>>
      PROVE  LedgerExact'
  BY <1>1, TotalSame DEF LedgerExact
<1>2. ASSUME Waiting
      PROVE  Head(asking) \in Calls /\ fate[Head(asking)] = "lost"
  <2>1. Head(asking) \in Calls /\ Head(asking) \in Listed(asking)
    BY <1>0, <1>2, AtHand, TailListed DEF Waiting, ListsExact
  <2> QED
    BY <1>2, <2>1 DEF Waiting, ListsExact
<1>3. ASSUME NEW code \in TxCodes, PollFound(code)
      PROVE  LedgerExact'
  <2>1. PICK c \in Calls : c = Head(asking) /\ fate[c] = "lost"
    BY <1>2, <1>3 DEF PollFound
  <2>2. amount[c] \in Int /\ Fee \in Int
    BY <1>0, MoneyAssumption
  <2>3. /\ UNCHANGED <<amount, count>>
        /\ \/ fate' = [fate EXCEPT ![c] = "landed"] /\ spent' = spent
           \/ fate' = [fate EXCEPT ![c] = "feeOnly"] /\ spent' = spent - amount[c]
    BY <1>3, <2>1 DEF PollFound
  <2>4. \A d \in Calls \ {c} : fate'[d] = fate[d] /\ amount'[d] = amount[d]
    BY <1>0, <2>3
  <2>5. /\ Ledger!Total \in Nat
        /\ Ledger!Total' = Ledger!Total - Ledger!Counted(c) + Ledger!Counted(c)'
    BY <1>0, <2>4, TotalChange
  <2>6. Ledger!Counted(c) = amount[c] + Fee
    BY <2>1 DEF Ledger!Counted, Ledger!InFull
  <2>7. /\ spent' - spent = Ledger!Counted(c)' - Ledger!Counted(c)
        /\ Ledger!Counted(c)' \in Int
    <3>1. CASE fate' = [fate EXCEPT ![c] = "landed"] /\ spent' = spent
      <4>1. Ledger!Counted(c)' = amount[c] + Fee
        BY <1>0, <2>3, <3>1 DEF Ledger!Counted, Ledger!InFull
      <4> QED
        BY <2>2, <2>6, <3>1, <4>1 DEF PayerTypeOK
    <3>2. CASE fate' = [fate EXCEPT ![c] = "feeOnly"] /\ spent' = spent - amount[c]
      <4>1. Ledger!Counted(c)' = Fee
        BY <1>0, <2>3, <3>2 DEF Ledger!Counted, Ledger!InFull
      <4> QED
        BY <2>2, <2>6, <3>2, <4>1 DEF PayerTypeOK
    <3> QED
      BY <2>3, <3>1, <3>2
  <2>8. Ledger!Counted(c) \in Int /\ Ledger!Counted(c)' \in Int /\ spent \in Int /\ spent' \in Int
    <3>1. spent \in Int
      BY DEF PayerTypeOK
    <3>2. spent' = spent \/ spent' = spent - amount[c]
      BY <2>3
    <3> QED
      BY <2>2, <2>6, <2>7, <3>1, <3>2
  <2>9. Ledger!Made' = Ledger!Made
    BY <1>0, <2>1, <2>3 DEF Ledger!Made, Ledger!InFull
  <2> QED
    BY <2>3, <2>5, <2>7, <2>8, <2>9 DEF LedgerExact
<1>4. CASE WaitEnds
  <2>1. CASE outcome = "unknown"
    BY <1>1, <1>4, <2>1 DEF WaitEnds
  <2>2. CASE outcome = "absent"
    BY <1>0, <1>2, <1>4, <2>2, ReleaseExact DEF WaitEnds
  <2> QED
    BY <1>4, <2>1, <2>2 DEF WaitEnds
<1>5. CASE SignTx
  <2>1. mu \in Calls /\ fate[mu] = "none" /\ want \in Int /\ Fee \in Int
    BY <1>5, CallsAssumption, MoneyAssumption DEF SignTx, PayerTypeOK, ListsExact
  <2>2. /\ fate' = [fate EXCEPT ![mu] = "held"]
        /\ amount' = [amount EXCEPT ![mu] = want]
        /\ spent' = spent + want + Fee
        /\ count' = count + 1
    BY <1>5 DEF SignTx
  <2>3. Ledger!Counted(mu) = 0
    BY <2>1 DEF Ledger!Counted, Ledger!InFull
  <2>4. fate'[mu] = "held" /\ amount'[mu] = want
    BY <1>0, <2>1, <2>2
  <2>5. \A d \in Calls \ {mu} : fate'[d] = fate[d] /\ amount'[d] = amount[d]
    BY <1>0, <2>2
  <2>6. PICK c \in Calls : c = mu
    BY <2>1
  <2>7. /\ Ledger!Total \in Nat
        /\ Ledger!Total' = Ledger!Total - Ledger!Counted(c) + Ledger!Counted(c)'
    BY <1>0, <2>5, <2>6, TotalChange
  <2>8. Ledger!Counted(c) = 0 /\ Ledger!Counted(c)' = want + Fee
    BY <2>1, <2>4, <2>6 DEF Ledger!Counted, Ledger!InFull
  <2>9. spent' = Ledger!Total'
    BY <2>1, <2>2, <2>7, <2>8 DEF LedgerExact
  <2>10. Ledger!Made' = Ledger!Made \cup {mu} /\ mu \notin Ledger!Made
    BY <1>0, <2>1, <2>2 DEF Ledger!Made, Ledger!InFull
  <2>11. Cardinality(Ledger!Made)' = Cardinality(Ledger!Made) + 1
    BY <2>10, MadeFinite, FS_AddElement
  <2> QED
    BY <2>2, <2>9, <2>11 DEF LedgerExact
<1>6. ASSUME NEW c \in Calls, fate[c] = "held", Rollback(c)
      PROVE  LedgerExact'
  BY <1>0, <1>6, ReleaseExact DEF Rollback
<1>7. ASSUME NEW c \in Calls, fate[c] = "held", Unresolved(c)
      PROVE  LedgerExact'
  <2>1. /\ fate' = [fate EXCEPT ![c] = "lost"]
        /\ UNCHANGED <<amount, spent, count>>
    BY <1>7 DEF Unresolved
  <2>2. \A p \in Calls : Ledger!Counted(p)' = Ledger!Counted(p)
    BY <1>0, <1>7, <2>1 DEF Ledger!Counted, Ledger!InFull
  <2>3. Ledger!Total' = Ledger!Total
    BY <2>2 DEF Ledger!Total, Ledger!SumOf, Ledger!CoinsOf
  <2>4. Ledger!Made' = Ledger!Made
    BY <1>0, <1>7, <2>1 DEF Ledger!Made, Ledger!InFull
  <2> QED
    BY <2>1, <2>3, <2>4 DEF LedgerExact
<1>8. CASE \/ \E c \in Calls, o \in Options : PayLock(c, o)
           \/ CtxEnds \/ PollAbsent \/ BudgetAdmits \/ BudgetRefuses
           \/ \E s \in Sequences : AccountReads(s)
           \/ AccountFails \/ SignFails \/ UNCHANGED payerVars
  BY <1>1, <1>8 DEF PayLock, CtxEnds, PollAbsent, BudgetAdmits, BudgetRefuses,
     AccountReads, AccountFails, SignFails, payerVars
<1>9. CASE Restart
  BY <1>0, <1>9, RestartExact
<1> QED
  BY <1>3, <1>4, <1>5, <1>6, <1>7, <1>8, <1>9 DEF PayerNext, Quiet

\* Nothing is counted before the first payment.
LEMMA LedgerInit == PayerInit => LedgerExact
<1> SUFFICES ASSUME PayerInit PROVE LedgerExact
  OBVIOUS
<1>1. \A c \in Calls : fate[c] \in {"none", "returned", "forgotten"}
  BY DEF PayerInit
<1> QED
  BY <1>1, NothingCounted DEF PayerInit, LedgerExact

\* The counters never drift: after any sequence of payments, refusals, lost
\* answers and decisions of the chain, spent is the sum of what the standing
\* payments count and count is their number.  In particular the sum that
\* release subtracts from is never negative.
THEOREM CountersExact == PayerSpec => []LedgerExact
<1>1. PayerInit => PayerTypeOK /\ ListsExact /\ LedgerExact
  BY TypeInit, ListsInit, LedgerInit
<1>2. PayerTypeOK /\ ListsExact /\ LedgerExact /\ [PayerNext]_payerVars
      => (PayerTypeOK /\ ListsExact /\ LedgerExact)'
  BY TypeStep, ListsStep, LedgerStep
<1> QED
  BY <1>1, <1>2, PTL DEF PayerSpec

\* The sum of the payments that are listed as open.
SumOfOpen == SumOf(Calls, MaxPerCall + Fee,
                   [c \in Calls |-> IF c \in Listed(open) THEN amount[c] + Fee ELSE 0])

\* Whenever the mutex is free, spent counts every payment that Open() lists: one
\* look at both under the lock never shows an unresolved payment that is not
\* in the sum.  The status route looks twice, and the run status_torn shows
\* that this alone makes its answer wrong.
THEOREM OpenIsCounted == PayerSpec => [](mu = NoCall => SumOfOpen <= spent)
<1>1. PayerTypeOK /\ ListsExact /\ LedgerExact => (mu = NoCall => SumOfOpen <= spent)
  <2> SUFFICES ASSUME PayerTypeOK, ListsExact, LedgerExact, mu = NoCall
               PROVE  SumOfOpen <= spent
    OBVIOUS
  <2> DEFINE k == MaxPerCall + Fee
             f == [c \in Calls |-> IF c \in Listed(open) THEN amount[c] + Fee ELSE 0]
             g == [c \in Calls |-> Ledger!Counted(c)]
  <2>1. k \in Nat /\ IsFiniteSet(Calls) /\ Fee \in Nat /\ MaxPerCall \in Nat
    BY MoneyAssumption, CallsAssumption
  <2>2. \A c \in Calls : amount[c] \in 0 .. MaxPerCall
    BY DEF PayerTypeOK
  <2>3. \A c \in Calls : c \in Listed(open) => fate[c] = "lost"
    BY DEF PayerTypeOK, ListsExact
  <2>4. \A c \in Calls : c \in Listed(open) => Ledger!Counted(c) = amount[c] + Fee
    BY <2>3 DEF Ledger!Counted, Ledger!InFull
  <2>5. \A c \in Calls : Ledger!Counted(c) \in {0, Fee, amount[c] + Fee}
    BY DEF Ledger!Counted
  <2>6. \A c \in Calls : Ledger!Counted(c) \in 0 .. k
    BY <2>1, <2>2, <2>5
  <2>7. f \in [Calls -> 0 .. k] /\ g \in [Calls -> 0 .. k] /\ \A c \in Calls : f[c] <= g[c]
    BY <2>1, <2>2, <2>4, <2>6
  <2>8. SumOfOpen = SumOf(Calls, k, f) /\ spent = SumOf(Calls, k, g)
    BY LedgerCardinality
    DEF SumOfOpen, LedgerExact, Ledger!Total, Ledger!SumOf, Ledger!CoinsOf, SumOf, CoinsOf
  <2> HIDE DEF k, f, g
  <2> QED
    BY <2>1, <2>7, <2>8, SumMonotone
<1>2. PayerInit => PayerTypeOK /\ ListsExact /\ LedgerExact
  BY TypeInit, ListsInit, LedgerInit
<1>3. PayerTypeOK /\ ListsExact /\ LedgerExact /\ [PayerNext]_payerVars
      => (PayerTypeOK /\ ListsExact /\ LedgerExact)'
  BY TypeStep, ListsStep, LedgerStep
<1> QED
  BY <1>1, <1>2, <1>3, PTL DEF PayerSpec
-----------------------------------------------------------------------------
\* The refinement.

\* The price of the running Pay stays a price.
LEMMA WantStep ==
  PayerTypeOK /\ WantIsPrice /\ [PayerNext]_payerVars => WantIsPrice'
<1> SUFFICES ASSUME PayerTypeOK, WantIsPrice, [PayerNext]_payerVars
             PROVE  WantIsPrice'
  OBVIOUS
<1> USE DEF frame, payments, WantIsPrice
<1>0. (mu = NoCall) <=> (stage = "unlocked")
  BY DEF PayerTypeOK
<1>1. ASSUME NEW c \in Calls, NEW o \in Options, PayLock(c, o)
      PROVE  WantIsPrice'
  BY <1>1 DEF PayLock, checkOption
<1>2. CASE UNCHANGED <<stage, want>>
  BY <1>2
<1>3. CASE Free
  BY <1>3 DEF Free
<1>4. CASE stage \in {"resolve", "account"} /\ UNCHANGED want
  BY <1>4
<1>5. ASSUME NEW code \in TxCodes, PollFound(code)
      PROVE  UNCHANGED <<stage, want>>
  BY <1>5 DEF PollFound
<1>6. CASE CtxEnds \/ PollAbsent \/ WaitEnds \/ UNCHANGED payerVars
  BY <1>2, <1>6 DEF CtxEnds, PollAbsent, WaitEnds, payerVars
<1>7. CASE BudgetAdmits \/ \E s \in Sequences : AccountReads(s)
  BY <1>4, <1>7 DEF BudgetAdmits, AccountReads
<1>8. CASE BudgetRefuses \/ AccountFails \/ SignFails \/ SignTx \/ Restart
  BY <1>3, <1>8 DEF BudgetRefuses, AccountFails, SignFails, SignTx, Restart
<1>9. ASSUME NEW c \in Calls, Rollback(c) \/ Unresolved(c)
      PROVE  UNCHANGED <<stage, want>>
  BY <1>9 DEF Rollback, Unresolved
<1> QED
  BY <1>1, <1>2, <1>5, <1>6, <1>7, <1>8, <1>9 DEF PayerNext, Quiet

\* The invariant that the refinement rests on.
RefinementInv == /\ PayerTypeOK
                 /\ ListsExact
                 /\ LedgerExact
                 /\ BudgetHeld
                 /\ WantIsPrice

\* Every step of the payer is a step of the ledger, or changes nothing there.
LEMMA LedgerSimulates ==
  RefinementInv /\ [PayerNext]_payerVars => [Ledger!Next]_(Ledger!vars)
<1> SUFFICES ASSUME RefinementInv, [PayerNext]_payerVars
             PROVE  [Ledger!Next]_(Ledger!vars)
  OBVIOUS
<1> USE DEF frame, payments, RefinementInv
<1>0. /\ asking \in Seq(Calls) /\ fate \in [Calls -> Ledger!Fates]
  BY DEF PayerTypeOK
<1>1. ASSUME UNCHANGED <<fate, amount>>
      PROVE  [Ledger!Next]_(Ledger!vars)
  BY <1>1 DEF Ledger!vars
<1>2. ASSUME Waiting
      PROVE  Head(asking) \in Calls /\ fate[Head(asking)] = "lost"
  <2>1. Head(asking) \in Calls /\ Head(asking) \in Listed(asking)
    BY <1>0, <1>2, AtHand, TailListed DEF Waiting, ListsExact
  <2> QED
    BY <1>2, <2>1 DEF Waiting, ListsExact
<1>3. ASSUME NEW code \in TxCodes, PollFound(code)
      PROVE  Ledger!Next
  <2>1. PICK c \in Calls : c = Head(asking) /\ fate[c] = "lost"
    BY <1>2, <1>3 DEF PollFound
  <2>2. /\ UNCHANGED amount
        /\ \/ fate' = [fate EXCEPT ![c] = "landed"]
           \/ fate' = [fate EXCEPT ![c] = "feeOnly"]
    BY <1>3, <2>1 DEF PollFound
  <2>3. Ledger!Land(c) \/ Ledger!TakeFee(c)
    BY <2>1, <2>2 DEF Ledger!Land, Ledger!TakeFee, Ledger!Move
  <2> QED
    BY <2>3 DEF Ledger!Next
<1>4. CASE WaitEnds
  <2>1. CASE outcome = "unknown"
    BY <1>1, <1>4, <2>1 DEF WaitEnds
  <2>2. CASE outcome = "absent"
    <3>1. PICK c \in Calls : c = Head(asking) /\ fate[c] = "lost"
      BY <1>2, <1>4 DEF WaitEnds
    <3>2. fate' = [fate EXCEPT ![c] = "returned"] /\ UNCHANGED amount
      BY <1>4, <2>2, <3>1 DEF WaitEnds, release
    <3>3. Ledger!Return(c)
      BY <3>1, <3>2 DEF Ledger!Return, Ledger!Move
    <3> QED
      BY <3>3 DEF Ledger!Next
  <2> QED
    BY <1>4, <2>1, <2>2 DEF WaitEnds
<1>5. CASE SignTx
  <2>1. mu \in Calls /\ fate[mu] = "none" /\ want \in 1 .. MaxPerCall
    BY <1>5, CallsAssumption, MoneyAssumption
    DEF SignTx, PayerTypeOK, ListsExact, WantIsPrice
  <2>2. Budget = 0 \/ Ledger!Total + want + Fee <= Budget
    BY <1>5 DEF SignTx, BudgetHeld, LedgerExact
  <2>3. /\ amount' = [amount EXCEPT ![mu] = want]
        /\ fate' = [fate EXCEPT ![mu] = "held"]
    BY <1>5 DEF SignTx
  <2>4. Ledger!Sign(mu, want)
    BY <2>1, <2>2, <2>3 DEF Ledger!Sign
  <2> QED
    BY <2>1, <2>4 DEF Ledger!Next
<1>6. ASSUME NEW c \in Calls, fate[c] = "held", Rollback(c)
      PROVE  Ledger!Next
  <2>1. Ledger!Return(c)
    BY <1>6 DEF Rollback, release, Ledger!Return, Ledger!Move
  <2> QED
    BY <2>1 DEF Ledger!Next
<1>7. ASSUME NEW c \in Calls, fate[c] = "held", Unresolved(c)
      PROVE  Ledger!Next
  <2>1. Ledger!Lose(c)
    BY <1>7 DEF Unresolved, Ledger!Lose, Ledger!Move
  <2> QED
    BY <2>1 DEF Ledger!Next
<1>8. CASE \/ \E c \in Calls, o \in Options : PayLock(c, o)
           \/ CtxEnds \/ PollAbsent \/ BudgetAdmits \/ BudgetRefuses
           \/ \E s \in Sequences : AccountReads(s)
           \/ AccountFails \/ SignFails \/ UNCHANGED payerVars
  BY <1>1, <1>8 DEF PayLock, CtxEnds, PollAbsent, BudgetAdmits, BudgetRefuses,
     AccountReads, AccountFails, SignFails, payerVars
<1>9. CASE Restart
  <2>1. Ledger!Forget
    BY <1>9 DEF Restart, Ledger!Forget
  <2> QED
    BY <2>1 DEF Ledger!Next
<1> QED
  BY <1>3, <1>4, <1>5, <1>6, <1>7, <1>8, <1>9 DEF PayerNext, Quiet

\* The payer implements the ledger.  The check that PaymentLedger makes on the
\* true sum at the moment of signing is the check that the code makes on the
\* running counter, two calls to the sidecar earlier.
THEOREM PayerImplementsLedger == PayerSpec => LedgerSpec
<1>1. PayerInit => RefinementInv /\ Ledger!Init
  <2>1. PayerInit => BudgetHeld /\ WantIsPrice
    BY MoneyAssumption DEF PayerInit, BudgetHeld, WantIsPrice
  <2>2. PayerInit => Ledger!Init
    BY DEF PayerInit, Ledger!Init
  <2> QED
    BY <2>1, <2>2, TypeInit, ListsInit, LedgerInit DEF RefinementInv
<1>2. RefinementInv /\ [PayerNext]_payerVars => RefinementInv'
  BY TypeStep, ListsStep, LedgerStep, BudgetStep, WantStep DEF RefinementInv
<1> QED
  BY <1>1, <1>2, LedgerSimulates, PTL DEF PayerSpec, LedgerSpec, Ledger!Spec
=============================================================================

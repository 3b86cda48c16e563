--------------------------- MODULE PaymentLedger ---------------------------
(***************************************************************************)
(* What the payer promises about money, without sequences, locks, lists or *)
(* the chain.  Each payment has a price and a fate:                        *)
(*                                                                         *)
(*   none      not signed yet                                              *)
(*   held      signed; the answer is outstanding, or the sidecar took it   *)
(*   lost      the answer did not arrive; the chain decides                *)
(*   landed    the chain holds it and moved the price                      *)
(*   feeOnly   the chain holds it, took the fee, and did not move the price*)
(*   returned  given back to the budget                                    *)
(*   forgotten counted by a process that has ended                         *)
(*                                                                         *)
(* The budget bounds the sum over the payments, each counted by its fate.  *)
(* Payer.tla keeps that sum as a running counter; that it implements this  *)
(* module is the claim that the counter never drifts.                      *)
(***************************************************************************)
EXTENDS Coins

CONSTANTS
    Payments,    \* the payments that may ever be signed
    MaxPerCall,  \* the limit on one price
    Fee,         \* the fee of one payment
    Budget       \* the limit on the sum; 0 means no limit

VARIABLES
    price,  \* price[p]: the price of payment p
    fate    \* fate[p]: see above

vars == <<price, fate>>

Fates == {"none", "held", "lost", "landed", "feeOnly", "returned", "forgotten"}

\* The fates whose price and fee both count against the budget.
InFull == {"held", "lost", "landed"}

\* What payment p counts against the budget.
Counted(p) == IF fate[p] \in InFull THEN price[p] + Fee
              ELSE IF fate[p] = "feeOnly" THEN Fee
              ELSE 0

\* The sum of Counted over the payments.
Total == SumOf(Payments, MaxPerCall + Fee, [p \in Payments |-> Counted(p)])

\* The payments that the payer reports as made.
Made == {p \in Payments : fate[p] \in InFull \cup {"feeOnly"}}
-----------------------------------------------------------------------------
Init == /\ price = [p \in Payments |-> 0]
        /\ fate = [p \in Payments |-> "none"]

\* A payment is signed: the price is in the limit and the sum in the budget.
Sign(p, a) ==
    /\ fate[p] = "none"
    /\ Budget = 0 \/ Total + a + Fee <= Budget
    /\ price' = [price EXCEPT ![p] = a]
    /\ fate' = [fate EXCEPT ![p] = "held"]

\* A payment moves on; its price stays.
Move(p, from, to) ==
    /\ fate[p] \in from
    /\ fate' = [fate EXCEPT ![p] = to]
    /\ UNCHANGED price

Lose(p) == Move(p, {"held"}, "lost")
Return(p) == Move(p, {"held", "lost"}, "returned")
Land(p) == Move(p, {"lost"}, "landed")
TakeFee(p) == Move(p, {"lost"}, "feeOnly")

\* The process ends and the next one counts from 0: the budget is that of one
\* process.
Forgotten(f) == IF f \in {"none", "returned"} THEN f ELSE "forgotten"
Forget ==
    /\ fate' = [p \in Payments |-> Forgotten(fate[p])]
    /\ UNCHANGED price

Next == \/ \E p \in Payments :
             \/ \E a \in 1 .. MaxPerCall : Sign(p, a)
             \/ Lose(p)
             \/ Return(p)
             \/ Land(p)
             \/ TakeFee(p)
        \/ Forget

Spec == Init /\ [][Next]_vars
=============================================================================

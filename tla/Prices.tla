------------------------------- MODULE Prices -------------------------------
(***************************************************************************)
(* What the commands compute from prices: costliest of                     *)
(* src/cmd/x402-celestia-rpc-payer/init.go, isAbove0 and callsFor of       *)
(* fund.go.  A price list gives each method the first word of its price.   *)
(***************************************************************************)
EXTENDS Texts, FiniteSets, Functions

CONSTANT IntSpan  \* 2^64 in the code: the values of an int64

ASSUME IntSpanAssumption == IntSpan \in Nat \ {0} /\ IntSpan % 2 = 0

\* A price list: a map of finitely many methods.
PriceList(methods) ==
    IsFiniteSet(DOMAIN methods) /\ \A m \in DOMAIN methods : methods[m] \in Texts

BadCostliest(methods) ==
    FoldFunction(LAMBDA t, best : IF SetString(t) /\ t.n > 0 THEN t.n ELSE best, 0, methods)

\* The highest price, 0 when no method has one.  Words such as "free", and
\* prices that are not above 0, are skipped.
costliest(methods) ==
    FoldFunction(LAMBDA t, best : IF SetString(t) /\ t.n > 0 /\ t.n > best THEN t.n ELSE best,
                 0, methods)

isAbove0(balance) == SetString(balance) /\ balance.n > 0

\* Int64 of math/big: the low 64 bits, with a sign.
Int64(n) == ((n + IntSpan \div 2) % IntSpan) - IntSpan \div 2

BadCallsFor(balance, maxPerCall, fee) ==
    IF SetString(balance) /\ SetString(maxPerCall) /\ SetString(fee) /\ maxPerCall.n > 0
    THEN Int64(balance.n \div maxPerCall.n)
    ELSE 0

\* The number of calls that a balance pays for.  The texts are those of the
\* file: one with spaces, which parseAmount takes, gives 0.
callsFor(balance, maxPerCall, fee) ==
    LET cost == maxPerCall.n + fee.n IN
    IF SetString(balance) /\ SetString(maxPerCall) /\ SetString(fee) /\ cost > 0
    THEN Int64(balance.n \div cost)
    ELSE 0
=============================================================================

------------------------------- MODULE Coins -------------------------------
(***************************************************************************)
(* Sums of amounts as numbers of coins: a member of S with amount n owns   *)
(* the coins 1 to n, and the sum is the cardinality of the set of coins.   *)
(* Facts about sums are then facts about finite sets, which can be proved  *)
(* without induction.                                                      *)
(***************************************************************************)
EXTENDS Integers, FiniteSets

\* The coins of the members of S, where f[x] \in 0 .. k is the amount of x.
CoinsOf(S, k, f) == {u \in S \X (1 .. k) : u[2] <= f[u[1]]}

\* The sum of f over S.
SumOf(S, k, f) == Cardinality(CoinsOf(S, k, f))
=============================================================================

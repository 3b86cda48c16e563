----------------------------- MODULE Accounts -----------------------------
(***************************************************************************)
(* The account route of the sidecar as the payer reads it,                 *)
(* src/payer/account.go, for the commands that need a balance.             *)
(*                                                                         *)
(* An answer is [status, error, readable, network, number, balance].  A    *)
(* status of 0 is no answer; error stands for the message of a status that *)
(* is not 200: the set of the phrases in it that the code looks for.       *)
(***************************************************************************)
EXTENDS Texts

\* The message holds one of two phrases, one of the node and one of the sidecar.
Phrases == {"not found", "not on the chain"}
noAccount(message) == \E p \in Phrases : p \in message

BadStatusError(a) == IF a.status = 404 THEN "noAccount" ELSE "error"

\* What a status other than 200 means on the account route.
statusError(a) == IF a.status = 404 /\ noAccount(a.error) THEN "noAccount" ELSE "error"

BadRead(a, network) ==
    IF a.status = 0 THEN "error"
    ELSE IF a.status # 200 THEN statusError(a)
    ELSE IF a.readable /\ a.number # NoText THEN "ok"
    ELSE "error"

\* Read: an account, the fact that there is none, or an error.  An older
\* sidecar does not name its network.
Read(a, network) ==
    IF a.status = 0 THEN "error"
    ELSE IF a.status # 200 THEN statusError(a)
    ELSE IF a.readable /\ a.network \in {Blank, network} /\ a.number # NoText THEN "ok"
    ELSE "error"

\* The balance that fund and balance take from an answer.  A wallet without an
\* account holds 0; an empty balance is an error, as every other fault.
readBalance(a, network) ==
    CASE Read(a, network) = "noAccount" -> Plain(0)
      [] Read(a, network) = "ok" -> a.balance
      [] OTHER -> NoText
=============================================================================

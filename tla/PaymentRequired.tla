-------------------------- MODULE PaymentRequired --------------------------
(***************************************************************************)
(* How the client finds a payment option in a 402 answer:                  *)
(* readPaymentRequired and pickOption (src/payer/client.go) over           *)
(* ParsePaymentRequired (src/x402/codec.go).                               *)
(*                                                                         *)
(* An answer is [header, plain, rpc]: the Payment-Required header, and the *)
(* "accepts" list of the body read as a plain object and as the data of a  *)
(* JSON-RPC error.  A list that is absent or cannot be read is Unread; a   *)
(* body that is empty or no JSON gives Unread twice.  A header has a form, *)
(* how it is encoded, and a list.                                          *)
(***************************************************************************)
EXTENDS Integers, Sequences

CONSTANT Unread  \* a list that the decoder does not give

\* The encodings of a header: base64url, standard base64, or plain JSON.  A
\* value in none of them fails in peekVersion, and an absent one is not read.
Decodable == {"base64url", "base64", "plain"}

\* The list of a v1 value moves into the v2 shape as it is, and every other
\* version is read as v2, so the version does not decide.
ParsePaymentRequired(header) ==
    IF header.form \in Decodable THEN header.accepts ELSE Unread

\* A list with an option in it.
Usable(accepts) == accepts # Unread /\ accepts # << >>

\* The header wins, then the plain body, then the JSON-RPC body.
readPaymentRequired(answer) ==
    LET header == ParsePaymentRequired(answer.header) IN
    IF Usable(header) THEN header
    ELSE IF Usable(answer.plain) THEN answer.plain
    ELSE IF Usable(answer.rpc) THEN answer.rpc
    ELSE << >>

\* The first option of the network: a set of one option, or of none.
pickOption(accepts, network) ==
    {accepts[i] : i \in {k \in DOMAIN accepts :
                            /\ accepts[k].network = network
                            /\ \A j \in 1 .. (k - 1) : accepts[j].network # network}}
=============================================================================

---------------------------- MODULE MCPaidCalls ----------------------------
(***************************************************************************)
(* Small instances of PaidCalls.tla.                                       *)
(***************************************************************************)
EXTENDS PaidCalls, TLC

Option(price) == [network |-> Network, asset |-> Asset, scheme |-> "exact",
                  celestia |-> TRUE, whole |-> TRUE, amount |-> price]

\* An option for another network, which only pickOption sorts out.
Foreign == [Option(1) EXCEPT !.network = "other"]

\* Two prices that pass, one above maxPerCall, and a foreign option.
MCOptions == {Option(1), Option(2), Option(3), Foreign}

Header(f, list) == [form |-> f, accepts |-> list]
NoHeader == Header("absent", Unread)

\* One 402 answer per way of finding an option, or of finding none.
MCRequired ==
    {[header |-> Header("base64url", <<Foreign, Option(1)>>), plain |-> <<Option(2)>>, rpc |-> Unread],
     [header |-> Header("plain", << >>), plain |-> <<Option(2), Option(1)>>, rpc |-> Unread],
     [header |-> Header("garbage", Unread), plain |-> Unread, rpc |-> <<Option(3)>>],
     [header |-> Header("base64", <<Foreign>>), plain |-> <<Option(1)>>, rpc |-> Unread],
     [header |-> NoHeader, plain |-> << >>, rpc |-> Unread]}

Symmetry == Permutations(Calls)
=============================================================================

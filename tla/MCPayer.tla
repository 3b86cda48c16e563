------------------------------ MODULE MCPayer ------------------------------
(***************************************************************************)
(* Small instances of Payer.tla: three calls, a sidecar that may offer any *)
(* option below and answer any sequence.                                   *)
(***************************************************************************)
EXTENDS Payer, TLC

\* An option that passes, but for the fields that the caller changes.
Option(price) == [network |-> Network, asset |-> Asset, scheme |-> "exact",
                  celestia |-> TRUE, whole |-> TRUE, amount |-> price]

\* Two prices that pass, one option per rule of checkOption that does not.
MCOptions ==
    {Option(1), [Option(2) EXCEPT !.scheme = "upto"],
     [Option(1) EXCEPT !.network = "other"], [Option(1) EXCEPT !.asset = "other"],
     [Option(1) EXCEPT !.scheme = "other"], [Option(1) EXCEPT !.celestia = FALSE],
     [Option(1) EXCEPT !.whole = FALSE],
     Option(-1), Option(0), Option(MaxPerCall + 1)}

Symmetry == Permutations(Calls)
=============================================================================

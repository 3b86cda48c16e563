---------------------------- MODULE MCCommands ----------------------------
(***************************************************************************)
(* A small instance of Commands.tla.                                       *)
(***************************************************************************)
EXTENDS Commands

\* A file with every default, and files that differ from it in one way or two.
Base == [shape |-> "flat", upstream |-> "url", network |-> "cosmos:mocha-5",
         mnemonic |-> Blank, mnemonicFile |-> Blank, maxPerCall |-> NoText,
         budget |-> NoText, fee |-> NoText]

MCConfigFiles ==
    {[Base EXCEPT !.upstream = Blank, !.mnemonic = "w1"],
     [Base EXCEPT !.mnemonicFile = "other", !.maxPerCall = Spaced(20000)],
     [Base EXCEPT !.budget = Word],
     [Base EXCEPT !.fee = Plain(0), !.budget = Spaced(9), !.maxPerCall = Plain(9000)]}

\* Files that no command loads.
MCBroken ==
    {[Base EXCEPT !.shape = "old"], [Base EXCEPT !.shape = "broken"],
     [Base EXCEPT !.upstream = "other"], [Base EXCEPT !.network = "other"],
     [Base EXCEPT !.maxPerCall = Plain(0)], [Base EXCEPT !.fee = Plain(-1)]}

MCFiles == MCConfigFiles \cup MCBroken

Methods(a, b, c) == [block |-> a, health |-> b, tx |-> c]
MCPriceAnswers ==
    {[ok |-> FALSE, asset |-> Blank, network |-> Blank, methods |-> NoMethods],
     [ok |-> TRUE, asset |-> "utia", network |-> Blank, methods |-> Methods(Plain(1000), Plain(5000), Plain(2000))],
     [ok |-> TRUE, asset |-> Blank, network |-> "cosmos:celestia", methods |-> Methods(Plain(0), NoText, Word)],
     [ok |-> TRUE, asset |-> "utia", network |-> "other", methods |-> Methods(Plain(1), Plain(2), Plain(3))],
     [ok |-> TRUE, asset |-> "other", network |-> Blank, methods |-> Methods(Plain(1), Plain(2), Plain(3))]}

\* One answer per way in which the account route fails.
Answer(status, error) ==
    [status |-> status, error |-> error, readable |-> TRUE, network |-> Blank,
     number |-> NoText, balance |-> NoText]
Good == [Answer(200, {}) EXCEPT !.number = Plain(1), !.balance = Plain(777)]
MCFailures ==
    {Answer(0, {}), Answer(404, {}), Answer(503, {}), Answer(500, {"not found"}),
     [Good EXCEPT !.readable = FALSE], [Good EXCEPT !.network = "other"],
     [Good EXCEPT !.number = NoText], [Good EXCEPT !.balance = NoText]}
=============================================================================

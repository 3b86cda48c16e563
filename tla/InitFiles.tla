----------------------------- MODULE InitFiles -----------------------------
(***************************************************************************)
(* The files of the init command, src/cmd/x402-celestia-rpc-payer/init.go: *)
(* several runs of it, at the same time or one after another, over one     *)
(* mnemonic file and one configuration file.  Every system call is a step, *)
(* every one of them may fail, and a run may crash between any two.        *)
(*                                                                         *)
(* A run makes at most one wallet, so a run names its wallet, and it also  *)
(* names the body that it writes to the configuration file.  Old names     *)
(* what was there before the first run.                                    *)
(***************************************************************************)

CONSTANTS
    Runs,    \* the runs of init
    Old,     \* the earlier wallet and the earlier configuration
    NoFile,  \* a path that holds no file
    NoWallet \* a run that has no wallet yet

Wallets == Runs \cup {Old}
Modes == {"private", "public"}
MnemonicFiles == [of : Wallets, text : {"empty", "cut", "whole"}, mode : Modes]
ConfigFiles == [text : SUBSET Wallets, mode : Modes]

ASSUME NamesAssumption == Old \notin Runs /\ NoWallet \notin Wallets
ASSUME NoFileAssumption == NoFile \notin MnemonicFiles /\ NoFile \notin ConfigFiles

VARIABLES
    step,      \* step[r]: where run r stands in runInit, and how it ended
    force,     \* force[r]: its -force flag
    wallet,    \* wallet[r]: the wallet in its mnemonicFile
    mnemonic,  \* the file .mnemonic: whose wallet, how much of it, its mode
    config     \* the configuration file: whose text is in it, its mode

vars == <<step, force, wallet, mnemonic, config>>

\* How a run ends: "sawEmpty" is the error that the mnemonic file is empty.
Over == {"ok", "failed", "sawEmpty", "crashed"}
Steps == {"start", "prices", "make", "fill", "keep", "chmod", "read",
          "config", "body", "seal", "load", "address"}

Running == {r \in Runs : step[r] \in Steps \ {"start"}}

Go(r, s) == step' = [step EXCEPT ![r] = s]

Init ==
    /\ step = [r \in Runs |-> "start"]
    /\ force \in [Runs -> BOOLEAN]
    /\ wallet = [r \in Runs |-> NoWallet]
    /\ mnemonic \in {NoFile} \cup
                    [of : {Old}, text : {"whole"}, mode : Modes]
    /\ config \in {NoFile, [text |-> {Old}, mode |-> "public"]}
-----------------------------------------------------------------------------
\* Definitions named Bad... are slips that a change of the code could make;
\* no specification uses them.  Each shows that a property can fail.

\* The address is no address, or the configuration exists and nobody forces.  A
\* Stat that fails does not stop init, even when the file is there.
StatFinds == IF config = NoFile THEN {FALSE} ELSE BOOLEAN
Start(r) ==
    /\ step[r] = "start"
    /\ \/ Go(r, "failed")
       \/ \E found \in StatFinds : (found => force[r]) /\ Go(r, "prices")
    /\ UNCHANGED <<force, wallet, mnemonic, config>>

\* What readPrices gives: an error, or the token that the sidecar asks for.
readPrices == {"error", "unnamed", "utia", "other"}

\* Only a sidecar of another token stops init.
Prices(r) ==
    /\ step[r] = "prices"
    /\ \E asset \in readPrices : Go(r, IF asset = "other" THEN "failed" ELSE "make")
    /\ UNCHANGED <<force, wallet, mnemonic, config>>

NewFile(r) == [of |-> r, text |-> "empty", mode |-> "private"]

BadMakeMnemonic(r) ==
    /\ step[r] = "make"
    /\ \/ Go(r, "failed") /\ UNCHANGED mnemonic
       \/ Go(r, "fill") /\ mnemonic' = NewFile(r)
    /\ UNCHANGED <<force, wallet, config>>

\* makeMnemonic: O_EXCL checks and creates in one step.
MakeMnemonic(r) ==
    /\ step[r] = "make"
    /\ \/ Go(r, "failed") /\ UNCHANGED mnemonic
       \/ mnemonic = NoFile /\ Go(r, "fill") /\ mnemonic' = NewFile(r)
       \/ mnemonic # NoFile /\ Go(r, "keep") /\ UNCHANGED mnemonic
    /\ UNCHANGED <<force, wallet, config>>

BadFillMnemonic(r) ==
    /\ step[r] = "fill"
    /\ wallet' = [wallet EXCEPT ![r] = r]
    /\ Go(r, "config")
    /\ \E t \in {"cut", "whole"} : mnemonic' = [mnemonic EXCEPT !.text = t]
    /\ UNCHANGED <<force, config>>

\* makeMnemonic: the new mnemonic, the write and the close.  A failed write
\* may leave a part of the text, a failed close all of it.
FillMnemonic(r) ==
    /\ step[r] = "fill"
    /\ \/ /\ Go(r, "config")
          /\ wallet' = [wallet EXCEPT ![r] = r]
          /\ mnemonic' = [mnemonic EXCEPT !.text = "whole"]
       \/ /\ Go(r, "failed")
          /\ \E t \in {"empty", "cut", "whole"} : mnemonic' = [mnemonic EXCEPT !.text = t]
          /\ UNCHANGED wallet
    /\ UNCHANGED <<force, config>>

BadKeepStat(r) ==
    /\ step[r] = "keep"
    /\ Go(r, "read")
    /\ UNCHANGED <<force, wallet, mnemonic, config>>

\* keepMnemonic: the mode of the file that is there.
KeepStat(r) ==
    /\ step[r] = "keep"
    /\ \/ Go(r, "failed")
       \/ mnemonic.mode = "public" /\ Go(r, "chmod")
       \/ mnemonic.mode = "private" /\ Go(r, "read")
    /\ UNCHANGED <<force, wallet, mnemonic, config>>

KeepChmod(r) ==
    /\ step[r] = "chmod"
    /\ \/ Go(r, "failed") /\ UNCHANGED mnemonic
       \/ Go(r, "read") /\ mnemonic' = [mnemonic EXCEPT !.mode = "private"]
    /\ UNCHANGED <<force, wallet, config>>

BadKeepRead(r) ==
    /\ step[r] = "read"
    /\ Go(r, "config")
    /\ wallet' = [wallet EXCEPT ![r] = IF mnemonic.text = "whole" THEN mnemonic.of
                                       ELSE mnemonic.text]
    /\ UNCHANGED <<force, mnemonic, config>>

\* keepMnemonic: the text of the file that is there.  A part of a mnemonic is
\* no mnemonic, which ShowAddress finds out.
KeepRead(r) ==
    /\ step[r] = "read"
    /\ \/ Go(r, "failed") /\ UNCHANGED wallet
       \/ mnemonic.text = "empty" /\ Go(r, "sawEmpty") /\ UNCHANGED wallet
       \/ /\ mnemonic.text # "empty"
          /\ Go(r, "config")
          /\ wallet' = [wallet EXCEPT ![r] = IF mnemonic.text = "whole" THEN mnemonic.of
                                             ELSE NoWallet]
    /\ UNCHANGED <<force, mnemonic, config>>
-----------------------------------------------------------------------------
\* The mode of OpenFile applies only when the call makes the file.
Opened == [text |-> {}, mode |-> IF config = NoFile THEN "private" ELSE config.mode]

BadOpenConfig(r) ==
    /\ step[r] = "config"
    /\ Go(r, "body")
    /\ config' = Opened
    /\ UNCHANGED <<force, wallet, mnemonic>>

\* writeConfigFile: O_EXCL without force, O_TRUNC with it.
OpenConfig(r) ==
    /\ step[r] = "config"
    /\ \/ Go(r, "failed") /\ UNCHANGED config
       \/ (config = NoFile \/ force[r]) /\ Go(r, "body") /\ config' = Opened
    /\ UNCHANGED <<force, wallet, mnemonic>>

\* writeConfigFile: the write, from the start of the file.  The rest of a
\* longer text that another run wrote meanwhile stays behind it.
WriteConfig(r) ==
    /\ step[r] = "body"
    /\ \/ \E s \in {"seal", "failed"}, rest \in SUBSET config.text :
             Go(r, s) /\ config' = [config EXCEPT !.text = {r} \cup rest]
       \/ Go(r, "failed") /\ UNCHANGED config
    /\ UNCHANGED <<force, wallet, mnemonic>>

SealConfig(r) ==
    /\ step[r] = "seal"
    /\ \/ Go(r, "failed") /\ UNCHANGED config
       \/ Go(r, "load") /\ config' = [config EXCEPT !.mode = "private"]
    /\ UNCHANGED <<force, wallet, mnemonic>>

\* LoadConfig: a body whose address is no URL, or a mixed one, may not load;
\* an empty file does not.
LoadConfig(r) ==
    /\ step[r] = "load"
    /\ \/ Go(r, "failed")
       \/ config.text # {} /\ Go(r, "address")
    /\ UNCHANGED <<force, wallet, mnemonic, config>>

\* WalletFromMnemonic, and the address on the terminal.
ShowAddress(r) ==
    /\ step[r] = "address"
    /\ Go(r, IF wallet[r] = NoWallet THEN "failed" ELSE "ok")
    /\ UNCHANGED <<force, wallet, mnemonic, config>>

Crash(r) ==
    /\ r \in Running
    /\ Go(r, "crashed")
    /\ UNCHANGED <<force, wallet, mnemonic, config>>

\* The customer does what "is empty. Remove it, and run init again" says,
\* with no run in progress.
RemoveEmpty ==
    /\ Running = {}
    /\ \E r \in Runs : step[r] = "sawEmpty"
    /\ mnemonic # NoFile /\ mnemonic.text = "empty"
    /\ mnemonic' = NoFile
    /\ UNCHANGED <<step, force, wallet, config>>

AllOver == (\A r \in Runs : step[r] \in Over) /\ UNCHANGED vars

makeMnemonic(r) == MakeMnemonic(r) \/ FillMnemonic(r)
keepMnemonic(r) == KeepStat(r) \/ KeepChmod(r) \/ KeepRead(r)
writeConfigFile(r) == OpenConfig(r) \/ WriteConfig(r) \/ SealConfig(r)

runInit(r) == Start(r) \/ Prices(r) \/ makeMnemonic(r) \/ keepMnemonic(r)
              \/ writeConfigFile(r) \/ LoadConfig(r) \/ ShowAddress(r)

Next ==
    \/ \E r \in Runs : runInit(r) \/ Crash(r)
    \/ RemoveEmpty
    \/ AllOver

Spec == Init /\ [][Next]_vars
-----------------------------------------------------------------------------
\* Type invariant.
TypeOK ==
    /\ step \in [Runs -> Steps \cup Over]
    /\ force \in [Runs -> BOOLEAN]
    /\ wallet \in [Runs -> Wallets \cup {NoWallet}]
    /\ mnemonic \in MnemonicFiles \cup {NoFile}
    /\ config \in ConfigFiles \cup {NoFile}

\* The address that init shows is that of the wallet in the mnemonic file, from
\* then on: money that a customer sends there is not lost, although other runs
\* of init, their crashes, failed writes and removals of an empty file follow.
ShownWalletKept ==
    \A r \in Runs : step[r] = "ok" =>
        /\ mnemonic # NoFile
        /\ mnemonic.text = "whole"
        /\ mnemonic.of = wallet[r]

\* A mnemonic file with a text in it is never written again, with or without
\* -force, by any number of runs: init keeps a file that exists.
WalletNeverCut ==
    [][mnemonic # NoFile /\ mnemonic.text # "empty" =>
          /\ mnemonic' # NoFile
          /\ mnemonic'.of = mnemonic.of /\ mnemonic'.text = mnemonic.text]_vars

\* Two runs without -force do not cut the same configuration file: when one of
\* them ends well the file is its own, and an earlier file is as it was.
ConfigOwned ==
    (\A r \in Runs : ~force[r]) =>
        /\ \A r \in Runs : step[r] = "ok" => config # NoFile /\ config.text = {r}
        /\ config # NoFile /\ Old \in config.text => config.text = {Old}

\* After a run that ended well only the owner can read either file, whatever
\* mode an earlier build or an editor gave them.
BothPrivate ==
    \A r \in Runs : step[r] = "ok" =>
        mnemonic.mode = "private" /\ config.mode = "private"

\* Of two runs at the same time, one gets os.ErrExist and keeps the file of
\* the other one (the comment of makeMnemonic): a run finds the file empty
\* only after another run failed or crashed.
KeepsTheOther ==
    (\E r \in Runs : step[r] = "sawEmpty") =>
        \E r \in Runs : step[r] \in {"failed", "crashed"}
-----------------------------------------------------------------------------
\* The inductive strengthening behind the theorems of InitFiles_proofs.

\* The run that fills the file made it, and it is empty until then.
FillerMadeIt ==
    \A r \in Runs : step[r] = "fill" =>
        mnemonic # NoFile /\ mnemonic.of = r /\ mnemonic.text = "empty"

\* A run that keeps the file has one to keep.
KeeperHasFile ==
    \A r \in Runs : step[r] \in {"keep", "chmod", "read"} => mnemonic # NoFile

\* From the moment that a run has its wallet, the file holds that wallet.
WalletInFile ==
    \A r \in Runs :
        /\ wallet[r] # NoWallet => /\ mnemonic # NoFile
                                  /\ mnemonic.text = "whole"
                                  /\ mnemonic.of = wallet[r]
        /\ step[r] = "ok" => wallet[r] # NoWallet

\* The modes, step by step.
Sealed ==
    \A r \in Runs :
        /\ step[r] \in {"fill", "read", "config", "body", "seal", "load", "address", "ok"} =>
               mnemonic # NoFile /\ mnemonic.mode = "private"
        /\ step[r] \in {"body", "seal", "load", "address", "ok"} => config # NoFile
        /\ step[r] \in {"load", "address", "ok"} => config.mode = "private"

\* Without -force one run at most gets past O_EXCL, and nobody else writes.
Writers == {r \in Runs : step[r] \in {"body", "seal", "load", "address", "ok"}}
OneWriter ==
    (\A r \in Runs : ~force[r]) =>
        /\ \A r, s \in Writers : r = s
        /\ \A r \in Writers : /\ config # NoFile
                              /\ config.text = IF step[r] = "body" THEN {} ELSE {r}
        /\ config # NoFile /\ Old \in config.text => config.text = {Old}
=============================================================================

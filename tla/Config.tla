------------------------------- MODULE Config -------------------------------
(***************************************************************************)
(* The configuration file and the wallet that it names: src/payer/config.go*)
(* and src/payer/wallet.go.                                                *)
(*                                                                         *)
(* A file is [shape, upstream, network, mnemonic, mnemonicFile, maxPerCall,*)
(* budget, fee]; Blank is a field left out.  The shape is flat, that of an *)
(* earlier build (old), or one that the strict decoder refuses.  The       *)
(* other fields change nothing here; gasLimit cannot be 0 after            *)
(* applyDefaults, so validate never stops at it.                           *)
(***************************************************************************)
EXTENDS Texts

CONSTANTS
    NoFile,     \* a path that holds no file
    Wallets,    \* the mnemonics that are valid, each naming its wallet
    NoWallet,   \* no wallet
    CosmosIds   \* the networks whose name starts with "cosmos:"

\* What a file of a mnemonic may hold: nothing, or words that are no mnemonic.
Contents == Wallets \cup {NoFile, Blank, "words"}

\* field, or its default.
OrElse(field, empty, default) == IF field = empty THEN default ELSE field

applyDefaults(f) ==
    [shape |-> f.shape, network |-> f.network, mnemonic |-> f.mnemonic,
     upstream |-> OrElse(f.upstream, Blank, "url"),
     mnemonicFile |-> OrElse(f.mnemonicFile, Blank, ".mnemonic"),
     maxPerCall |-> OrElse(f.maxPerCall, NoText, Plain(20000)),
     budget |-> OrElse(f.budget, NoText, Plain(0)),
     fee |-> OrElse(f.fee, NoText, Plain(2000))]

\* parseAmount: a whole number that is 0 or above, as TrimSpace(t).n.
parseAmount(t) == SetString(TrimSpace(t)) /\ t.n \in Nat

BadValidate(c) ==
    /\ c.upstream = "url"
    /\ c.network \in CosmosIds
    /\ parseAmount(c.maxPerCall) /\ c.maxPerCall.n > 0
    /\ parseAmount(c.fee)

validate(c) ==
    /\ c.upstream = "url"
    /\ c.network \in CosmosIds
    /\ parseAmount(c.maxPerCall) /\ c.maxPerCall.n > 0
    /\ parseAmount(c.budget)
    /\ parseAmount(c.fee)

\* LoadConfig succeeds, and gives applyDefaults(f).
LoadConfig(f) == f # NoFile /\ f.shape = "flat" /\ validate(applyDefaults(f))

amountOrZero(t) == IF parseAmount(t) THEN t.n ELSE 0
MaxPerCallAmount(c) == amountOrZero(c.maxPerCall)
BudgetAmount(c) == amountOrZero(c.budget)

\* feeAmount of the Payer, which has an error (FeeError) where the others have 0.
FeeError == -1
feeAmount(c) == IF parseAmount(c.fee) THEN c.fee.n ELSE FeeError

\* The mnemonic in the file wins over the mnemonic file that it names.
ReadMnemonic(c, secrets) ==
    IF c.mnemonic # Blank THEN c.mnemonic ELSE secrets[c.mnemonicFile]

\* WalletFromMnemonic: words that are no mnemonic have no key.
WalletFromMnemonic(m) == IF m \in Wallets THEN m ELSE NoWallet

BadWalletFromConfig(c, secrets) == ReadMnemonic(c, secrets)

\* The wallet that signs, or NoWallet when there is an error.
WalletFromConfig(c, secrets) == WalletFromMnemonic(ReadMnemonic(c, secrets))
=============================================================================
